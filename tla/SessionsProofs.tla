--------------------------- MODULE SessionsProofs ---------------------------
(***************************************************************************)
(* Proofs about Sessions, for any number of carets, sessions, connections, *)
(* calls, parts of the editor and faults.                                  *)
(***************************************************************************)
EXTENDS Sessions, TLAPS

-----------------------------------------------------------------------------
(* The inductive invariant                                                 *)

ActiveWorks ==
  [stage : Stages, conn : Conns, fetch : Fetches, what : Calls,
   edit : BOOLEAN, moved : BOOLEAN]
DoneWorks == [stage : {"reply"}, conn : Conns, fetch : Fetches, answer : Answers]
WorkStates == {NoWork} \cup ActiveWorks \cup DoneWorks

AtServer(n) == server[n].state \in {"open", "closing"}

\* What a stage can do with a call, and what answers it.
StageSuits(stage, what) ==
  /\ stage \in {"look", "snapshot"} => what.call = "find"
  /\ stage \in {"read", "append"} => what.call = "make"

AnswerSuits(answer, what) ==
  /\ answer.kind = "session" => what.call # "getCaret"
  /\ answer.kind = "caret" => what.call = "getCaret"

StagesSuit == \A w \in Works : work[w].stage \in Stages => StageSuits(work[w].stage, work[w].what)

\* The cache's entry for a caret names its living session, so there is one.
EntriesTell == \A s \in LiveSessions : entry[session[s].caret] = Weak(s)

\* Both ends of a connection agree on when it begins.
ConnectionsMatch ==
  \A n \in Conns :
    /\ api[n].ws \in {"none", "connecting"} => server[n].state = "none"
    /\ api[n].ws = "open" => server[n].state # "none"

\* The sessions among a connection's targets are alive.
RemotesLive == \A n \in Conns : server[n].remotes \subseteq LiveSessions

\* A connection stays while calls on it are being worked on, with the session
\* that a call is made on and the one that is the answer.
WorksStay ==
  \A w \in Works : work[w] # NoWork =>
    /\ AtServer(work[w].conn)
    /\ work[w].stage \in Stages /\ work[w].what.call = "getCaret" =>
         work[w].what.on \in server[work[w].conn].remotes
    /\ work[w].stage = "reply" /\ work[w].answer.kind = "session" =>
         work[w].answer.of \in server[work[w].conn].remotes

\* While the client is there, it waits for what the server works on.
Awaited(w) ==
  LET f == work[w].fetch IN
  /\ fetch[f].state = "served" /\ fetch[f].conn = work[w].conn
  /\ work[w].stage \in Stages => work[w].what = fetch[f].what
  /\ work[w].stage = "reply" => AnswerSuits(work[w].answer, fetch[f].what)

IsAwaited(w) == work[w] # NoWork /\ api[work[w].conn].ws = "open"

WorksAwaited ==
  /\ \A w \in Works : IsAwaited(w) => Awaited(w)
  /\ \A v, w \in Works :
       IsAwaited(v) /\ IsAwaited(w) /\ work[v].fetch = work[w].fetch => v = w

UnderWay == {"queued", "sent", "served"}

\* What is under way is under way on a connection that is there, and the server
\* works on what it has taken.
FetchesMatch ==
  \A f \in Fetches :
    /\ fetch[f].state = "queued" => api[fetch[f].conn].ws = "connecting"
    /\ fetch[f].state \in {"sent", "served"} => api[fetch[f].conn].ws = "open"
    /\ fetch[f].state = "served" =>
         \E w \in Works : work[w] # NoWork /\ work[w].fetch = f /\ work[w].conn = fetch[f].conn

\* No attempt that is under way is forgotten.
FetchesCared ==
  \A f \in Fetches : fetch[f].state \in UnderWay =>
    \E k \in Callers : caller[k].pc \in {"checking", "fetching"} /\ caller[k].on = f

\* The connections so far are those up to the current one.
ConnectionsBegun ==
  /\ \A n \in Conns : api[n].ws # "none" <=> n <= current
  /\ \A k \in Callers : caller[k].pc \in {"opening", "checking"} => api[caller[k].conn].ws # "none"

\* The server keeps s for connection n while that lasts.
Keeps(n, s) == server[n].state # "none" /\ (AtServer(n) => s \in server[n].remotes)

SessionsKept ==
  /\ \A f \in Fetches :
       /\ fetch[f].state \in UnderWay /\ fetch[f].what.call = "getCaret" =>
            Keeps(fetch[f].conn, fetch[f].what.on)
       /\ fetch[f].state = "resolved" => Keeps(fetch[f].conn, fetch[f].proxy)
  /\ \A k \in Callers : caller[k].pc = "has" => Keeps(caller[k].conn, caller[k].proxy)

ServerInv == ServerTypeOK /\ StagesSuit /\ EntriesTell /\ RemotesLive /\ WorksStay
ClientInv ==
  /\ ConnectionsMatch /\ WorksAwaited
  /\ FetchesMatch /\ FetchesCared /\ ConnectionsBegun /\ SessionsKept
IInv == TypeOK /\ ServerInv /\ ClientInv

-----------------------------------------------------------------------------
(* Helper facts: kinds of records and their fields                         *)

LEMMA UnusedMeans ==
  ASSUME NEW of, NEW identities, NEW unused, NEW x \in Unused(of, identities, unused)
  PROVE  x \in identities /\ of[x] = unused
<1> DEFINE free == {y \in identities : of[y] = unused}
<1>1. free # {}
  BY DEF Unused
<1>2. (CHOOSE y \in free : TRUE) \in free
  BY <1>1
<1> QED
  BY <1>2 DEF Unused

LEMMA CallFields ==
  ASSUME NEW what \in Calls
  PROVE  /\ what.call \in {"find", "make", "getCaret"}
         /\ what.call = "find" => what.on \in Carets
         /\ what.call = "getCaret" => what.on \in Sessions
BY DEF Calls

LEMMA AnswerKinds ==
  /\ Error \in Answers /\ Error.kind = "error"
  /\ [kind |-> "null"] \in Answers
  /\ \A s \in Sessions : [kind |-> "session", of |-> s] \in Answers
  /\ \A c \in Carets : [kind |-> "caret", of |-> c] \in Answers
BY DEF Answers, Error

LEMMA AnswerFields ==
  ASSUME NEW answer \in Answers
  PROVE  /\ answer.kind \in {"error", "null", "session", "caret"}
         /\ answer.kind = "session" => answer.of \in Sessions
         /\ answer.kind = "caret" => answer.of \in Carets
BY DEF Answers

LEMMA WorkFields ==
  ASSUME NEW x \in WorkStates
  PROVE  /\ x = NoWork \/ x \in ActiveWorks \/ x \in DoneWorks
         /\ x = NoWork <=> x.stage = "none"
         /\ x \in ActiveWorks <=> x.stage \in Stages
         /\ x \in DoneWorks <=> x.stage = "reply"
         /\ x # NoWork => x.conn \in Conns /\ x.fetch \in Fetches
         /\ x.stage \in Stages =>
              /\ x.what \in Calls /\ x.edit \in BOOLEAN /\ x.moved \in BOOLEAN
              /\ x.stage # "reply" /\ x.stage # "none"
         /\ x.stage = "reply" => x.answer \in Answers
BY DEF WorkStates, ActiveWorks, DoneWorks, NoWork, Stages

LEMMA StageChanged ==
  ASSUME NEW x \in ActiveWorks, NEW stage \in Stages
  PROVE  /\ [x EXCEPT !.stage = stage] \in ActiveWorks
         /\ [x EXCEPT !.stage = stage].stage = stage
         /\ [x EXCEPT !.stage = stage].conn = x.conn
         /\ [x EXCEPT !.stage = stage].fetch = x.fetch
         /\ [x EXCEPT !.stage = stage].what = x.what
BY DEF ActiveWorks

LEMMA MovedChanged ==
  ASSUME NEW x \in ActiveWorks, NEW moved \in BOOLEAN
  PROVE  /\ [x EXCEPT !.moved = moved] \in ActiveWorks
         /\ [x EXCEPT !.moved = moved].stage = x.stage
         /\ [x EXCEPT !.moved = moved].conn = x.conn
         /\ [x EXCEPT !.moved = moved].fetch = x.fetch
         /\ [x EXCEPT !.moved = moved].what = x.what
BY DEF ActiveWorks

LEMMA EditChanged ==
  ASSUME NEW x \in ActiveWorks, NEW edit \in BOOLEAN
  PROVE  /\ [x EXCEPT !.edit = edit] \in ActiveWorks
         /\ [x EXCEPT !.edit = edit].stage = x.stage
         /\ [x EXCEPT !.edit = edit].conn = x.conn
         /\ [x EXCEPT !.edit = edit].fetch = x.fetch
         /\ [x EXCEPT !.edit = edit].what = x.what
BY DEF ActiveWorks

LEMMA DoneFields ==
  ASSUME NEW n \in Conns, NEW f \in Fetches, NEW answer \in Answers,
         NEW x, x = [stage |-> "reply", conn |-> n, fetch |-> f, answer |-> answer]
  PROVE  x \in DoneWorks /\ x.stage = "reply" /\ x.conn = n /\ x.fetch = f /\ x.answer = answer
BY DEF DoneWorks

-----------------------------------------------------------------------------
(* How the server's calls go on.  Seen from the client, whatever happens   *)
(* on the server is of this kind.                                          *)

\* A call stays where it is, goes on or is answered.
WorkGoesOn(v) ==
  /\ work'[v] \in WorkStates
  /\ work'[v] = NoWork <=> work[v] = NoWork
  /\ work[v] # NoWork => work'[v].conn = work[v].conn /\ work'[v].fetch = work[v].fetch
  /\ work'[v].stage \in Stages =>
       /\ work[v].stage \in Stages /\ work'[v].what = work[v].what
       /\ StageSuits(work'[v].stage, work'[v].what)
  /\ work'[v].stage = "reply" /\ work'[v] # work[v] =>
       /\ work[v].stage \in Stages
       /\ AnswerSuits(work'[v].answer, work[v].what)
       /\ work'[v].answer.kind = "session" =>
            work'[v].answer.of \in server'[work[v].conn].remotes

\* Sessions live on while a connection has them, and keep their carets.
SessionsGoOn ==
  /\ server' \in [Conns -> [state : {"none", "open", "closing", "closed"},
                            token : BOOLEAN, remotes : SUBSET Sessions]]
  /\ \A n \in Conns :
       /\ server'[n].state = server[n].state
       /\ server[n].remotes \subseteq server'[n].remotes
       /\ server[n].remotes \subseteq LiveSessions => server'[n].remotes \subseteq LiveSessions'

ServerGoesOn == (\A v \in Works : WorkGoesOn(v)) /\ work' \in [Works -> WorkStates] /\ SessionsGoOn

LEMMA StaysAsItIs ==
  ASSUME ServerInv, NEW v \in Works, work'[v] = work[v]
  PROVE  WorkGoesOn(v)
<1>1. work[v] \in WorkStates
  BY DEF ServerInv, ServerTypeOK, WorkStates, ActiveWorks, DoneWorks
<1> QED
  BY <1>1 DEF WorkGoesOn, ServerInv, StagesSuit

\* The step of one call, with the others marked as CaretsMoved() does or not.
LEMMA StageGoesOn ==
  ASSUME ServerInv, NEW w \in Works, work[w].stage \in Stages,
         NEW stage \in Stages, StageSuits(stage, work[w].what), GoTo(w, stage)
  PROVE  work' \in [Works -> WorkStates] /\ \A v \in Works : WorkGoesOn(v)
<1>1. work \in [Works -> WorkStates]
  BY DEF ServerInv, ServerTypeOK, WorkStates, ActiveWorks, DoneWorks
<1>2. work[w] \in ActiveWorks
  BY <1>1, WorkFields
<1> DEFINE x == [work[w] EXCEPT !.stage = stage]
<1>3. /\ x \in ActiveWorks /\ x.stage = stage /\ x.conn = work[w].conn
      /\ x.fetch = work[w].fetch /\ x.what = work[w].what
  BY <1>2, StageChanged
<1>4. work'[w] = x /\ \A v \in Works \ {w} : work'[v] = work[v]
  BY <1>1 DEF GoTo
<1>5. x \in WorkStates
  BY <1>3 DEF WorkStates
<1>6. work' \in [Works -> WorkStates]
  BY <1>1, <1>5 DEF GoTo
<1>7. stage # "reply" /\ stage # "none" /\ work[w] # NoWork /\ x # NoWork
  BY <1>2, <1>3 DEF Stages, NoWork
<1>8. WorkGoesOn(w)
  BY <1>3, <1>4, <1>5, <1>7 DEF WorkGoesOn
<1> QED
  BY <1>4, <1>6, <1>8, StaysAsItIs

\* The mark that the carets have moved changes nothing else.
LEMMA MarkedStays ==
  ASSUME ServerInv, NEW v \in Works
  PROVE  /\ CaretsMoved(work)[v] \in WorkStates
         /\ CaretsMoved(work)[v].stage = work[v].stage
         /\ work[v] # NoWork =>
              /\ CaretsMoved(work)[v].conn = work[v].conn
              /\ CaretsMoved(work)[v].fetch = work[v].fetch
         /\ work[v].stage \in Stages => CaretsMoved(work)[v].what = work[v].what
         /\ work[v].stage # "append" => CaretsMoved(work)[v] = work[v]
<1>1. work[v] \in WorkStates
  BY DEF ServerInv, ServerTypeOK, WorkStates, ActiveWorks, DoneWorks
<1>2. CASE work[v].stage = "append"
  <2>1. work[v] \in ActiveWorks
    BY <1>1, <1>2, WorkFields DEF Stages
  <2> DEFINE x == [work[v] EXCEPT !.moved = TRUE]
  <2>2. /\ x \in ActiveWorks /\ x.stage = work[v].stage /\ x.conn = work[v].conn
        /\ x.fetch = work[v].fetch /\ x.what = work[v].what
    BY <2>1, MovedChanged
  <2>3. CaretsMoved(work)[v] = x
    BY <1>2 DEF CaretsMoved
  <2>4. x \in WorkStates
    BY <2>2 DEF WorkStates
  <2> QED
    BY <1>2, <2>2, <2>3, <2>4
<1>3. CASE work[v].stage # "append"
  BY <1>1, <1>3 DEF CaretsMoved
<1> QED
  BY <1>2, <1>3

LEMMA MarkedGoesOn ==
  ASSUME ServerInv, NEW v \in Works, work'[v] = CaretsMoved(work)[v]
  PROVE  WorkGoesOn(v)
<1>1. CASE work[v].stage = "append"
  <2>1. work[v] # NoWork /\ work'[v].stage = "append"
    BY <1>1, MarkedStays DEF NoWork
  <2>2. work'[v] # NoWork
    BY <2>1 DEF NoWork
  <2> QED
    BY <1>1, <2>1, <2>2, MarkedStays DEF WorkGoesOn, ServerInv, StagesSuit, Stages
<1>2. CASE work[v].stage # "append"
  BY <1>2, MarkedStays, StaysAsItIs
<1> QED
  BY <1>1, <1>2

LEMMA AnswerGoesOn ==
  ASSUME ServerInv, NEW w \in Works, work[w].stage \in Stages,
         NEW answer \in Answers, AnswerSuits(answer, work[w].what),
         answer.kind = "session" => answer.of \in server'[work[w].conn].remotes,
         NEW works, works = work \/ works = CaretsMoved(work),
         work' = Answered(works, w, answer)
  PROVE  work' \in [Works -> WorkStates] /\ \A v \in Works : WorkGoesOn(v)
<1>1. works \in [Works -> WorkStates]
  <2>1. work \in [Works -> WorkStates]
    BY DEF ServerInv, ServerTypeOK, WorkStates, ActiveWorks, DoneWorks
  <2>2. CaretsMoved(work) \in [Works -> WorkStates]
    <3>1. \A v \in Works : CaretsMoved(work)[v] \in WorkStates
      BY MarkedStays
    <3> QED
      BY <3>1 DEF CaretsMoved
  <2> QED
    BY <2>1, <2>2
<1>2. /\ work[w] \in ActiveWorks /\ work[w].conn \in Conns /\ work[w].fetch \in Fetches
      /\ work[w] # NoWork
  <2>1. work[w] \in WorkStates
    BY DEF ServerInv, ServerTypeOK, WorkStates, ActiveWorks, DoneWorks
  <2> QED
    BY <2>1, WorkFields
<1> DEFINE x == [stage |-> "reply", conn |-> work[w].conn,
                 fetch |-> work[w].fetch, answer |-> answer]
<1>3. /\ x \in DoneWorks /\ x.stage = "reply" /\ x.conn = work[w].conn
      /\ x.fetch = work[w].fetch /\ x.answer = answer
  BY <1>2, DoneFields
<1>4. works[w].conn = work[w].conn /\ works[w].fetch = work[w].fetch
  BY <1>2, MarkedStays
<1>5. work' = [works EXCEPT ![w] = x]
  BY <1>4 DEF Answered
<1>6. x \in WorkStates /\ x # NoWork
  BY <1>3 DEF WorkStates, NoWork
<1> HIDE DEF x
<1>7. work'[w] = x /\ work' \in [Works -> WorkStates]
  BY <1>1, <1>5, <1>6
<1>8. "reply" \notin Stages
  BY DEF Stages
<1>9. WorkGoesOn(w)
  BY <1>2, <1>3, <1>6, <1>7, <1>8 DEF WorkGoesOn
<1>10. ASSUME NEW v \in Works \ {w} PROVE WorkGoesOn(v)
  <2>1. work'[v] = works[v]
    BY <1>1, <1>5
  <2> QED
    BY <2>1, StaysAsItIs, MarkedGoesOn
<1> QED
  BY <1>7, <1>9, <1>10

-----------------------------------------------------------------------------
(* The cache of sessions                                                   *)

SessionStates == {NoSession} \cup [state : {"live", "dead"}, caret : Carets, edit : BOOLEAN]

LEMMA SessionFields ==
  ASSUME ServerTypeOK, NEW s \in Sessions
  PROVE  /\ session[s] \in SessionStates
         /\ session[s].state \in {"live", "dead"} =>
              /\ session[s].caret \in Carets
              /\ entry[session[s].caret] \in Entries(Sessions)
BY DEF ServerTypeOK, SessionStates, NoSession

LEMMA AliveMeans ==
  ASSUME ServerTypeOK, NEW c \in Carets
  PROVE  /\ IsAlive(entry[c], LiveSessions) => entry[c].of \in LiveSessions
         /\ \A s \in LiveSessions : entry[c] = Weak(s) => IsAlive(entry[c], LiveSessions)
         /\ AfterReaping(entry[c], LiveSessions) \in Entries(Sessions)
         /\ \A s \in Sessions : Weak(s) \in Entries(Sessions)
BY DEF ServerTypeOK, IsAlive, Weak, AfterReaping, Entries

\* A session is made only for a caret that has no living one.
LEMMA ActivateKeeps ==
  ASSUME ServerInv, NEW w \in Works, work[w].stage \in Stages,
         work[w].what.call # "getCaret",
         NEW works, works = work \/ works = CaretsMoved(work),
         NEW c \in Carets, Activate(works, w, c)
  PROVE  /\ session' \in [Sessions -> SessionStates]
         /\ entry' \in [Carets -> Entries(Sessions)]
         /\ EntriesTell'
         /\ ServerGoesOn
<1>1. CASE /\ work' = Answered(works, w, Error)
           /\ UNCHANGED <<session, entry, server>>
  <2>1. SessionsGoOn /\ EntriesTell'
    BY <1>1 DEF ServerInv, ServerTypeOK, SessionsGoOn, EntriesTell, LiveSessions
  <2>2. Error \in Answers /\ AnswerSuits(Error, work[w].what) /\ Error.kind # "session"
    BY AnswerKinds DEF AnswerSuits
  <2>3. work' \in [Works -> WorkStates] /\ \A v \in Works : WorkGoesOn(v)
    BY <1>1, <2>2, AnswerGoesOn
  <2> QED
    BY <1>1, <2>1, <2>3 DEF ServerInv, ServerTypeOK, SessionStates, ServerGoesOn
<1>2. ASSUME ~ IsAlive(entry[c], LiveSessions),
             NEW s \in Unused(session, Sessions, NoSession),
             session' = [session EXCEPT
               ![s] = [state |-> "live", caret |-> c, edit |-> work[w].edit]],
             entry' = [entry EXCEPT ![c] = Added(@, LiveSessions, s)],
             AnswerSession(works, w, s)
      PROVE  /\ session' \in [Sessions -> SessionStates]
             /\ entry' \in [Carets -> Entries(Sessions)]
             /\ EntriesTell'
             /\ ServerGoesOn
  <2> DEFINE n == work[w].conn
  <2>1. s \in Sessions /\ session[s] = NoSession
    BY UnusedMeans
  <2>2. work[w].edit \in BOOLEAN /\ n \in Conns
    <3>1. work[w] \in WorkStates
      BY DEF ServerInv, ServerTypeOK, WorkStates, ActiveWorks, DoneWorks
    <3> QED
      BY <3>1, WorkFields DEF Stages, NoWork
  <2>3. session' \in [Sessions -> SessionStates]
    BY <1>2, <2>1, <2>2 DEF ServerInv, ServerTypeOK, SessionStates
  <2>4. /\ entry' = [entry EXCEPT ![c] = Weak(s)]
        /\ entry' \in [Carets -> Entries(Sessions)]
    BY <1>2, <2>1, AliveMeans DEF ServerInv, ServerTypeOK, Added
  <2>5. LiveSessions' = LiveSessions \cup {s}
    BY <1>2, <2>1 DEF ServerInv, ServerTypeOK, LiveSessions, NoSession
  <2>6. \A t \in LiveSessions : session'[t] = session[t] /\ session[t].caret # c
    BY <1>2, <2>1, AliveMeans DEF ServerInv, ServerTypeOK, EntriesTell, LiveSessions, NoSession
  <2>7. session'[s].caret = c /\ entry'[c] = Weak(s)
    BY <1>2, <2>1, <2>4 DEF ServerInv, ServerTypeOK
  <2>8. EntriesTell'
    BY <2>4, <2>5, <2>6, <2>7, SessionFields DEF ServerInv, ServerTypeOK, EntriesTell, LiveSessions
  <2>9. SessionsGoOn /\ s \in server'[n].remotes
    BY <1>2, <2>1, <2>2, <2>5 DEF AnswerSession, SessionsGoOn, ServerInv, ServerTypeOK
  <2> DEFINE answer == [kind |-> "session", of |-> s]
  <2>10. /\ answer \in Answers /\ AnswerSuits(answer, work[w].what)
         /\ answer.of = s
    BY <2>1, AnswerKinds DEF AnswerSuits
  <2>11. work' \in [Works -> WorkStates] /\ \A v \in Works : WorkGoesOn(v)
    <3>1. work' = Answered(works, w, answer)
      BY <1>2 DEF AnswerSession
    <3> HIDE DEF answer
    <3> QED
      BY <2>9, <2>10, <3>1, AnswerGoesOn
  <2> QED
    BY <2>3, <2>4, <2>8, <2>9, <2>11 DEF ServerGoesOn
<1> QED
  BY <1>1, <1>2 DEF Activate

-----------------------------------------------------------------------------
(* The steps of the server                                                 *)

LEMMA RestGoesOn ==
  ASSUME ServerInv, ServerGoesOn,
         caretState' \in [Carets -> {"unused", "present", "gone"}],
         session' \in [Sessions -> SessionStates],
         entry' \in [Carets -> Entries(Sessions)],
         mayEdit' \in BOOLEAN, faults' \in 0 .. MaxFaults,
         EntriesTell'
  PROVE  ServerInv'
<1>1. ServerTypeOK'
  BY DEF ServerTypeOK, ServerGoesOn, SessionsGoOn, SessionStates, WorkStates, ActiveWorks, DoneWorks
<1>2. StagesSuit'
  BY DEF ServerGoesOn, WorkGoesOn, StagesSuit
<1>3. RemotesLive'
  BY DEF ServerGoesOn, SessionsGoOn, ServerInv, RemotesLive
<1>4. ASSUME NEW w \in Works, work'[w] # NoWork
      PROVE  /\ AtServer(work[w].conn)'
             /\ work'[w].stage \in Stages /\ work'[w].what.call = "getCaret" =>
                  work'[w].what.on \in server'[work'[w].conn].remotes
             /\ work'[w].stage = "reply" /\ work'[w].answer.kind = "session" =>
                  work'[w].answer.of \in server'[work'[w].conn].remotes
  <2>1. work[w] # NoWork /\ work'[w].conn = work[w].conn /\ WorkGoesOn(w)
    BY <1>4 DEF ServerGoesOn, WorkGoesOn
  <2>2. work[w].conn \in Conns
    <3>1. work[w] \in WorkStates
      BY DEF ServerInv, ServerTypeOK, WorkStates, ActiveWorks, DoneWorks
    <3> QED
      BY <2>1, <3>1, WorkFields
  <2>3. server'[work[w].conn].state = server[work[w].conn].state
    BY <2>2 DEF ServerGoesOn, SessionsGoOn
  <2>4. server[work[w].conn].remotes \subseteq server'[work[w].conn].remotes
    BY <2>2 DEF ServerGoesOn, SessionsGoOn
  <2>5. AtServer(work[w].conn)'
    BY <2>1, <2>3 DEF ServerInv, WorksStay, AtServer
  <2>6. work'[w].stage \in Stages /\ work'[w].what.call = "getCaret" =>
          work'[w].what.on \in server'[work'[w].conn].remotes
    BY <2>1, <2>4 DEF WorkGoesOn, ServerInv, WorksStay
  <2>7. work'[w].stage = "reply" /\ work'[w].answer.kind = "session" =>
          work'[w].answer.of \in server'[work'[w].conn].remotes
    BY <2>1, <2>4 DEF WorkGoesOn, ServerInv, WorksStay
  <2> QED
    BY <2>5, <2>6, <2>7
<1>5. WorksStay'
  BY <1>4 DEF WorksStay
<1> QED
  BY <1>1, <1>2, <1>3, <1>5 DEF ServerInv

LEMMA WorkKind ==
  ASSUME ServerInv, NEW w \in Works
  PROVE  /\ work[w] \in WorkStates
         /\ work[w].stage \in Stages => work[w] \in ActiveWorks /\ work[w] # NoWork
         /\ work[w].stage \in Stages => work[w].conn \in Conns /\ work[w].what \in Calls
<1>1. work[w] \in WorkStates
  BY DEF ServerInv, ServerTypeOK, WorkStates, ActiveWorks, DoneWorks
<1> QED
  BY <1>1, WorkFields DEF NoWork, Stages

LEMMA SessionsStay ==
  ASSUME ServerInv, UNCHANGED <<session, entry>>
  PROVE  /\ session' \in [Sessions -> SessionStates]
         /\ entry' \in [Carets -> Entries(Sessions)]
         /\ EntriesTell'
         /\ LiveSessions' = LiveSessions
BY DEF ServerInv, ServerTypeOK, SessionStates, EntriesTell, LiveSessions

LEMMA ServerStays ==
  ASSUME ServerInv, UNCHANGED <<session, server>>
  PROVE  SessionsGoOn
BY DEF ServerInv, ServerTypeOK, SessionsGoOn, LiveSessions

LEMMA OthersStay ==
  ASSUME ServerInv
  PROVE  /\ UNCHANGED caretState => caretState' \in [Carets -> {"unused", "present", "gone"}]
         /\ UNCHANGED mayEdit => mayEdit' \in BOOLEAN
         /\ UNCHANGED faults => faults' \in 0 .. MaxFaults
         /\ Fault => faults' \in 0 .. MaxFaults
BY SessionServerAssumption DEF ServerInv, ServerTypeOK, Fault

LEMMA ErrorGoesOn ==
  ASSUME ServerInv, NEW w \in Works, work[w].stage \in Stages,
         work' = Answered(work, w, Error)
  PROVE  work' \in [Works -> WorkStates] /\ \A v \in Works : WorkGoesOn(v)
<1>1. Error \in Answers /\ AnswerSuits(Error, work[w].what) /\ Error.kind # "session"
  BY AnswerKinds DEF AnswerSuits
<1> QED
  BY <1>1, AnswerGoesOn

LEMMA ActedGoesOn ==
  ASSUME ServerInv, NEW w \in Works, work[w].stage \in {"act", "auth"}, work' = Acted(w)
  PROVE  work' \in [Works -> WorkStates] /\ \A v \in Works : WorkGoesOn(v)
<1> DEFINE what == work[w].what
<1>1. /\ work[w].stage \in Stages /\ work[w] \in ActiveWorks /\ work[w] # NoWork
      /\ work[w].conn \in Conns /\ what \in Calls
  BY WorkKind DEF Stages
<1>2. CASE server[work[w].conn].state # "open"
  BY <1>1, <1>2, ErrorGoesOn DEF Acted
<1>3. CASE server[work[w].conn].state = "open" /\ what.call = "getCaret"
  <2> DEFINE answer == [kind |-> "caret", of |-> session[what.on].caret]
  <2>1. what.on \in LiveSessions
    BY <1>1, <1>3 DEF ServerInv, WorksStay, RemotesLive
  <2>2. session[what.on].caret \in Carets
    BY <2>1, SessionFields DEF ServerInv, LiveSessions
  <2>3. answer \in Answers /\ AnswerSuits(answer, what) /\ answer.kind # "session"
    BY <1>3, <2>2, AnswerKinds DEF AnswerSuits
  <2>4. work' = Answered(work, w, answer)
    BY <1>3 DEF Acted
  <2> HIDE DEF answer
  <2> QED
    BY <1>1, <2>3, <2>4, AnswerGoesOn
<1>4. CASE server[work[w].conn].state = "open" /\ what.call # "getCaret"
  <2> DEFINE stage == IF what.call = "find" THEN "look" ELSE "read"
             x == [work[w] EXCEPT !.edit = mayEdit]
             y == [x EXCEPT !.stage = stage]
  <2>1. stage \in Stages /\ StageSuits(stage, what) /\ mayEdit \in BOOLEAN
    BY <1>1, <1>4, CallFields DEF StageSuits, Stages, ServerInv, ServerTypeOK
  <2>2. /\ x \in ActiveWorks /\ x.conn = work[w].conn /\ x.fetch = work[w].fetch
        /\ x.what = what
    BY <1>1, <2>1, EditChanged
  <2>3. /\ y \in ActiveWorks /\ y.stage = stage /\ y.conn = work[w].conn
        /\ y.fetch = work[w].fetch /\ y.what = what
    <3> HIDE DEF x, stage
    <3> QED
      BY <2>1, <2>2, StageChanged
  <2>4. work \in [Works -> WorkStates]
    BY DEF ServerInv, ServerTypeOK, WorkStates, ActiveWorks, DoneWorks
  <2>5. work' = [work EXCEPT ![w] = y]
    BY <1>4, <2>4 DEF Acted
  <2>6. y \in WorkStates /\ y # NoWork /\ stage # "reply"
    BY <2>3 DEF WorkStates, NoWork
  <2> HIDE DEF y, stage
  <2>7. /\ work' \in [Works -> WorkStates] /\ work'[w] = y
        /\ \A v \in Works \ {w} : work'[v] = work[v]
    BY <2>4, <2>5, <2>6
  <2>8. WorkGoesOn(w)
    BY <1>1, <2>1, <2>3, <2>6, <2>7 DEF WorkGoesOn
  <2> QED
    BY <2>7, <2>8, StaysAsItIs
<1> QED
  BY <1>2, <1>3, <1>4

LEMMA ActKeeps ==
  ASSUME ServerInv, NEW w \in Works, Act(w)
  PROVE  ServerInv' /\ ServerGoesOn
<1>1. ServerGoesOn
  BY ActedGoesOn, ServerStays DEF Act, At, ServerGoesOn
<1> QED
  BY <1>1, RestGoesOn, SessionsStay, OthersStay DEF Act

LEMMA AuthorizeKeeps ==
  ASSUME ServerInv, NEW w \in Works, Authorize(w)
  PROVE  ServerInv' /\ ServerGoesOn
<1>1. work[w].stage = "auth" /\ work[w].stage \in Stages /\ work[w].conn \in Conns
  BY WorkKind DEF Authorize, At, Stages
<1>2. work' \in [Works -> WorkStates] /\ \A v \in Works : WorkGoesOn(v)
  BY <1>1, ErrorGoesOn, ActedGoesOn DEF Authorize
<1>3. SessionsGoOn
  <2>1. CASE UNCHANGED server
    BY <2>1, ServerStays DEF Authorize
  <2>2. CASE server' = [server EXCEPT ![work[w].conn].token = TRUE]
    <3>1. /\ server' \in [Conns -> [state : {"none", "open", "closing", "closed"},
                                     token : BOOLEAN, remotes : SUBSET Sessions]]
          /\ \A n \in Conns :
               server'[n].state = server[n].state /\ server'[n].remotes = server[n].remotes
      <4> DEFINE n == work[w].conn
                 Ends == [state : {"none", "open", "closing", "closed"},
                          token : BOOLEAN, remotes : SUBSET Sessions]
                 x == [server[n] EXCEPT !.token = TRUE]
      <4>1. server \in [Conns -> Ends] /\ n \in Conns
        BY <1>1 DEF ServerInv, ServerTypeOK
      <4>2. x \in Ends /\ x.state = server[n].state /\ x.remotes = server[n].remotes
        BY <4>1
      <4>3. server' = [server EXCEPT ![n] = x]
        BY <2>2
      <4> HIDE DEF n, Ends, x
      <4>4. server' \in [Conns -> Ends] /\ server'[n] = x
            /\ \A m \in Conns \ {n} : server'[m] = server[m]
        BY <4>1, <4>2, <4>3
      <4> QED
        BY <4>2, <4>4 DEF Ends
    <3>2. LiveSessions' = LiveSessions
      BY DEF Authorize, LiveSessions
    <3> QED
      BY <3>1, <3>2 DEF SessionsGoOn
  <2> QED
    BY <2>1, <2>2 DEF Authorize
<1>4. ServerGoesOn
  BY <1>2, <1>3 DEF ServerGoesOn
<1> QED
  BY <1>4, RestGoesOn, SessionsStay, OthersStay DEF Authorize

LEMMA TroubleKeeps ==
  ASSUME ServerInv, NEW w \in Works, Trouble(w)
  PROVE  ServerInv' /\ ServerGoesOn
<1>1. ServerGoesOn
  BY ErrorGoesOn, ServerStays DEF Trouble, Stages, ServerGoesOn
<1> QED
  BY <1>1, RestGoesOn, SessionsStay, OthersStay DEF Trouble

LEMMA LookKeeps ==
  ASSUME ServerInv, NEW w \in Works, Look(w)
  PROVE  ServerInv' /\ ServerGoesOn
<1> DEFINE e == entry[work[w].what.on]
           found == Lookup(e, LiveSessions, FALSE)
<1>1. /\ work[w].stage = "look" /\ work[w].stage \in Stages
      /\ work[w].what.call = "find" /\ work[w].what.on \in Carets /\ work[w].conn \in Conns
  BY WorkKind, CallFields DEF Look, At, Stages, ServerInv, StagesSuit, StageSuits
<1>2. CASE work' = Answered(work, w, Error) /\ UNCHANGED server
  BY <1>1, <1>2, ErrorGoesOn, ServerStays, RestGoesOn, SessionsStay, OthersStay
  DEF Look, ServerGoesOn
<1>3. CASE found = "object" /\ AnswerSession(work, w, e.of)
  <2>1. e.of \in LiveSessions
    BY <1>1, <1>3, AliveMeans DEF Lookup, ServerInv
  <2>2. SessionsGoOn /\ e.of \in server'[work[w].conn].remotes
    BY <1>1, <1>3, <2>1
    DEF Look, AnswerSession, SessionsGoOn, ServerInv, ServerTypeOK, RemotesLive, LiveSessions
  <2> DEFINE answer == [kind |-> "session", of |-> e.of]
  <2>3. answer \in Answers /\ AnswerSuits(answer, work[w].what) /\ answer.of = e.of
    BY <1>1, <2>1, AnswerKinds DEF AnswerSuits, LiveSessions
  <2>4. work' = Answered(work, w, answer)
    BY <1>3 DEF AnswerSession
  <2>5. work' \in [Works -> WorkStates] /\ \A v \in Works : WorkGoesOn(v)
    <3> HIDE DEF answer
    <3> QED
      BY <1>1, <2>2, <2>3, <2>4, AnswerGoesOn
  <2> QED
    BY <2>2, <2>5, RestGoesOn, SessionsStay, OthersStay DEF Look, ServerGoesOn
<1>4. CASE GoTo(w, "snapshot") /\ UNCHANGED server
  <2>1. "snapshot" \in Stages /\ StageSuits("snapshot", work[w].what)
    BY <1>1 DEF Stages, StageSuits
  <2>2. work' \in [Works -> WorkStates] /\ \A v \in Works : WorkGoesOn(v)
    BY <1>1, <1>4, <2>1, StageGoesOn
  <2> QED
    BY <1>4, <2>2, ServerStays, RestGoesOn, SessionsStay, OthersStay DEF Look, ServerGoesOn
<1> QED
  BY <1>2, <1>3, <1>4 DEF Look

LEMMA FindCaretKeeps ==
  ASSUME ServerInv, NEW w \in Works, FindCaret(w)
  PROVE  ServerInv' /\ ServerGoesOn
<1> DEFINE c == work[w].what.on
<1>1. /\ work[w].stage = "snapshot" /\ work[w].stage \in Stages
      /\ work[w].what.call = "find" /\ c \in Carets
  BY WorkKind, CallFields DEF FindCaret, At, Stages, ServerInv, StagesSuit, StageSuits
<1>2. CASE Activate(work, w, c)
  <2> HIDE DEF c
  <2>1. /\ session' \in [Sessions -> SessionStates]
        /\ entry' \in [Carets -> Entries(Sessions)]
        /\ EntriesTell' /\ ServerGoesOn
    BY <1>1, <1>2, ActivateKeeps
  <2> QED
    BY <2>1, RestGoesOn, OthersStay DEF FindCaret
<1>3. CASE /\ work' = Answered(work, w, [kind |-> "null"])
           /\ UNCHANGED <<session, entry, server>>
  <2> DEFINE answer == [kind |-> "null"]
  <2>1. answer \in Answers /\ AnswerSuits(answer, work[w].what) /\ answer.kind # "session"
    BY AnswerKinds DEF AnswerSuits
  <2>2. work' \in [Works -> WorkStates] /\ \A v \in Works : WorkGoesOn(v)
    BY <1>1, <1>3, <2>1, AnswerGoesOn
  <2> QED
    BY <1>3, <2>2, ServerStays, RestGoesOn, SessionsStay, OthersStay DEF FindCaret, ServerGoesOn
<1> QED
  BY <1>2, <1>3 DEF FindCaret

LEMMA ReadCaretsKeeps ==
  ASSUME ServerInv, NEW w \in Works, ReadCarets(w)
  PROVE  ServerInv' /\ ServerGoesOn
<1>1. /\ work[w].stage = "read" /\ work[w].what.call = "make"
      /\ work[w] \in ActiveWorks /\ work[w] # NoWork
  BY WorkKind DEF ReadCarets, At, Stages, ServerInv, StagesSuit, StageSuits
<1> DEFINE x == [work[w] EXCEPT !.stage = "append"]
           y == [x EXCEPT !.moved = FALSE]
<1>2. "append" \in Stages /\ "read" \in Stages
  BY DEF Stages
<1>3. /\ x \in ActiveWorks /\ x.stage = "append" /\ x.conn = work[w].conn
      /\ x.fetch = work[w].fetch /\ x.what = work[w].what
  BY <1>1, <1>2, StageChanged
<1>4. /\ y \in ActiveWorks /\ y.stage = "append" /\ y.conn = work[w].conn
      /\ y.fetch = work[w].fetch /\ y.what = work[w].what
  <2> HIDE DEF x
  <2> QED
    BY <1>3, MovedChanged
<1>5. work \in [Works -> WorkStates]
  BY DEF ServerInv, ServerTypeOK, WorkStates, ActiveWorks, DoneWorks
<1>6. work' = [work EXCEPT ![w] = y]
  BY <1>5 DEF ReadCarets
<1>7. y \in WorkStates /\ y # NoWork
  BY <1>4 DEF WorkStates, NoWork
<1> HIDE DEF y
<1>8. /\ work' \in [Works -> WorkStates] /\ work'[w] = y
      /\ \A v \in Works \ {w} : work'[v] = work[v]
  BY <1>5, <1>6, <1>7
<1>9. WorkGoesOn(w)
  BY <1>1, <1>2, <1>4, <1>7, <1>8 DEF WorkGoesOn, StageSuits
<1>10. ServerGoesOn
  BY <1>8, <1>9, StaysAsItIs, ServerStays DEF ReadCarets, ServerGoesOn
<1> QED
  BY <1>10, RestGoesOn, SessionsStay, OthersStay DEF ReadCarets

LEMMA AppendCaretKeeps ==
  ASSUME ServerInv, NEW w \in Works, AppendCaret(w)
  PROVE  ServerInv' /\ ServerGoesOn
<1>1. /\ work[w].stage \in Stages /\ work[w].what.call = "make"
  BY WorkKind DEF AppendCaret, At, Stages, ServerInv, StagesSuit, StageSuits
<1>2. CASE GoTo(w, "read") /\ UNCHANGED <<caretState, session, entry, server>>
  <2>1. "read" \in Stages /\ StageSuits("read", work[w].what)
    BY <1>1 DEF Stages, StageSuits
  <2>2. ServerGoesOn
    BY <1>1, <1>2, <2>1, StageGoesOn, ServerStays DEF ServerGoesOn
  <2> QED
    BY <1>2, <2>2, RestGoesOn, SessionsStay, OthersStay DEF AppendCaret
<1>3. CASE work' = Answered(work, w, Error) /\ UNCHANGED <<caretState, session, entry, server>>
  <2>1. ServerGoesOn
    BY <1>1, <1>3, ErrorGoesOn, ServerStays DEF ServerGoesOn
  <2> QED
    BY <1>3, <2>1, RestGoesOn, SessionsStay, OthersStay DEF AppendCaret
<1>4. ASSUME NEW c \in Unused(caretState, Carets, "unused"),
             caretState' = [caretState EXCEPT ![c] = "present"],
             Activate(CaretsMoved(work), w, c)
      PROVE  ServerInv' /\ ServerGoesOn
  <2>1. c \in Carets
    BY UnusedMeans
  <2>2. /\ session' \in [Sessions -> SessionStates]
        /\ entry' \in [Carets -> Entries(Sessions)]
        /\ EntriesTell' /\ ServerGoesOn
    BY <1>1, <1>4, <2>1, ActivateKeeps
  <2>3. caretState' \in [Carets -> {"unused", "present", "gone"}]
    BY <1>4, <2>1 DEF ServerInv, ServerTypeOK
  <2> QED
    BY <2>2, <2>3, RestGoesOn, OthersStay DEF AppendCaret
<1> QED
  BY <1>2, <1>3, <1>4 DEF AppendCaret

LEMMA CollectKeeps ==
  ASSUME ServerInv, NEW s \in Sessions, Collect(s)
  PROVE  ServerInv' /\ ServerGoesOn
<1>1. session' \in [Sessions -> SessionStates]
  BY DEF Collect, ServerInv, ServerTypeOK, SessionStates, LiveSessions, NoSession
<1>2. LiveSessions' = LiveSessions \ {s}
  BY DEF Collect, ServerInv, ServerTypeOK, LiveSessions, NoSession
<1>3. \A t \in LiveSessions \ {s} : session'[t] = session[t]
  BY DEF Collect, ServerInv, ServerTypeOK, LiveSessions
<1>4. EntriesTell'
  BY <1>2, <1>3 DEF Collect, ServerInv, EntriesTell
<1>5. SessionsGoOn
  BY <1>2 DEF Collect, ServerInv, ServerTypeOK, SessionsGoOn
<1>6. ServerGoesOn
  BY <1>5, StaysAsItIs DEF Collect, ServerGoesOn, ServerInv, ServerTypeOK, WorkStates, ActiveWorks, DoneWorks
<1> QED
  BY <1>1, <1>4, <1>6, RestGoesOn, OthersStay DEF Collect, ServerInv, ServerTypeOK

LEMMA ReapKeeps ==
  ASSUME ServerInv, NEW s \in Sessions, Reap(s)
  PROVE  ServerInv' /\ ServerGoesOn
<1> DEFINE c == session[s].caret
<1>1. c \in Carets /\ s \notin LiveSessions
  BY SessionFields DEF Reap, ServerInv, LiveSessions
<1>2. session' \in [Sessions -> SessionStates]
  BY DEF Reap, ServerInv, ServerTypeOK, SessionStates
<1>3. LiveSessions' = LiveSessions
  BY <1>1 DEF Reap, ServerInv, ServerTypeOK, LiveSessions, NoSession
<1>4. \A t \in LiveSessions : session'[t] = session[t]
  BY <1>1 DEF Reap, ServerInv, ServerTypeOK, LiveSessions
<1>5. entry' = [entry EXCEPT ![c] = AfterReaping(@, LiveSessions)]
  BY DEF Reap
<1>6. entry' \in [Carets -> Entries(Sessions)]
  BY <1>1, <1>5, AliveMeans DEF ServerInv, ServerTypeOK
<1>7. \A t \in LiveSessions : entry'[session[t].caret] = Weak(t)
  <2> TAKE t \in LiveSessions
  <2>1. session[t].caret \in Carets /\ entry[session[t].caret] = Weak(t)
    BY SessionFields DEF ServerInv, EntriesTell, LiveSessions
  <2>2. CASE session[t].caret = c
    BY <1>1, <1>5, <2>1, <2>2, AliveMeans DEF AfterReaping, ServerInv, ServerTypeOK
  <2>3. CASE session[t].caret # c
    BY <1>1, <1>5, <2>1, <2>3 DEF ServerInv, ServerTypeOK
  <2> QED
    BY <2>2, <2>3
<1>8. EntriesTell'
  BY <1>3, <1>4, <1>7 DEF EntriesTell
<1>9. SessionsGoOn
  BY <1>3 DEF Reap, ServerInv, ServerTypeOK, SessionsGoOn
<1>10. ServerGoesOn
  BY <1>9, StaysAsItIs DEF Reap, ServerGoesOn, ServerInv, ServerTypeOK, WorkStates, ActiveWorks, DoneWorks
<1> QED
  BY <1>2, <1>6, <1>8, <1>10, RestGoesOn, OthersStay DEF Reap

LEMMA RemoveIdleCaretKeeps ==
  ASSUME ServerInv, NEW c \in Carets, RemoveIdleCaret(c)
  PROVE  ServerInv' /\ ServerGoesOn
<1>1. \A v \in Works : work'[v] = CaretsMoved(work)[v]
  BY DEF RemoveIdleCaret
<1>2. work' \in [Works -> WorkStates]
  BY MarkedStays DEF RemoveIdleCaret, CaretsMoved
<1>3. ServerGoesOn
  BY <1>1, <1>2, MarkedGoesOn, ServerStays DEF RemoveIdleCaret, ServerGoesOn
<1>4. caretState' \in [Carets -> {"unused", "present", "gone"}]
  BY DEF RemoveIdleCaret, ServerInv, ServerTypeOK
<1> QED
  BY <1>3, <1>4, RestGoesOn, SessionsStay, OthersStay DEF RemoveIdleCaret

LEMMA ChangePermissionKeeps ==
  ASSUME ServerInv, ChangePermission
  PROVE  ServerInv' /\ ServerGoesOn
<1>1. ServerGoesOn
  BY StaysAsItIs, ServerStays
  DEF ChangePermission, ServerGoesOn, ServerInv, ServerTypeOK, WorkStates, ActiveWorks, DoneWorks
<1>2. mayEdit' \in BOOLEAN
  BY DEF ChangePermission, ServerInv, ServerTypeOK
<1> QED
  BY <1>1, <1>2, RestGoesOn, SessionsStay, OthersStay DEF ChangePermission

-----------------------------------------------------------------------------
(* The client's states                                                     *)

Going == [state : UnderWay, conn : Conns, what : Calls]
Settled == [state : {"resolved"}, conn : Conns, proxy : Sessions]
FetchStates == {NoFetch} \cup Going \cup Settled \cup [state : {"rejected"}]

Opening == [pc : {"opening"}, conn : Conns]
Checking == [pc : {"checking"}, conn : Conns, on : Fetches]
Fetching == [pc : {"fetching"}, on : Fetches]
Having == [pc : {"has"}, conn : Conns, proxy : Sessions]
CallerStates == {Idle} \cup Opening \cup Checking \cup Fetching \cup Having

ApiStates == [ws : {"none", "connecting", "open", "closed"}, told : BOOLEAN]

LEMMA ClientTypes ==
  TypeOK <=>
    /\ ServerTypeOK
    /\ api \in [Conns -> ApiStates]
    /\ current \in 0 .. MaxConns
    /\ promise \in Fetches \cup {None}
    /\ info \in Carets \cup {NoCaret}
    /\ fetch \in [Fetches -> FetchStates]
    /\ caller \in [Callers -> CallerStates]
<1>1. [state : {"queued", "sent", "served"}, conn : Conns, what : Calls] = Going
  BY DEF Going, UnderWay
<1>2. {NoFetch} \cup Going \cup Settled \cup [state : {"rejected"}] = FetchStates
  BY DEF FetchStates
<1> HIDE DEF Going, FetchStates
<1> QED
  BY <1>1, <1>2
  DEF TypeOK, Settled, Opening, Checking, Fetching, Having, CallerStates, ApiStates

LEMMA FetchFields ==
  ASSUME NEW x \in FetchStates
  PROVE  /\ x.state \in {"none", "queued", "sent", "served", "resolved", "rejected"}
         /\ x = NoFetch <=> x.state = "none"
         /\ x.state \in UnderWay => x \in Going /\ x.conn \in Conns /\ x.what \in Calls
         /\ x.state = "resolved" => x.conn \in Conns /\ x.proxy \in Sessions
BY DEF FetchStates, Going, Settled, NoFetch, UnderWay

LEMMA CallerFields ==
  ASSUME NEW x \in CallerStates
  PROVE  /\ x.pc \in {"idle", "opening", "checking", "fetching", "has"}
         /\ x.pc = "opening" => x.conn \in Conns /\ x = [pc |-> "opening", conn |-> x.conn]
         /\ x.pc = "checking" => x.conn \in Conns /\ x.on \in Fetches
         /\ x.pc = "fetching" => x.on \in Fetches
         /\ x.pc = "has" => x.conn \in Conns /\ x.proxy \in Sessions
BY DEF CallerStates, Opening, Checking, Fetching, Having, Idle

LEMMA CallerKinds ==
  ASSUME NEW n \in Conns, NEW f \in Fetches, NEW s \in Sessions
  PROVE  /\ Idle \in CallerStates /\ Idle.pc = "idle"
         /\ [pc |-> "opening", conn |-> n] \in CallerStates
         /\ [pc |-> "checking", conn |-> n, on |-> f] \in CallerStates
         /\ [pc |-> "fetching", on |-> f] \in CallerStates
         /\ [pc |-> "has", conn |-> n, proxy |-> s] \in CallerStates
BY DEF CallerStates, Opening, Checking, Fetching, Having, Idle

LEMMA FetchKinds ==
  /\ NoFetch \in FetchStates /\ NoFetch.state = "none"
  /\ FailedFetch \in FetchStates /\ FailedFetch.state = "rejected"
  /\ \A n \in Conns, s \in Sessions :
       [state |-> "resolved", conn |-> n, proxy |-> s] \in FetchStates
  /\ \A n \in Conns, what \in Calls, state \in UnderWay :
       [state |-> state, conn |-> n, what |-> what] \in FetchStates
BY DEF FetchStates, Going, Settled, NoFetch, FailedFetch, UnderWay

LEMMA SentMeans ==
  ASSUME NEW n \in Conns, NEW what \in Calls, api[n].ws # "none",
         api \in [Conns -> ApiStates], NEW x, x = Sent(n, what)
  PROVE  /\ x \in FetchStates
         /\ x.state \in {"rejected", "queued", "sent"}
         /\ x.state \in UnderWay => x.conn = n /\ x.what = what
         /\ x.state = "queued" => api[n].ws = "connecting"
         /\ x.state = "sent" => api[n].ws = "open"
<1>1. CASE SendState(n) = "rejected"
  BY <1>1, FetchKinds DEF Sent, UnderWay
<1>2. CASE SendState(n) \in {"queued", "sent"}
  <2>1. x = [state |-> SendState(n), conn |-> n, what |-> what]
    BY <1>2 DEF Sent
  <2>2. x \in FetchStates /\ x.state = SendState(n) /\ x.conn = n /\ x.what = what
    <3>1. SendState(n) \in UnderWay
      BY <1>2 DEF UnderWay
    <3>2. x \in FetchStates
      BY <2>1, <3>1, FetchKinds
    <3> QED
      BY <2>1, <3>2
  <2>3. SendState(n) = "queued" => api[n].ws = "connecting"
    BY DEF SendState
  <2>4. SendState(n) = "sent" => api[n].ws = "open"
    BY DEF SendState, ApiStates
  <2> QED
    BY <1>2, <2>2, <2>3, <2>4
<1> QED
  BY <1>1, <1>2 DEF SendState

LEMMA FirstCallMeans ==
  ASSUME NEW c \in Carets \cup {NoCaret}
  PROVE  FirstCall(c) \in Calls /\ FirstCall(c).call # "getCaret"
BY DEF FirstCall, Calls

LEMMA FirstCallMakes == FirstCall(NoCaret) \in Calls /\ FirstCall(NoCaret).call # "getCaret"
BY FirstCallMeans

LEMMA TidyMeans ==
  ASSUME NEW fetches, NEW stored, NEW callers, NEW f \in Fetches
  PROVE  /\ Tidy(fetches, stored, callers)[f] \in {fetches[f], NoFetch}
         /\ f = stored => Tidy(fetches, stored, callers)[f] = fetches[f]
         /\ \A k \in Callers :
              callers[k].pc \in {"checking", "fetching"} /\ callers[k].on = f =>
                Tidy(fetches, stored, callers)[f] = fetches[f]
BY DEF Tidy

-----------------------------------------------------------------------------
(* The server goes on while the client waits                               *)

LEMMA InitIsGood == Init => IInv
<1> SUFFICES ASSUME Init PROVE IInv
  OBVIOUS
<1>1. ServerTypeOK
  BY SessionServerAssumption DEF Init, ServerInit, ServerTypeOK, NoServer, Entries
<1>2. TypeOK
  BY <1>1, SessionServerAssumption DEF Init, TypeOK
<1>3. ServerInv
  BY <1>1
  DEF Init, ServerInit, ServerInv, StagesSuit, EntriesTell, RemotesLive, WorksStay,
      LiveSessions, NoSession, NoServer, NoWork, Stages
<1>4. ClientInv
  BY SessionServerAssumption
  DEF Init, ServerInit, ClientInv, ConnectionsMatch, WorksAwaited, IsAwaited, FetchesMatch,
      FetchesCared, UnderWay, ConnectionsBegun, SessionsKept, NoServer, NoWork, NoFetch, Idle, Conns
<1> QED
  BY <1>2, <1>3, <1>4 DEF IInv

\* While the client stands still, what it relies on stays.
LEMMA ServerGoesOnKeeps ==
  ASSUME IInv, ServerInv', ServerGoesOn, UNCHANGED clientVars
  PROVE  IInv'
<1> USE DEF clientVars
<1>1. TypeOK'
  BY DEF IInv, TypeOK, ServerInv
<1>2. \A n \in Conns : server'[n].state = server[n].state /\ server[n].remotes \subseteq server'[n].remotes
  BY DEF ServerGoesOn, SessionsGoOn
<1>3. ConnectionsMatch'
  BY <1>2 DEF IInv, ClientInv, ConnectionsMatch
<1>4. \A w \in Works : WorkGoesOn(w) /\ work[w] \in WorkStates
  BY WorkKind DEF ServerGoesOn, IInv
<1>5. \A w \in Works : IsAwaited(w)' => IsAwaited(w)
  BY <1>4 DEF IsAwaited, WorkGoesOn
<1>6. ASSUME NEW w \in Works, IsAwaited(w)'
      PROVE  Awaited(w)'
  <2>1. Awaited(w) /\ work[w] # NoWork
    BY <1>5, <1>6 DEF IInv, ClientInv, WorksAwaited, IsAwaited
  <2>2. work'[w].conn = work[w].conn /\ work'[w].fetch = work[w].fetch
    BY <1>4, <2>1 DEF WorkGoesOn
  <2>3. work'[w].stage \in Stages => work'[w].what = fetch[work[w].fetch].what
    BY <1>4, <2>1 DEF WorkGoesOn, Awaited
  <2>4. work'[w].stage = "reply" => AnswerSuits(work'[w].answer, fetch[work[w].fetch].what)
    BY <1>4, <2>1 DEF WorkGoesOn, Awaited
  <2> QED
    BY <2>1, <2>2, <2>3, <2>4 DEF Awaited
<1>7. WorksAwaited'
  <2>1. \A v, w \in Works : IsAwaited(v)' /\ IsAwaited(w)' /\ work'[v].fetch = work'[w].fetch => v = w
    BY <1>4, <1>5 DEF IInv, ClientInv, WorksAwaited, WorkGoesOn, IsAwaited
  <2> QED
    BY <1>6, <2>1 DEF WorksAwaited
<1>8. FetchesMatch'
  BY <1>4 DEF IInv, ClientInv, FetchesMatch, WorkGoesOn
<1>9. FetchesCared' /\ ConnectionsBegun'
  BY DEF IInv, ClientInv, FetchesCared, ConnectionsBegun
<1>10. ASSUME NEW n \in Conns, NEW s, Keeps(n, s)
       PROVE  Keeps(n, s)'
  BY <1>2, <1>10 DEF Keeps, AtServer
<1>11. SessionsKept'
  <2>1. \A f \in Fetches :
          /\ fetch[f].state \in UnderWay => fetch[f].conn \in Conns
          /\ fetch[f].state = "resolved" => fetch[f].conn \in Conns
    BY ClientTypes, FetchFields DEF IInv
  <2>2. \A k \in Callers : caller[k].pc = "has" => caller[k].conn \in Conns
    BY ClientTypes, CallerFields DEF IInv
  <2> QED
    BY <1>10, <2>1, <2>2 DEF IInv, ClientInv, SessionsKept
<1> QED
  BY <1>1, <1>3, <1>7, <1>8, <1>9, <1>11 DEF IInv, ClientInv

-----------------------------------------------------------------------------
(* The parts of the editor                                                 *)

\* A first call that has just been sent.
Fresh(x) ==
  /\ x.state \in {"queued", "sent"} /\ x.what.call # "getCaret"
  /\ x.state = "queued" => api[x.conn].ws = "connecting"
  /\ x.state = "sent" => api[x.conn].ws = "open"

LEMMA CallersGoOn ==
  ASSUME IInv, UNCHANGED <<serverVars, api, current, info>>,
         fetch' \in [Fetches -> FetchStates],
         caller' \in [Callers -> CallerStates],
         promise' \in Fetches \cup {None},
         \A f \in Fetches :
           /\ fetch[f].state \in UnderWay => fetch'[f] = fetch[f]
           /\ \/ fetch'[f] = fetch[f]
              \/ fetch'[f].state \in {"none", "rejected"}
              \/ Fresh(fetch'[f]),
         FetchesCared',
         \A k \in Callers :
           /\ caller'[k].pc = "has" => Keeps(caller'[k].conn, caller'[k].proxy)
           /\ caller'[k].pc \in {"opening", "checking"} => api[caller'[k].conn].ws # "none"
  PROVE  IInv'
<1> USE DEF serverVars
<1>1. TypeOK'
  <2>1. ServerTypeOK'
    BY DEF IInv, ServerInv, ServerTypeOK
  <2>2. /\ api' \in [Conns -> ApiStates] /\ current' \in 0 .. MaxConns
        /\ info' \in Carets \cup {NoCaret}
    BY ClientTypes DEF IInv
  <2> QED
    BY <2>1, <2>2
    DEF TypeOK, FetchStates, Going, UnderWay, Settled, CallerStates, Opening, Checking,
        Fetching, Having, ApiStates
<1>2. ServerInv'
  BY DEF IInv, ServerInv, ServerTypeOK, StagesSuit, EntriesTell, RemotesLive, WorksStay,
         LiveSessions, AtServer
<1>3. ConnectionsMatch'
  BY DEF IInv, ClientInv, ConnectionsMatch
<1>4. WorksAwaited'
  <2>1. \A w \in Works : work[w] # NoWork => work[w].fetch \in Fetches
    BY WorkKind, WorkFields DEF IInv
  <2>2. ASSUME NEW w \in Works, IsAwaited(w)'
        PROVE  Awaited(w)'
    <3>1. work[w].fetch \in Fetches /\ Awaited(w)
      BY <2>1, <2>2 DEF IsAwaited, IInv, ClientInv, WorksAwaited
    <3>2. fetch'[work[w].fetch] = fetch[work[w].fetch]
      BY <3>1 DEF Awaited, UnderWay
    <3> QED
      BY <3>1, <3>2 DEF Awaited
  <2> QED
    BY <2>2 DEF IInv, ClientInv, WorksAwaited, IsAwaited
<1>5. FetchesMatch'
  BY DEF IInv, ClientInv, FetchesMatch, Fresh
<1>6. ConnectionsBegun'
  BY DEF IInv, ClientInv, ConnectionsBegun
<1>7. SessionsKept'
  <2>1. \A n, s : Keeps(n, s)' <=> Keeps(n, s)
    BY DEF Keeps, AtServer
  <2> QED
    BY <2>1 DEF IInv, ClientInv, SessionsKept, Fresh, UnderWay
<1> QED
  BY <1>1, <1>2, <1>3, <1>4, <1>5, <1>6, <1>7 DEF IInv, ClientInv

\* Whoever begins an attempt waits for none that is under way.
LEMMA StartFetchKeeps ==
  ASSUME IInv, NEW k \in Callers, NEW n \in Conns, api[n].ws # "none",
         caller[k].pc \in {"checking", "fetching"} => fetch[caller[k].on].state \notin UnderWay,
         StartFetch(k, n), UNCHANGED <<serverVars, api, current, info>>
  PROVE  IInv'
<1>1. PICK f \in Unused(fetch, Fetches, NoFetch) :
        /\ promise' = f
        /\ caller' = [caller EXCEPT ![k] = [pc |-> "fetching", on |-> f]]
        /\ fetch' = Tidy([fetch EXCEPT ![f] = Sent(n, FirstCall(info))], f, caller')
  BY DEF StartFetch
<1>2. f \in Fetches /\ fetch[f] = NoFetch /\ fetch[f].state = "none"
  BY UnusedMeans, FetchKinds
<1> DEFINE x == Sent(n, FirstCall(info))
           fetches == [fetch EXCEPT ![f] = x]
<1>3. /\ fetch \in [Fetches -> FetchStates] /\ caller \in [Callers -> CallerStates]
      /\ info \in Carets \cup {NoCaret} /\ api \in [Conns -> ApiStates]
  BY ClientTypes DEF IInv
<1>4. /\ x \in FetchStates /\ x.state \in {"rejected", "queued", "sent"}
      /\ x.state = "rejected" \/ Fresh(x)
  <2>1. FirstCall(info) \in Calls /\ FirstCall(info).call # "getCaret"
    BY <1>3, FirstCallMeans
  <2> QED
    BY <1>3, <2>1, SentMeans DEF Fresh, UnderWay
<1> HIDE DEF x
<1>5. fetches \in [Fetches -> FetchStates] /\ fetches[f] = x /\ \A g \in Fetches \ {f} : fetches[g] = fetch[g]
  BY <1>2, <1>3, <1>4
<1> HIDE DEF fetches
<1>6. /\ caller' \in [Callers -> CallerStates]
      /\ caller'[k] = [pc |-> "fetching", on |-> f]
      /\ \A j \in Callers \ {k} : caller'[j] = caller[j]
  BY <1>1, <1>2, <1>3 DEF CallerStates, Fetching
<1>7. /\ fetch' = Tidy(fetches, f, caller')
      /\ \A g \in Fetches : fetch'[g] \in {fetches[g], NoFetch}
  BY <1>1, TidyMeans DEF fetches, x
<1>8. fetch'[f] = x
  BY <1>2, <1>5, <1>7, TidyMeans
<1>9. ASSUME NEW g \in Fetches, fetch[g].state \in UnderWay
      PROVE  /\ fetch'[g] = fetch[g]
             /\ \E j \in Callers : caller'[j].pc \in {"checking", "fetching"} /\ caller'[j].on = g
  <2>1. g # f
    BY <1>2, <1>9 DEF UnderWay
  <2>2. PICK j \in Callers : caller[j].pc \in {"checking", "fetching"} /\ caller[j].on = g
    BY <1>9 DEF IInv, ClientInv, FetchesCared
  <2>3. j # k
    BY <1>9, <2>2
  <2>4. caller'[j].pc \in {"checking", "fetching"} /\ caller'[j].on = g
    BY <1>6, <2>2, <2>3
  <2>5. fetch'[g] = fetches[g]
    BY <1>7, <2>4, TidyMeans
  <2> QED
    BY <1>5, <2>1, <2>4, <2>5
<1>10. fetch' \in [Fetches -> FetchStates]
  <2>1. \A g \in Fetches : fetch'[g] \in FetchStates
    BY <1>5, <1>7, FetchKinds
  <2> QED
    BY <1>1, <2>1 DEF Tidy
<1>11. FetchesCared'
  <2> SUFFICES ASSUME NEW g \in Fetches, fetch'[g].state \in UnderWay
               PROVE  \E j \in Callers : caller'[j].pc \in {"checking", "fetching"} /\ caller'[j].on = g
    BY DEF FetchesCared
  <2>1. CASE g = f
    BY <1>6, <2>1
  <2>2. CASE g # f
    <3>1. fetch[g].state \in UnderWay
      BY <1>5, <1>7, <2>2, FetchKinds DEF UnderWay
    <3> QED
      BY <1>9, <3>1
  <2> QED
    BY <2>1, <2>2
<1>12. \A g \in Fetches :
         /\ fetch[g].state \in UnderWay => fetch'[g] = fetch[g]
         /\ \/ fetch'[g] = fetch[g]
            \/ fetch'[g].state \in {"none", "rejected"}
            \/ Fresh(fetch'[g])
  BY <1>4, <1>5, <1>7, <1>8, <1>9, FetchKinds
<1>13. \A j \in Callers :
         /\ caller'[j].pc = "has" => Keeps(caller'[j].conn, caller'[j].proxy)
         /\ caller'[j].pc \in {"opening", "checking"} => api[caller'[j].conn].ws # "none"
  BY <1>6 DEF IInv, ClientInv, SessionsKept, ConnectionsBegun
<1> QED
  BY <1>1, <1>2, <1>6, <1>10, <1>11, <1>12, <1>13, CallersGoOn

LEMMA WithApiKeeps ==
  ASSUME IInv, NEW k \in Callers, NEW n \in Conns, api[n].ws # "none",
         caller[k].pc \notin {"checking", "fetching"},
         WithApi(k, n), UNCHANGED <<serverVars, api, current, info>>
  PROVE  IInv'
<1>1. CASE StartFetch(k, n)
  BY <1>1, StartFetchKeeps
<1>2. CASE /\ promise # None
           /\ caller' = [caller EXCEPT ![k] = [pc |-> "checking", conn |-> n, on |-> promise]]
           /\ UNCHANGED <<fetch, promise>>
  <2>1. /\ fetch \in [Fetches -> FetchStates] /\ caller \in [Callers -> CallerStates]
        /\ promise \in Fetches
    BY <1>2, ClientTypes DEF IInv
  <2>2. /\ caller' \in [Callers -> CallerStates]
        /\ caller'[k] = [pc |-> "checking", conn |-> n, on |-> promise]
        /\ \A j \in Callers \ {k} : caller'[j] = caller[j]
    BY <1>2, <2>1 DEF CallerStates, Checking
  <2>3. FetchesCared'
    BY <1>2, <2>2 DEF IInv, ClientInv, FetchesCared
  <2>4. \A j \in Callers :
         /\ caller'[j].pc = "has" => Keeps(caller'[j].conn, caller'[j].proxy)
         /\ caller'[j].pc \in {"opening", "checking"} => api[caller'[j].conn].ws # "none"
    BY <2>2 DEF IInv, ClientInv, SessionsKept, ConnectionsBegun
  <2> QED
    BY <1>2, <2>1, <2>2, <2>3, <2>4, CallersGoOn
<1> QED
  BY <1>1, <1>2 DEF WithApi

\* A part whose attempt is settled turns to something else.
LEMMA SettleKeeps ==
  ASSUME IInv, NEW k \in Callers, caller[k].pc \in {"checking", "fetching"},
         fetch[caller[k].on].state \notin UnderWay,
         NEW x \in CallerStates, x.pc \in {"idle", "has"},
         x.pc = "has" => Keeps(x.conn, x.proxy),
         caller' = [caller EXCEPT ![k] = x],
         fetch' = fetch \/ fetch' = Tidy(fetch, promise, caller'),
         UNCHANGED <<serverVars, api, current, promise, info>>
  PROVE  IInv'
<1>1. /\ fetch \in [Fetches -> FetchStates] /\ caller \in [Callers -> CallerStates]
      /\ promise \in Fetches \cup {None}
  BY ClientTypes DEF IInv
<1>2. /\ caller' \in [Callers -> CallerStates] /\ caller'[k] = x
      /\ \A j \in Callers \ {k} : caller'[j] = caller[j]
  BY <1>1
<1>3. \A g \in Fetches : fetch'[g] \in {fetch[g], NoFetch}
  BY TidyMeans
<1>4. fetch' \in [Fetches -> FetchStates]
  <2>1. \A g \in Fetches : fetch'[g] \in FetchStates
    BY <1>1, <1>3, FetchKinds
  <2> QED
    BY <1>1, <2>1 DEF Tidy
<1>5. ASSUME NEW g \in Fetches, fetch[g].state \in UnderWay
      PROVE  /\ fetch'[g] = fetch[g]
             /\ \E j \in Callers : caller'[j].pc \in {"checking", "fetching"} /\ caller'[j].on = g
  <2>1. PICK j \in Callers : caller[j].pc \in {"checking", "fetching"} /\ caller[j].on = g
    BY <1>5 DEF IInv, ClientInv, FetchesCared
  <2>2. caller'[j].pc \in {"checking", "fetching"} /\ caller'[j].on = g
    BY <1>2, <1>5, <2>1
  <2>3. CASE fetch' = Tidy(fetch, promise, caller')
    BY <2>2, <2>3 DEF Tidy
  <2>4. CASE fetch' = fetch
    BY <2>2, <2>4
  <2> QED
    BY <2>3, <2>4
<1>6. FetchesCared'
  <2>1. \A g \in Fetches : fetch'[g].state \in UnderWay => fetch[g].state \in UnderWay
    BY <1>3, FetchKinds DEF UnderWay
  <2> QED
    BY <1>5, <2>1 DEF FetchesCared
<1>7. \A g \in Fetches :
        /\ fetch[g].state \in UnderWay => fetch'[g] = fetch[g]
        /\ fetch'[g] = fetch[g] \/ fetch'[g].state \in {"none", "rejected"}
  BY <1>3, <1>5, FetchKinds
<1>8. \A j \in Callers :
        /\ caller'[j].pc = "has" => Keeps(caller'[j].conn, caller'[j].proxy)
        /\ caller'[j].pc \in {"opening", "checking"} => api[caller'[j].conn].ws # "none"
  BY <1>2 DEF IInv, ClientInv, SessionsKept, ConnectionsBegun
<1> QED
  BY <1>1, <1>2, <1>4, <1>6, <1>7, <1>8, CallersGoOn

\* The current connection has begun.
LEMMA CurrentMeans ==
  ASSUME IInv
  PROVE  /\ current \in 0 .. MaxConns
         /\ current # 0 => current \in Conns /\ api[current].ws # "none"
<1>1. current \in 0 .. MaxConns
  BY ClientTypes DEF IInv
<1> QED
  BY <1>1, SessionServerAssumption DEF IInv, ClientInv, ConnectionsBegun, Conns

LEMMA NewConnectionKeeps ==
  ASSUME IInv, NEW k \in Callers, caller[k].pc \in {"idle", "has"},
         current < MaxConns, current' = current + 1,
         api' = [api EXCEPT ![current'].ws = "connecting"],
         caller' = [caller EXCEPT ![k] = [pc |-> "opening", conn |-> current']],
         UNCHANGED <<serverVars, fetch, promise, info>>
  PROVE  IInv'
<1> DEFINE n == current + 1
<1> USE DEF serverVars
<1>1. n \in Conns /\ current \in 0 .. MaxConns /\ current' = n /\ n \in 0 .. MaxConns
  BY CurrentMeans, SessionServerAssumption DEF Conns
<1>2. /\ api \in [Conns -> ApiStates] /\ caller \in [Callers -> CallerStates]
      /\ fetch \in [Fetches -> FetchStates]
  BY ClientTypes DEF IInv
<1>3. api[n].ws = "none"
  <2>1. ~ (n <= current)
    BY <1>1
  <2> QED
    BY <1>1, <2>1 DEF IInv, ClientInv, ConnectionsBegun
<1>4. /\ api' \in [Conns -> ApiStates] /\ api'[n].ws = "connecting"
      /\ \A m \in Conns \ {n} : api'[m] = api[m]
  BY <1>1, <1>2 DEF ApiStates
<1>5. /\ caller' \in [Callers -> CallerStates]
      /\ caller'[k] = [pc |-> "opening", conn |-> n]
      /\ \A j \in Callers \ {k} : caller'[j] = caller[j]
  BY <1>1, <1>2 DEF CallerStates, Opening
<1> HIDE DEF n
<1>6. TypeOK'
  <2>1. ServerTypeOK'
    BY DEF IInv, ServerInv, ServerTypeOK
  <2>2. info' \in Carets \cup {NoCaret} /\ promise' \in Fetches \cup {None}
    BY ClientTypes DEF IInv
  <2> QED
    BY <1>1, <1>2, <1>4, <1>5, <2>1, <2>2
    DEF TypeOK, FetchStates, Going, UnderWay, Settled, CallerStates, Opening, Checking,
        Fetching, Having, ApiStates
<1>7. ServerInv'
  BY DEF IInv, ServerInv, ServerTypeOK, StagesSuit, EntriesTell, RemotesLive, WorksStay,
         LiveSessions, AtServer
<1>8. ConnectionsMatch'
  BY <1>1, <1>3, <1>4 DEF IInv, ClientInv, ConnectionsMatch
<1>9. WorksAwaited'
  <2>1. \A w \in Works : IsAwaited(w)' => IsAwaited(w)
    <3>1. \A w \in Works : work[w] # NoWork => work[w].conn \in Conns
      BY WorkKind, WorkFields DEF IInv
    <3> QED
      BY <1>3, <1>4, <3>1 DEF IsAwaited
  <2>2. \A w : Awaited(w)' <=> Awaited(w)
    BY DEF Awaited
  <2> QED
    BY <2>1, <2>2 DEF IInv, ClientInv, WorksAwaited
<1>10. FetchesMatch'
  <2>1. \A f \in Fetches : fetch[f].state \in UnderWay => fetch[f].conn \in Conns
    BY <1>2, FetchFields
  <2> QED
    BY <1>3, <1>4, <2>1 DEF IInv, ClientInv, FetchesMatch, UnderWay
<1>11. FetchesCared'
  BY <1>5 DEF IInv, ClientInv, FetchesCared
<1>12. ConnectionsBegun'
  <2>1. \A m \in Conns : api'[m].ws # "none" <=> m <= n
    <3> TAKE m \in Conns
    <3>1. CASE m = n
      BY <1>1, <1>4, <3>1
    <3>2. CASE m # n
      <4>1. m <= n <=> m <= current
        BY <1>1, <3>2 DEF Conns, n
      <4> QED
        BY <1>4, <3>2, <4>1 DEF IInv, ClientInv, ConnectionsBegun
    <3> QED
      BY <3>1, <3>2
  <2>2. \A j \in Callers : caller'[j].pc \in {"opening", "checking"} => api'[caller'[j].conn].ws # "none"
    <3>1. \A j \in Callers : caller[j].pc \in {"opening", "checking"} => caller[j].conn \in Conns
      BY <1>2, CallerFields
    <3> QED
      BY <1>1, <1>3, <1>4, <1>5, <3>1 DEF IInv, ClientInv, ConnectionsBegun
  <2> QED
    BY <1>1, <2>1, <2>2 DEF ConnectionsBegun
<1>13. SessionsKept'
  <2>1. \A m, s : Keeps(m, s)' <=> Keeps(m, s)
    BY DEF Keeps, AtServer
  <2> QED
    BY <1>5, <2>1 DEF IInv, ClientInv, SessionsKept
<1> QED
  BY <1>6, <1>7, <1>8, <1>9, <1>10, <1>11, <1>12, <1>13 DEF IInv, ClientInv

LEMMA getSessionProxyKeeps ==
  ASSUME IInv, NEW k \in Callers, getSessionProxy(k)
  PROVE  IInv'
<1>1. caller[k].pc \in {"idle", "has"}
  BY DEF getSessionProxy
<1>2. CASE IsOpen(current) /\ WithApi(k, current) /\ UNCHANGED <<api, current>>
  BY <1>1, <1>2, CurrentMeans, WithApiKeeps DEF getSessionProxy, IsOpen
<1>3. CASE /\ ~ IsOpen(current)
           /\ current < MaxConns
           /\ current' = current + 1
           /\ api' = [api EXCEPT ![current'].ws = "connecting"]
           /\ caller' = [caller EXCEPT ![k] = [pc |-> "opening", conn |-> current']]
           /\ UNCHANGED <<fetch, promise>>
  BY <1>1, <1>3, NewConnectionKeeps DEF getSessionProxy
<1> QED
  BY <1>2, <1>3 DEF getSessionProxy

LEMMA OpenedKeeps ==
  ASSUME IInv, NEW k \in Callers, Opened(k)
  PROVE  IInv'
<1>1. caller[k].pc = "opening" /\ caller \in [Callers -> CallerStates]
  BY ClientTypes DEF Opened, IInv
<1>2. CASE WithApi(k, current)
  <2>1. caller[k].conn \in Conns /\ api[caller[k].conn].ws # "none"
    BY <1>1, CallerFields DEF Opened
  <2>2. current # 0
    BY <2>1, CurrentMeans, SessionServerAssumption DEF IInv, ClientInv, ConnectionsBegun, Conns
  <2> QED
    BY <1>1, <1>2, <2>2, CurrentMeans, WithApiKeeps DEF Opened
<1>3. CASE caller' = [caller EXCEPT ![k] = Idle] /\ UNCHANGED <<fetch, promise>>
  <2>1. /\ caller' \in [Callers -> CallerStates] /\ caller'[k] = Idle /\ Idle.pc = "idle"
        /\ \A j \in Callers \ {k} : caller'[j] = caller[j]
    BY <1>1, <1>3 DEF CallerStates, Idle
  <2>2. FetchesCared'
    BY <1>1, <1>3, <2>1 DEF IInv, ClientInv, FetchesCared
  <2>3. \A j \in Callers :
          /\ caller'[j].pc = "has" => Keeps(caller'[j].conn, caller'[j].proxy)
          /\ caller'[j].pc \in {"opening", "checking"} => api[caller'[j].conn].ws # "none"
    BY <2>1 DEF IInv, ClientInv, SessionsKept, ConnectionsBegun
  <2>4. /\ fetch' \in [Fetches -> FetchStates] /\ promise' \in Fetches \cup {None}
        /\ fetch' = fetch
    BY <1>3, ClientTypes DEF IInv
  <2> QED
    BY <1>3, <2>1, <2>2, <2>3, <2>4, CallersGoOn DEF Opened
<1> QED
  BY <1>2, <1>3 DEF Opened

LEMMA CheckKeeps ==
  ASSUME IInv, NEW k \in Callers, Check(k)
  PROVE  IInv'
<1> DEFINE f == caller[k].on
           n == caller[k].conn
<1>1. /\ caller[k].pc = "checking" /\ f \in Fetches /\ n \in Conns /\ api[n].ws # "none"
      /\ fetch[f] \in FetchStates
  BY ClientTypes, CallerFields DEF Check, IInv, ClientInv, ConnectionsBegun
<1>2. CASE /\ Handles(n, f)
           /\ caller' = [caller EXCEPT ![k] = [pc |-> "has", conn |-> n, proxy |-> fetch[f].proxy]]
           /\ fetch' = Tidy(fetch, promise, caller')
           /\ UNCHANGED promise
  <2> DEFINE x == [pc |-> "has", conn |-> n, proxy |-> fetch[f].proxy]
  <2>1. fetch[f].state = "resolved" /\ fetch[f].conn = n /\ fetch[f].proxy \in Sessions
    BY <1>1, <1>2, FetchFields DEF Handles
  <2>2. x \in CallerStates /\ x.pc = "has" /\ x.conn = n /\ x.proxy = fetch[f].proxy
    BY <1>1, <2>1, CallerKinds
  <2>3. Keeps(n, fetch[f].proxy)
    BY <1>1, <2>1 DEF IInv, ClientInv, SessionsKept
  <2>4. fetch[f].state \notin UnderWay
    BY <2>1 DEF UnderWay
  <2>5. caller' = [caller EXCEPT ![k] = x]
    BY <1>2
  <2> HIDE DEF x
  <2> QED
    BY <1>1, <1>2, <2>2, <2>3, <2>4, <2>5, SettleKeeps DEF Check
<1>3. CASE fetch[f].state \in {"resolved", "rejected"} /\ StartFetch(k, n)
  <2>1. fetch[f].state \notin UnderWay
    BY <1>3 DEF UnderWay
  <2> QED
    BY <1>1, <1>3, <2>1, StartFetchKeeps DEF Check
<1> QED
  BY <1>2, <1>3 DEF Check

LEMMA FetchedKeeps ==
  ASSUME IInv, NEW k \in Callers, Fetched(k)
  PROVE  IInv'
<1> DEFINE f == caller[k].on
<1>1. caller[k].pc = "fetching" /\ f \in Fetches /\ fetch[f] \in FetchStates
  BY ClientTypes, CallerFields DEF Fetched, IInv
<1>2. CASE /\ fetch[f].state = "resolved"
           /\ caller' = [caller EXCEPT ![k] =
                [pc |-> "has", conn |-> fetch[f].conn, proxy |-> fetch[f].proxy]]
  <2> DEFINE x == [pc |-> "has", conn |-> fetch[f].conn, proxy |-> fetch[f].proxy]
  <2>1. fetch[f].conn \in Conns /\ fetch[f].proxy \in Sessions
    BY <1>1, <1>2, FetchFields
  <2>2. /\ x \in CallerStates /\ x.pc = "has"
        /\ x.conn = fetch[f].conn /\ x.proxy = fetch[f].proxy
    BY <1>1, <2>1, CallerKinds
  <2>3. Keeps(fetch[f].conn, fetch[f].proxy)
    BY <1>1, <1>2 DEF IInv, ClientInv, SessionsKept
  <2>4. fetch[f].state \notin UnderWay
    BY <1>2 DEF UnderWay
  <2>5. caller' = [caller EXCEPT ![k] = x]
    BY <1>2
  <2> HIDE DEF x
  <2> QED
    BY <1>1, <2>2, <2>3, <2>4, <2>5, SettleKeeps DEF Fetched
<1>3. CASE fetch[f].state = "rejected" /\ caller' = [caller EXCEPT ![k] = Idle]
  <2>1. Idle \in CallerStates /\ Idle.pc = "idle"
    BY DEF CallerStates, Idle
  <2>2. fetch[f].state \notin UnderWay
    BY <1>3 DEF UnderWay
  <2> QED
    BY <1>1, <1>3, <2>1, <2>2, SettleKeeps DEF Fetched
<1> QED
  BY <1>2, <1>3 DEF Fetched

-----------------------------------------------------------------------------
(* Connections begin and end                                               *)

Ends == [state : {"none", "open", "closing", "closed"}, token : BOOLEAN, remotes : SUBSET Sessions]

LEMMA EndTypes ==
  ASSUME ServerTypeOK
  PROVE  server \in [Conns -> Ends]
BY DEF ServerTypeOK, Ends

LEMMA EndChanged ==
  ASSUME NEW x \in Ends, NEW state \in {"none", "open", "closing", "closed"}
  PROVE  /\ [x EXCEPT !.state = state] \in Ends
         /\ [x EXCEPT !.state = state].state = state
         /\ [x EXCEPT !.state = state].remotes = x.remotes
BY DEF Ends

LEMMA ConnsOfWorks ==
  ASSUME ServerInv
  PROVE  \A w \in Works : work[w] # NoWork => work[w].conn \in Conns /\ work[w].fetch \in Fetches
BY WorkKind, WorkFields

LEMMA ConnsOfClient ==
  ASSUME TypeOK
  PROVE  /\ \A f \in Fetches :
              /\ fetch[f] \in FetchStates
              /\ fetch[f].state \in UnderWay => fetch[f].conn \in Conns /\ fetch[f].what \in Calls
              /\ fetch[f].state = "resolved" => fetch[f].conn \in Conns /\ fetch[f].proxy \in Sessions
         /\ \A k \in Callers :
              /\ caller[k] \in CallerStates
              /\ caller[k].pc \in {"opening", "checking", "has"} => caller[k].conn \in Conns
BY ClientTypes, FetchFields, CallerFields

\* The types when only these variables change.
LEMMA TypesStay ==
  ASSUME TypeOK, ServerTypeOK', UNCHANGED <<current, promise>>,
         api' \in [Conns -> ApiStates], info' \in Carets \cup {NoCaret},
         fetch' \in [Fetches -> FetchStates], caller' \in [Callers -> CallerStates]
  PROVE  TypeOK'
<1>1. current \in 0 .. MaxConns /\ promise \in Fetches \cup {None}
  BY DEF TypeOK
<1> QED
  BY <1>1
  DEF TypeOK, FetchStates, Going, UnderWay, Settled, CallerStates, Opening, Checking,
      Fetching, Having, ApiStates

\* One end of a connection changes.
LEMMA EndKeepsServer ==
  ASSUME ServerInv, NEW n \in Conns, NEW x \in Ends,
         server' = [server EXCEPT ![n] = x],
         x.remotes \subseteq server[n].remotes,
         WorkOn(n) # {} => x.state \in {"open", "closing"} /\ x.remotes = server[n].remotes,
         UNCHANGED <<caretState, session, entry, work, mayEdit, faults>>
  PROVE  ServerInv'
<1>1. /\ server' \in [Conns -> Ends] /\ server'[n] = x
      /\ \A m \in Conns \ {n} : server'[m] = server[m]
  BY EndTypes DEF ServerInv
<1>2. ServerTypeOK'
  BY <1>1 DEF ServerInv, ServerTypeOK, Ends
<1>3. StagesSuit' /\ EntriesTell' /\ LiveSessions' = LiveSessions
  BY DEF ServerInv, StagesSuit, EntriesTell, LiveSessions
<1>4. RemotesLive'
  BY <1>1, <1>3 DEF ServerInv, RemotesLive
<1>5. ASSUME NEW w \in Works, work[w] # NoWork
      PROVE  /\ AtServer(work[w].conn)'
             /\ server'[work[w].conn].remotes = server[work[w].conn].remotes
  <2>1. work[w].conn \in Conns
    BY <1>5, ConnsOfWorks
  <2>2. CASE work[w].conn = n
    BY <1>1, <1>5, <2>2 DEF WorkOn, AtServer
  <2>3. CASE work[w].conn # n
    BY <1>1, <1>5, <2>1, <2>3 DEF ServerInv, WorksStay, AtServer
  <2> QED
    BY <2>2, <2>3
<1>6. WorksStay'
  BY <1>5 DEF ServerInv, WorksStay
<1> QED
  BY <1>2, <1>3, <1>4, <1>6 DEF ServerInv

LEMMA EndCloseKeeps ==
  ASSUME IInv, NEW n \in Conns, EndClose(n), UNCHANGED clientVars
  PROVE  IInv'
<1> USE DEF clientVars
<1> DEFINE x == [NoServer EXCEPT !.state = "closed"]
<1>1. x \in Ends /\ x.state = "closed" /\ x.remotes = {}
  BY DEF NoServer, Ends
<1>2. server' = [server EXCEPT ![n] = x]
  BY DEF EndClose
<1> HIDE DEF x
<1>3. ServerInv'
  BY <1>1, <1>2, EndKeepsServer DEF EndClose, IInv
<1>4. server'[n] = x /\ \A m \in Conns \ {n} : server'[m] = server[m]
  BY <1>2, EndTypes DEF IInv, ServerInv
<1>5. TypeOK'
  BY <1>3 DEF IInv, TypeOK, ServerInv
<1>6. ConnectionsMatch'
  BY <1>1, <1>4 DEF EndClose, IInv, ClientInv, ConnectionsMatch
<1>7. WorksAwaited' /\ FetchesMatch' /\ FetchesCared' /\ ConnectionsBegun'
  BY DEF EndClose, IInv, ClientInv, WorksAwaited, IsAwaited, Awaited, FetchesMatch, FetchesCared,
         ConnectionsBegun
<1>8. \A m \in Conns : \A s : Keeps(m, s) => Keeps(m, s)'
  BY <1>1, <1>4 DEF Keeps, AtServer
<1>9. SessionsKept'
  BY <1>8, ConnsOfClient DEF IInv, ClientInv, SessionsKept
<1> QED
  BY <1>3, <1>5, <1>6, <1>7, <1>9 DEF IInv, ClientInv

LEMMA ServerClosesKeeps ==
  ASSUME IInv, NEW n \in Conns, ServerCloses(n)
  PROVE  IInv'
<1> DEFINE x == [server[n] EXCEPT !.state = "closing"]
<1>1. server[n] \in Ends /\ server[n].state = "open"
  BY EndTypes DEF ServerCloses, BeginClose, IInv, ServerInv
<1>2. x \in Ends /\ x.state = "closing" /\ x.remotes = server[n].remotes
  BY <1>1, EndChanged
<1>3. server' = [server EXCEPT ![n] = x]
  BY DEF ServerCloses, BeginClose
<1> HIDE DEF x
<1>4. ServerInv'
  BY <1>2, <1>3, EndKeepsServer DEF ServerCloses, BeginClose, IInv
<1>5. server'[n] = x /\ \A m \in Conns \ {n} : server'[m] = server[m]
  BY <1>3, EndTypes DEF IInv, ServerInv
<1>6. api \in [Conns -> ApiStates] /\ info \in Carets \cup {NoCaret}
      /\ fetch \in [Fetches -> FetchStates] /\ caller \in [Callers -> CallerStates]
  BY ClientTypes DEF IInv
<1>7. /\ api' \in [Conns -> ApiStates]
      /\ \A m \in Conns : api'[m].ws = api[m].ws
  <2> DEFINE told == api[n].told \/ api[n].ws = "open"
             y == [api[n] EXCEPT !.told = told]
  <2>1. y \in ApiStates /\ y.ws = api[n].ws
    BY <1>6 DEF ApiStates
  <2>2. api' = [api EXCEPT ![n] = y]
    BY DEF ServerCloses
  <2> HIDE DEF y
  <2> QED
    BY <1>6, <2>1, <2>2
<1>8. TypeOK'
  BY <1>4, <1>6, <1>7, TypesStay DEF ServerCloses, IInv, ServerInv
<1>9. ConnectionsMatch'
  BY <1>1, <1>2, <1>5, <1>7 DEF IInv, ClientInv, ConnectionsMatch
<1>10. WorksAwaited'
  <2>1. \A w \in Works : (IsAwaited(w)' <=> IsAwaited(w)) /\ (Awaited(w)' <=> Awaited(w))
    BY <1>7, ConnsOfWorks DEF ServerCloses, BeginClose, IsAwaited, Awaited, IInv
  <2> QED
    BY <2>1 DEF ServerCloses, BeginClose, IInv, ClientInv, WorksAwaited
<1>11. FetchesMatch' /\ FetchesCared' /\ ConnectionsBegun'
  BY <1>7, ConnsOfClient
  DEF ServerCloses, BeginClose, IInv, ClientInv, FetchesMatch, FetchesCared, ConnectionsBegun,
      UnderWay
<1>12. \A m \in Conns : \A s : Keeps(m, s) => Keeps(m, s)'
  BY <1>1, <1>2, <1>5 DEF Keeps, AtServer
<1>13. SessionsKept'
  BY <1>12, ConnsOfClient DEF ServerCloses, IInv, ClientInv, SessionsKept
<1> QED
  BY <1>4, <1>8, <1>9, <1>10, <1>11, <1>13 DEF IInv, ClientInv

LEMMA ConnectKeeps ==
  ASSUME IInv, NEW n \in Conns, Connect(n)
  PROVE  IInv'
<1> DEFINE x == [server[n] EXCEPT !.state = "open"]
<1>1. server[n] \in Ends /\ server[n].state = "none" /\ api[n].ws = "connecting"
  BY EndTypes DEF Connect, IInv, ServerInv, ClientInv, ConnectionsMatch
<1>2. x \in Ends /\ x.state = "open" /\ x.remotes = server[n].remotes
  BY <1>1, EndChanged
<1>3. server' = [server EXCEPT ![n] = x]
  BY DEF Connect
<1> HIDE DEF x
<1>4. ServerInv'
  BY <1>2, <1>3, EndKeepsServer DEF Connect, IInv
<1>5. server'[n] = x /\ \A m \in Conns \ {n} : server'[m] = server[m]
  BY <1>3, EndTypes DEF IInv, ServerInv
<1>6. api \in [Conns -> ApiStates] /\ info \in Carets \cup {NoCaret}
      /\ fetch \in [Fetches -> FetchStates] /\ caller \in [Callers -> CallerStates]
  BY ClientTypes DEF IInv
<1>7. /\ api' \in [Conns -> ApiStates] /\ api'[n].ws = "open"
      /\ \A m \in Conns \ {n} : api'[m] = api[m]
  BY <1>6 DEF Connect, ApiStates
<1>8. \A f \in Fetches :
        \/ fetch'[f] = fetch[f] /\ ~ (fetch[f].state = "queued" /\ fetch[f].conn = n)
        \/ /\ fetch[f].state = "queued" /\ fetch[f].conn = n
           /\ fetch'[f] \in FetchStates /\ fetch'[f].state = "sent"
           /\ fetch'[f].conn = n /\ fetch'[f].what = fetch[f].what
  <2> TAKE f \in Fetches
  <2>1. CASE fetch[f].state = "queued" /\ fetch[f].conn = n
    <3>1. fetch[f] \in Going
      BY <1>6, <2>1, FetchFields DEF UnderWay
    <3>2. fetch'[f] = [fetch[f] EXCEPT !.state = "sent"]
      BY <2>1 DEF Connect
    <3>3. /\ fetch'[f] \in Going /\ fetch'[f].state = "sent"
          /\ fetch'[f].conn = fetch[f].conn /\ fetch'[f].what = fetch[f].what
      BY <3>1, <3>2 DEF Going, UnderWay
    <3> QED
      BY <2>1, <3>3 DEF FetchStates
  <2>2. CASE ~ (fetch[f].state = "queued" /\ fetch[f].conn = n)
    BY <2>2 DEF Connect
  <2> QED
    BY <2>1, <2>2
<1>9. fetch' \in [Fetches -> FetchStates]
  <2>1. \A f \in Fetches : fetch'[f] \in FetchStates
    BY <1>6, <1>8
  <2> QED
    BY <2>1 DEF Connect
<1>10. TypeOK'
  BY <1>4, <1>6, <1>7, <1>9, TypesStay DEF Connect, IInv, ServerInv
<1>11. ConnectionsMatch'
  BY <1>2, <1>5, <1>7 DEF IInv, ClientInv, ConnectionsMatch
<1>12. \A w \in Works : work[w] # NoWork => work[w].conn # n
  BY <1>1 DEF IInv, ServerInv, WorksStay, AtServer
<1>13. WorksAwaited'
  <2>1. \A w \in Works : IsAwaited(w)' <=> IsAwaited(w)
    BY <1>7, <1>12, ConnsOfWorks DEF Connect, IsAwaited, IInv
  <2>2. ASSUME NEW w \in Works, IsAwaited(w)
        PROVE  Awaited(w)'
    <3>1. work[w].fetch \in Fetches /\ Awaited(w)
      BY <2>2, ConnsOfWorks DEF IsAwaited, IInv, ClientInv, WorksAwaited
    <3>2. fetch'[work[w].fetch] = fetch[work[w].fetch]
      BY <1>8, <3>1 DEF Awaited
    <3> QED
      BY <3>1, <3>2 DEF Awaited, Connect
  <2> QED
    BY <2>1, <2>2 DEF Connect, IInv, ClientInv, WorksAwaited
<1>14. FetchesMatch'
  <2> SUFFICES ASSUME NEW f \in Fetches
               PROVE  /\ fetch'[f].state = "queued" => api'[fetch'[f].conn].ws = "connecting"
                      /\ fetch'[f].state \in {"sent", "served"} => api'[fetch'[f].conn].ws = "open"
                      /\ fetch'[f].state = "served" => \E w \in Works :
                           work[w] # NoWork /\ work[w].fetch = f /\ work[w].conn = fetch'[f].conn
    BY DEF FetchesMatch, Connect
  <2>1. CASE fetch'[f] = fetch[f] /\ ~ (fetch[f].state = "queued" /\ fetch[f].conn = n)
    <3>1. fetch[f].state \in UnderWay => fetch[f].conn \in Conns
      BY ConnsOfClient DEF IInv
    <3>2. fetch[f].state \in {"sent", "served"} => fetch[f].conn # n
      BY <1>1 DEF IInv, ClientInv, FetchesMatch
    <3> QED
      BY <1>7, <2>1, <3>1, <3>2 DEF IInv, ClientInv, FetchesMatch, UnderWay
  <2>2. CASE fetch'[f].state = "sent" /\ fetch'[f].conn = n
    BY <1>7, <2>2
  <2> QED
    BY <1>8, <2>1, <2>2
<1>15. FetchesCared'
  BY <1>8 DEF Connect, IInv, ClientInv, FetchesCared, UnderWay
<1>16. ConnectionsBegun'
  BY <1>1, <1>7, ConnsOfClient DEF Connect, IInv, ClientInv, ConnectionsBegun
<1>17. \A m \in Conns : \A s : Keeps(m, s) => Keeps(m, s)'
  BY <1>1, <1>5 DEF Keeps, AtServer
<1>18. SessionsKept'
  <2>1. \A f \in Fetches :
          /\ fetch'[f].state \in UnderWay /\ fetch'[f].what.call = "getCaret" =>
               Keeps(fetch[f].conn, fetch[f].what.on)'
          /\ fetch'[f].state = "resolved" => Keeps(fetch[f].conn, fetch[f].proxy)'
    <3> TAKE f \in Fetches
    <3>1. CASE fetch'[f] = fetch[f]
      BY <1>17, <3>1, ConnsOfClient DEF IInv, ClientInv, SessionsKept
    <3>2. CASE /\ fetch[f].state = "queued" /\ fetch[f].conn = n
               /\ fetch'[f].state = "sent" /\ fetch'[f].what = fetch[f].what
      <4>1. \A t : ~ Keeps(n, t)
        BY <1>1 DEF Keeps
      <4>2. fetch[f].what.call # "getCaret"
        BY <3>2, <4>1 DEF IInv, ClientInv, SessionsKept, UnderWay
      <4> QED
        BY <3>2, <4>2
    <3> QED
      BY <1>8, <3>1, <3>2
  <2>2. \A k \in Callers : caller[k].pc = "has" => Keeps(caller[k].conn, caller[k].proxy)'
    BY <1>17, ConnsOfClient DEF Connect, IInv, ClientInv, SessionsKept
  <2> QED
    BY <2>1, <2>2 DEF SessionsKept, Connect
<1> QED
  BY <1>4, <1>10, <1>11, <1>13, <1>14, <1>15, <1>16, <1>18 DEF IInv, ClientInv

LEMMA HandleTerminationKeeps ==
  ASSUME IInv, NEW n \in Conns, HandleTermination(n)
  PROVE  IInv'
<1> USE DEF serverVars
<1>1. api \in [Conns -> ApiStates] /\ info \in Carets \cup {NoCaret}
      /\ fetch \in [Fetches -> FetchStates] /\ caller \in [Callers -> CallerStates]
  BY ClientTypes DEF IInv
<1>2. /\ api' \in [Conns -> ApiStates] /\ api'[n].ws = "closed"
      /\ \A m \in Conns \ {n} : api'[m] = api[m]
  BY <1>1 DEF HandleTermination, ApiStates
<1>3. api[n].ws \in {"connecting", "open"}
  BY DEF HandleTermination, IsOpen
<1>4. \A f \in Fetches :
        \/ fetch'[f] = fetch[f] /\ ~ (fetch[f].state \in UnderWay /\ fetch[f].conn = n)
        \/ /\ fetch[f].state \in UnderWay /\ fetch[f].conn = n
           /\ fetch'[f] = FailedFetch /\ fetch'[f].state = "rejected"
  BY FetchKinds DEF HandleTermination, UnderWay
<1>5. fetch' \in [Fetches -> FetchStates]
  <2>1. \A f \in Fetches : fetch'[f] \in FetchStates
    BY <1>1, <1>4, FetchKinds
  <2> QED
    BY <2>1 DEF HandleTermination
<1>6. \A k \in Callers :
        \/ caller'[k] = caller[k]
        \/ caller[k].pc = "opening" /\ caller'[k] = Idle
  BY DEF HandleTermination
<1>7. caller' \in [Callers -> CallerStates]
  <2>1. \A k \in Callers : caller'[k] \in CallerStates
    BY <1>1, <1>6 DEF CallerStates
  <2> QED
    BY <2>1 DEF HandleTermination
<1>8. ServerInv'
  BY DEF HandleTermination, IInv, ServerInv, ServerTypeOK, StagesSuit, EntriesTell, RemotesLive,
         WorksStay, LiveSessions, AtServer
<1>9. TypeOK'
  BY <1>1, <1>2, <1>5, <1>7, <1>8, TypesStay DEF HandleTermination, IInv, ServerInv
<1>10. ConnectionsMatch'
  BY <1>2 DEF HandleTermination, IInv, ClientInv, ConnectionsMatch
<1>11. WorksAwaited'
  <2>1. \A w \in Works : IsAwaited(w)' => IsAwaited(w) /\ work[w].conn # n
    BY <1>2, ConnsOfWorks DEF HandleTermination, IsAwaited, IInv
  <2>2. ASSUME NEW w \in Works, IsAwaited(w)'
        PROVE  Awaited(w)'
    <3>1. work[w].fetch \in Fetches /\ Awaited(w)
      BY <2>1, <2>2, ConnsOfWorks DEF IsAwaited, IInv, ClientInv, WorksAwaited
    <3>2. fetch'[work[w].fetch] = fetch[work[w].fetch]
      BY <1>4, <2>1, <2>2, <3>1 DEF Awaited
    <3> QED
      BY <3>1, <3>2 DEF Awaited, HandleTermination
  <2> QED
    BY <2>1, <2>2 DEF HandleTermination, IInv, ClientInv, WorksAwaited
<1>12. FetchesMatch'
  <2> SUFFICES ASSUME NEW f \in Fetches, fetch'[f].state \in UnderWay
               PROVE  /\ fetch'[f].state = "queued" => api'[fetch'[f].conn].ws = "connecting"
                      /\ fetch'[f].state \in {"sent", "served"} => api'[fetch'[f].conn].ws = "open"
                      /\ fetch'[f].state = "served" => \E w \in Works :
                           work[w] # NoWork /\ work[w].fetch = f /\ work[w].conn = fetch'[f].conn
    BY DEF FetchesMatch, HandleTermination, UnderWay
  <2>1. fetch'[f] = fetch[f] /\ fetch[f].conn # n /\ fetch[f].conn \in Conns
    BY <1>4, ConnsOfClient DEF UnderWay, IInv
  <2> QED
    BY <1>2, <2>1 DEF IInv, ClientInv, FetchesMatch
<1>13. FetchesCared'
  <2> SUFFICES ASSUME NEW f \in Fetches, fetch'[f].state \in UnderWay
               PROVE  \E k \in Callers : caller'[k].pc \in {"checking", "fetching"} /\ caller'[k].on = f
    BY DEF FetchesCared
  <2>1. fetch[f].state \in UnderWay
    BY <1>4 DEF UnderWay
  <2> QED
    BY <1>6, <2>1 DEF IInv, ClientInv, FetchesCared
<1>14. ConnectionsBegun'
  <2>1. \A m \in Conns : api'[m].ws # "none" <=> api[m].ws # "none"
    BY <1>2, <1>3
  <2>2. \A k \in Callers : caller'[k].pc \in {"opening", "checking"} => caller'[k] = caller[k]
    BY <1>6 DEF Idle
  <2> QED
    BY <2>1, <2>2, ConnsOfClient DEF HandleTermination, IInv, ClientInv, ConnectionsBegun
<1>15. SessionsKept'
  <2>1. \A m, s : Keeps(m, s)' <=> Keeps(m, s)
    BY DEF HandleTermination, Keeps, AtServer
  <2>2. \A k \in Callers : caller'[k].pc = "has" => caller'[k] = caller[k]
    BY <1>6 DEF Idle
  <2>3. \A f \in Fetches : fetch'[f].state \in UnderWay \cup {"resolved"} => fetch'[f] = fetch[f]
    BY <1>4 DEF UnderWay
  <2> QED
    BY <2>1, <2>2, <2>3 DEF IInv, ClientInv, SessionsKept
<1> QED
  BY <1>8, <1>9, <1>10, <1>11, <1>12, <1>13, <1>14, <1>15 DEF IInv, ClientInv

-----------------------------------------------------------------------------
(* Calls and answers                                                       *)

LEMMA ReceiveCallKeeps ==
  ASSUME IInv, NEW f \in Fetches, NEW w \in Works, ReceiveCall(f, w)
  PROVE  IInv'
<1> DEFINE n == fetch[f].conn
           what == fetch[f].what
           stage == IF what.call = "getCaret" \/ server[n].token THEN "act" ELSE "auth"
           x == [stage |-> stage, conn |-> n, fetch |-> f, what |-> what,
                 edit |-> FALSE, moved |-> FALSE]
           y == [fetch[f] EXCEPT !.state = "served"]
<1>1. /\ api \in [Conns -> ApiStates] /\ info \in Carets \cup {NoCaret}
      /\ fetch \in [Fetches -> FetchStates] /\ caller \in [Callers -> CallerStates]
      /\ work \in [Works -> WorkStates]
  BY ClientTypes DEF IInv, ServerInv, ServerTypeOK, WorkStates, ActiveWorks, DoneWorks
<1>2. /\ fetch[f].state = "sent" /\ fetch[f] \in Going /\ n \in Conns /\ what \in Calls
      /\ api[n].ws = "open"
  BY <1>1, FetchFields DEF ReceiveCall, UnderWay, IInv, ClientInv, FetchesMatch
<1>3. work[w] = NoWork /\ AtServer(n)
  BY UnusedMeans DEF ReceiveCall, Receive, AtServer
<1>4. stage \in {"act", "auth"} /\ stage \in Stages
  BY DEF Stages
<1>5. /\ x \in ActiveWorks /\ x \in WorkStates /\ x # NoWork /\ x.stage = stage
      /\ x.conn = n /\ x.fetch = f /\ x.what = what
  <2> HIDE DEF stage
  <2> QED
    BY <1>2, <1>4 DEF ActiveWorks, WorkStates, NoWork
<1>6. y \in FetchStates /\ y.state = "served" /\ y.conn = n /\ y.what = what
  BY <1>2 DEF FetchStates, Going, UnderWay
<1>7. work' = [work EXCEPT ![w] = x] /\ fetch' = [fetch EXCEPT ![f] = y]
  BY DEF ReceiveCall, Receive
<1> HIDE DEF x, y, stage
<1>8. /\ work' \in [Works -> WorkStates] /\ work'[w] = x
      /\ \A v \in Works \ {w} : work'[v] = work[v]
  BY <1>1, <1>5, <1>7
<1>9. /\ fetch' \in [Fetches -> FetchStates] /\ fetch'[f] = y
      /\ \A g \in Fetches \ {f} : fetch'[g] = fetch[g]
  BY <1>1, <1>6, <1>7
<1>10. ServerTypeOK'
  BY <1>8 DEF ReceiveCall, Receive, IInv, ServerInv, ServerTypeOK, WorkStates, ActiveWorks, DoneWorks
<1>11. StagesSuit'
  BY <1>4, <1>5, <1>8 DEF IInv, ServerInv, StagesSuit, StageSuits
<1>12. EntriesTell' /\ RemotesLive'
  BY DEF ReceiveCall, Receive, IInv, ServerInv, EntriesTell, RemotesLive, LiveSessions
<1>13. WorksStay'
  <2>1. what.call = "getCaret" => what.on \in server[n].remotes
    BY <1>2, <1>3 DEF IInv, ClientInv, SessionsKept, UnderWay, Keeps
  <2>2. x.stage # "reply"
    BY <1>4, <1>5
  <2> QED
    BY <1>3, <1>5, <1>8, <2>1, <2>2
    DEF ReceiveCall, Receive, IInv, ServerInv, WorksStay, AtServer
<1>14. ServerInv'
  BY <1>10, <1>11, <1>12, <1>13 DEF ServerInv
<1>15. TypeOK'
  BY <1>1, <1>9, <1>10, TypesStay DEF ReceiveCall, IInv
<1>16. ConnectionsMatch' /\ ConnectionsBegun'
  BY DEF ReceiveCall, Receive, IInv, ClientInv, ConnectionsMatch, ConnectionsBegun
<1>17. \A v \in Works \ {w} : (IsAwaited(v)' <=> IsAwaited(v))
  BY <1>8 DEF ReceiveCall, IsAwaited
<1>18. \A v \in Works \ {w} : IsAwaited(v) => work[v].fetch # f
  BY <1>2 DEF IInv, ClientInv, WorksAwaited, Awaited
<1>19. WorksAwaited'
  <2>1. ASSUME NEW v \in Works, IsAwaited(v)'
        PROVE  Awaited(v)'
    <3>1. CASE v = w
      BY <1>4, <1>5, <1>6, <1>8, <1>9, <3>1 DEF Awaited
    <3>2. CASE v # w
      <4>1. IsAwaited(v) /\ work'[v] = work[v] /\ work[v].fetch # f /\ work[v].fetch \in Fetches
        BY <1>8, <1>17, <1>18, <2>1, <3>2, ConnsOfWorks DEF IsAwaited, IInv
      <4>2. Awaited(v) /\ fetch'[work[v].fetch] = fetch[work[v].fetch]
        BY <1>9, <4>1 DEF IInv, ClientInv, WorksAwaited
      <4> QED
        BY <4>1, <4>2 DEF Awaited
    <3> QED
      BY <3>1, <3>2
  <2>2. \A u, v \in Works :
          IsAwaited(u)' /\ IsAwaited(v)' /\ work'[u].fetch = work'[v].fetch => u = v
    <3>1. \A u, v \in Works \ {w} : IsAwaited(u) /\ IsAwaited(v) /\ work[u].fetch = work[v].fetch => u = v
      BY DEF IInv, ClientInv, WorksAwaited
    <3>2. \A v \in Works \ {w} : IsAwaited(v)' => work'[v].fetch # f
      BY <1>8, <1>17, <1>18
    <3>3. work'[w].fetch = f
      BY <1>5, <1>8
    <3> QED
      BY <1>8, <1>17, <3>1, <3>2, <3>3
  <2> QED
    BY <2>1, <2>2 DEF WorksAwaited
<1>20. FetchesMatch'
  <2> SUFFICES ASSUME NEW g \in Fetches
               PROVE  /\ fetch'[g].state = "queued" => api[fetch'[g].conn].ws = "connecting"
                      /\ fetch'[g].state \in {"sent", "served"} => api[fetch'[g].conn].ws = "open"
                      /\ fetch'[g].state = "served" => \E v \in Works :
                           work'[v] # NoWork /\ work'[v].fetch = g /\ work'[v].conn = fetch'[g].conn
    BY DEF FetchesMatch, ReceiveCall
  <2>1. CASE g = f
    BY <1>2, <1>5, <1>6, <1>8, <1>9, <2>1
  <2>2. CASE g # f
    <3>1. fetch'[g] = fetch[g]
      BY <1>9, <2>2
    <3>2. fetch[g].state = "served" => \E v \in Works \ {w} :
            work[v] # NoWork /\ work[v].fetch = g /\ work[v].conn = fetch[g].conn
      BY <1>3 DEF IInv, ClientInv, FetchesMatch
    <3> QED
      BY <1>8, <3>1, <3>2 DEF IInv, ClientInv, FetchesMatch
  <2> QED
    BY <2>1, <2>2
<1>21. FetchesCared'
  <2>1. \A g \in Fetches : fetch'[g].state \in UnderWay => fetch[g].state \in UnderWay
    BY <1>2, <1>9 DEF UnderWay
  <2> QED
    BY <2>1 DEF ReceiveCall, IInv, ClientInv, FetchesCared
<1>22. SessionsKept'
  <2>1. \A m, s : Keeps(m, s)' <=> Keeps(m, s)
    BY DEF ReceiveCall, Receive, Keeps, AtServer
  <2>2. \A g \in Fetches :
          /\ fetch'[g].state \in UnderWay =>
               /\ fetch[g].state \in UnderWay
               /\ fetch'[g].conn = fetch[g].conn /\ fetch'[g].what = fetch[g].what
          /\ fetch'[g].state = "resolved" => fetch'[g] = fetch[g]
    BY <1>2, <1>6, <1>9 DEF UnderWay
  <2> QED
    BY <2>1, <2>2 DEF ReceiveCall, IInv, ClientInv, SessionsKept
<1> QED
  BY <1>14, <1>15, <1>16, <1>19, <1>20, <1>21, <1>22 DEF IInv, ClientInv

\* What the client makes of an answer that it has waited for.
LEMMA ContinueMeans ==
  ASSUME IInv, NEW w \in Works, work[w].stage = "reply", api[work[w].conn].ws = "open",
         NEW f \in Fetches, f = work[w].fetch, NEW n \in Conns, n = work[w].conn,
         Continue(f, work[w].answer)
  PROVE  \E y \in FetchStates :
           /\ fetch' = [fetch EXCEPT ![f] = y]
           /\ y.state \in {"rejected", "sent", "resolved"}
           /\ y.state = "sent" =>
                y.conn = n /\ (y.what.call = "getCaret" => Keeps(n, y.what.on))
           /\ y.state = "resolved" => y.conn = n /\ Keeps(n, y.proxy)
           /\ info' \in Carets \cup {NoCaret}
<1> DEFINE answer == work[w].answer
           what == fetch[f].what
           Done(proxy) == [state |-> "resolved", conn |-> n, proxy |-> proxy]
<1>1. /\ work[w] # NoWork /\ answer \in Answers
      /\ api \in [Conns -> ApiStates] /\ info \in Carets \cup {NoCaret}
  BY WorkKind, WorkFields, ClientTypes DEF IInv, NoWork
<1>2. fetch[f].state = "served" /\ fetch[f].conn = n /\ AnswerSuits(answer, what)
  BY <1>1 DEF IInv, ClientInv, WorksAwaited, IsAwaited, Awaited
<1>3. what \in Calls /\ fetch[f].state \in UnderWay
  BY <1>2, ConnsOfClient DEF IInv, UnderWay
<1>4. AtServer(n) /\ (answer.kind = "session" => answer.of \in server[n].remotes)
  BY <1>1 DEF IInv, ServerInv, WorksStay
<1>5. info' \in Carets \cup {NoCaret}
  BY <1>1, AnswerFields DEF Continue
<1>6. CASE answer.kind = "error"
  <2>1. fetch' = [fetch EXCEPT ![f] = FailedFetch]
    BY <1>6 DEF Continue
  <2> QED
    BY <1>5, <2>1, FetchKinds
<1>7. CASE answer.kind = "null"
  <2> DEFINE y == Sent(n, FirstCall(NoCaret))
  <2>1. fetch' = [fetch EXCEPT ![f] = y]
    BY <1>2, <1>7 DEF Continue
  <2>2. /\ y \in FetchStates /\ y.state \in {"rejected", "sent"}
        /\ y.state = "sent" => y.conn = n /\ y.what.call # "getCaret"
    BY <1>1, SentMeans, FirstCallMakes DEF UnderWay
  <2> HIDE DEF y
  <2> QED
    BY <1>5, <2>1, <2>2
<1>8. CASE answer.kind = "session" /\ what.call = "find"
  <2> DEFINE y == Done(answer.of)
  <2>1. fetch' = [fetch EXCEPT ![f] = y]
    BY <1>2, <1>8 DEF Continue
  <2>2. y \in FetchStates /\ y.state = "resolved" /\ y.conn = n /\ y.proxy = answer.of
    BY <1>1, <1>8, AnswerFields, FetchKinds
  <2>3. Keeps(n, answer.of)
    BY <1>4, <1>8 DEF Keeps, AtServer
  <2> HIDE DEF y
  <2> QED
    BY <1>5, <2>1, <2>2, <2>3
<1>9. CASE answer.kind = "session" /\ what.call = "make"
  <2> DEFINE next == [call |-> "getCaret", on |-> answer.of]
             y == Sent(n, next)
  <2>1. fetch' = [fetch EXCEPT ![f] = y]
    BY <1>2, <1>9 DEF Continue
  <2>2. next \in Calls /\ next.on = answer.of
    BY <1>1, <1>9, AnswerFields DEF Calls
  <2> HIDE DEF next
  <2>3. /\ y \in FetchStates /\ y.state \in {"rejected", "sent"}
        /\ y.state = "sent" => y.conn = n /\ y.what = next
    BY <1>1, <2>2, SentMeans DEF UnderWay
  <2>4. Keeps(n, answer.of)
    BY <1>4, <1>9 DEF Keeps, AtServer
  <2> HIDE DEF y
  <2> QED
    BY <1>5, <2>1, <2>2, <2>3, <2>4
<1>10. CASE answer.kind = "caret"
  <2> DEFINE y == Done(what.on)
  <2>1. fetch' = [fetch EXCEPT ![f] = y]
    BY <1>2, <1>10 DEF Continue
  <2>2. what.call = "getCaret" /\ what.on \in Sessions
    BY <1>2, <1>3, <1>10, CallFields DEF AnswerSuits
  <2>3. y \in FetchStates /\ y.state = "resolved" /\ y.conn = n /\ y.proxy = what.on
    BY <2>2, FetchKinds
  <2>4. Keeps(n, what.on)
    BY <1>2, <1>3, <2>2 DEF IInv, ClientInv, SessionsKept
  <2> HIDE DEF y
  <2> QED
    BY <1>5, <2>1, <2>3, <2>4
<1>11. answer.kind = "session" => what.call \in {"find", "make"}
  BY <1>2, <1>3, CallFields DEF AnswerSuits
<1> QED
  BY <1>1, <1>6, <1>7, <1>8, <1>9, <1>10, <1>11, AnswerFields

LEMMA ReplyKeeps ==
  ASSUME IInv, NEW w \in Works, Reply(w)
  PROVE  IInv'
<1> DEFINE f == work[w].fetch
           n == work[w].conn
<1>1. /\ api \in [Conns -> ApiStates] /\ info \in Carets \cup {NoCaret}
      /\ fetch \in [Fetches -> FetchStates] /\ caller \in [Callers -> CallerStates]
      /\ work \in [Works -> WorkStates]
  BY ClientTypes DEF IInv, ServerInv, ServerTypeOK, WorkStates, ActiveWorks, DoneWorks
<1>2. work[w].stage = "reply" /\ work[w] # NoWork /\ f \in Fetches /\ n \in Conns
  BY ConnsOfWorks DEF Reply, At, IInv, NoWork
<1>3. /\ work' \in [Works -> WorkStates] /\ work'[w] = NoWork
      /\ \A v \in Works \ {w} : work'[v] = work[v]
  BY <1>1 DEF Reply, WorkStates
<1>4. ServerInv'
  <2>1. ServerTypeOK'
    BY <1>3 DEF Reply, IInv, ServerInv, ServerTypeOK, WorkStates, ActiveWorks, DoneWorks
  <2>2. StagesSuit' /\ WorksStay'
    BY <1>3 DEF Reply, IInv, ServerInv, StagesSuit, WorksStay, AtServer, NoWork, Stages
  <2>3. EntriesTell' /\ RemotesLive'
    BY DEF Reply, IInv, ServerInv, EntriesTell, RemotesLive, LiveSessions
  <2> QED
    BY <2>1, <2>2, <2>3 DEF ServerInv
<1>5. ConnectionsMatch' /\ ConnectionsBegun'
  BY DEF Reply, IInv, ClientInv, ConnectionsMatch, ConnectionsBegun
<1>6. \A v \in Works : IsAwaited(v)' => v # w /\ IsAwaited(v)
  BY <1>3 DEF Reply, IsAwaited
<1>7. \A m, s : Keeps(m, s)' <=> Keeps(m, s)
  BY DEF Reply, Keeps, AtServer
<1>8. CASE api[n].ws = "closed" /\ UNCHANGED <<fetch, info>>
  <2>1. TypeOK'
    BY <1>1, <1>4, <1>8, TypesStay DEF Reply, IInv, ServerInv
  <2>2. WorksAwaited'
    BY <1>3, <1>6, <1>8 DEF IInv, ClientInv, WorksAwaited, Awaited
  <2>3. FetchesMatch'
    <3>1. \A g \in Fetches : fetch[g].state = "served" => \E v \in Works \ {w} :
            work[v] # NoWork /\ work[v].fetch = g /\ work[v].conn = fetch[g].conn
      BY <1>8 DEF IInv, ClientInv, FetchesMatch
    <3> QED
      BY <1>3, <1>8, <3>1 DEF Reply, IInv, ClientInv, FetchesMatch
  <2>4. FetchesCared' /\ SessionsKept'
    BY <1>7, <1>8 DEF Reply, IInv, ClientInv, FetchesCared, SessionsKept
  <2> QED
    BY <1>4, <1>5, <2>1, <2>2, <2>3, <2>4 DEF IInv, ClientInv
<1>9. CASE api[n].ws = "open" /\ Continue(f, work[w].answer)
  <2>1. PICK y \in FetchStates :
          /\ fetch' = [fetch EXCEPT ![f] = y]
          /\ y.state \in {"rejected", "sent", "resolved"}
          /\ y.state = "sent" =>
               y.conn = n /\ (y.what.call = "getCaret" => Keeps(n, y.what.on))
          /\ y.state = "resolved" => y.conn = n /\ Keeps(n, y.proxy)
          /\ info' \in Carets \cup {NoCaret}
    <3> HIDE DEF f, n
    <3> QED
      BY <1>2, <1>9, ContinueMeans DEF f, n
  <2>2. /\ fetch' \in [Fetches -> FetchStates] /\ fetch'[f] = y
        /\ \A g \in Fetches \ {f} : fetch'[g] = fetch[g]
    BY <1>1, <1>2, <2>1
  <2>3. TypeOK'
    BY <1>1, <1>4, <2>1, <2>2, TypesStay DEF Reply, IInv, ServerInv
  <2>4. IsAwaited(w) /\ fetch[f].state = "served"
    BY <1>2, <1>9 DEF IsAwaited, IInv, ClientInv, WorksAwaited, Awaited
  <2>5. ASSUME NEW v \in Works, IsAwaited(v)'
        PROVE  Awaited(v)'
    <3>1. v # w /\ IsAwaited(v) /\ work'[v] = work[v] /\ work[v].fetch \in Fetches
      BY <1>3, <1>6, <2>5, ConnsOfWorks DEF IsAwaited, IInv
    <3>2. Awaited(v) /\ work[v].fetch # f
      BY <2>4, <3>1 DEF IInv, ClientInv, WorksAwaited
    <3> QED
      BY <2>2, <3>1, <3>2 DEF Awaited
  <2>6. WorksAwaited'
    <3>1. \A u, v \in Works :
            IsAwaited(u)' /\ IsAwaited(v)' /\ work'[u].fetch = work'[v].fetch => u = v
      BY <1>3, <1>6 DEF IInv, ClientInv, WorksAwaited
    <3> QED
      BY <2>5, <3>1 DEF WorksAwaited
  <2>7. FetchesMatch'
    <3> SUFFICES ASSUME NEW g \in Fetches
                 PROVE  /\ fetch'[g].state = "queued" => api[fetch'[g].conn].ws = "connecting"
                        /\ fetch'[g].state \in {"sent", "served"} => api[fetch'[g].conn].ws = "open"
                        /\ fetch'[g].state = "served" => \E v \in Works :
                             work'[v] # NoWork /\ work'[v].fetch = g /\ work'[v].conn = fetch'[g].conn
      BY DEF FetchesMatch, Reply
    <3>1. CASE g = f
      BY <1>9, <2>1, <2>2, <3>1
    <3>2. CASE g # f
      <4>1. fetch[g].state = "served" => \E v \in Works \ {w} :
              work[v] # NoWork /\ work[v].fetch = g /\ work[v].conn = fetch[g].conn
        BY <3>2 DEF IInv, ClientInv, FetchesMatch
      <4> QED
        BY <1>3, <2>2, <3>2, <4>1 DEF IInv, ClientInv, FetchesMatch
    <3> QED
      BY <3>1, <3>2
  <2>8. FetchesCared'
    <3>1. \A g \in Fetches : fetch'[g].state \in UnderWay => fetch[g].state \in UnderWay
      BY <2>2, <2>4 DEF UnderWay
    <3> QED
      BY <3>1 DEF Reply, IInv, ClientInv, FetchesCared
  <2>9. SessionsKept'
    <3>1. \A g \in Fetches :
            /\ fetch'[g].state \in UnderWay /\ fetch'[g].what.call = "getCaret" =>
                 Keeps(fetch'[g].conn, fetch'[g].what.on)
            /\ fetch'[g].state = "resolved" => Keeps(fetch'[g].conn, fetch'[g].proxy)
      <4> TAKE g \in Fetches
      <4>1. CASE g = f
        BY <2>1, <2>2, <4>1 DEF UnderWay
      <4>2. CASE g # f
        BY <2>2, <4>2 DEF IInv, ClientInv, SessionsKept
      <4> QED
        BY <4>1, <4>2
    <3> QED
      BY <1>7, <3>1 DEF Reply, IInv, ClientInv, SessionsKept
  <2> QED
    BY <1>4, <1>5, <2>3, <2>6, <2>7, <2>8, <2>9 DEF IInv, ClientInv
<1> QED
  BY <1>8, <1>9 DEF Reply

-----------------------------------------------------------------------------
(* The theorems                                                            *)

LEMMA Stutters ==
  ASSUME IInv, UNCHANGED vars
  PROVE  IInv'
<1>1. ServerGoesOn
  <2>1. SessionsGoOn
    BY ServerStays DEF vars, serverVars, IInv
  <2> QED
    BY <2>1, StaysAsItIs
    DEF vars, serverVars, IInv, ServerGoesOn, ServerInv, ServerTypeOK, WorkStates, ActiveWorks, DoneWorks
<1>2. ServerInv'
  BY DEF vars, serverVars, IInv, ServerInv, ServerTypeOK, StagesSuit, EntriesTell, RemotesLive,
         WorksStay, LiveSessions, AtServer
<1> QED
  BY <1>1, <1>2, ServerGoesOnKeeps DEF vars, clientVars

LEMMA Inductive == IInv /\ [Next]_vars => IInv'
<1> SUFFICES ASSUME IInv, [Next]_vars PROVE IInv'
  OBVIOUS
<1>1. ASSUME NEW k \in Callers, getSessionProxy(k) \/ CallerStep(k) PROVE IInv'
  BY <1>1, getSessionProxyKeeps, OpenedKeeps, CheckKeeps, FetchedKeeps DEF CallerStep
<1>2. ASSUME NEW n \in Conns, SocketStep(n) \/ HandleTermination(n) \/ ServerCloses(n)
      PROVE  IInv'
  BY <1>2, ConnectKeeps, HandleTerminationKeeps, EndCloseKeeps, ServerClosesKeeps
  DEF SocketStep, ClientUnmoved
<1>3. ASSUME NEW f \in Fetches, NEW w \in Works, ReceiveCall(f, w) PROVE IInv'
  BY <1>3, ReceiveCallKeeps
<1>4. ASSUME NEW w \in Works, ServerStep(w) \/ ClientUnmoved(Trouble(w)) PROVE IInv'
  <2>1. CASE Reply(w)
    BY <2>1, ReplyKeeps
  <2>2. CASE (Serve(w) \/ Trouble(w)) /\ UNCHANGED clientVars
    <3>1. ServerInv' /\ ServerGoesOn
      BY <2>2, ActKeeps, AuthorizeKeeps, LookKeeps, FindCaretKeeps, ReadCaretsKeeps,
         AppendCaretKeeps, TroubleKeeps DEF Serve, IInv
    <3> QED
      BY <2>2, <3>1, ServerGoesOnKeeps
  <2> QED
    BY <1>4, <2>1, <2>2 DEF ServerStep, ClientUnmoved
<1>5. ASSUME NEW s \in Sessions, ClientUnmoved(Collect(s) \/ Reap(s)) PROVE IInv'
  BY <1>5, CollectKeeps, ReapKeeps, ServerGoesOnKeeps DEF ClientUnmoved, IInv
<1>6. ASSUME NEW c \in Carets, ClientUnmoved(RemoveIdleCaret(c)) PROVE IInv'
  BY <1>6, RemoveIdleCaretKeeps, ServerGoesOnKeeps DEF ClientUnmoved, IInv
<1>7. CASE ClientUnmoved(ChangePermission)
  BY <1>7, ChangePermissionKeeps, ServerGoesOnKeeps DEF ClientUnmoved, IInv
<1>8. CASE UNCHANGED vars
  BY <1>8, Stutters
<1> QED
  BY <1>1, <1>2, <1>3, <1>4, <1>5, <1>6, <1>7, <1>8 DEF Next

LEMMA AlwaysIInv == Spec => []IInv
BY InitIsGood, Inductive, PTL DEF Spec

(* The variables of both sides keep their types.                           *)
THEOREM TypeCorrectness == Spec => []TypeOK
<1>1. IInv => TypeOK
  BY DEF IInv
<1> QED
  BY <1>1, AlwaysIInv, PTL

LEMMA OneSessionNow == IInv => OneSession
<1> SUFFICES ASSUME IInv, NEW s \in LiveSessions, NEW t \in LiveSessions,
                    session[s].caret = session[t].caret
             PROVE  s = t
  BY DEF OneSession
<1>1. Weak(s) = Weak(t)
  BY DEF IInv, ServerInv, EntriesTell
<1>2. Weak(s).of = s /\ Weak(t).of = t
  BY DEF Weak
<1> QED
  BY <1>1, <1>2

(* However calls that broken connections left behind look, wait for a      *)
(* snapshot and make sessions, and however late the callbacks for dead     *)
(* ones come: DocComplex never lets two living sessions have one caret.    *)
THEOREM AlwaysOneSession == Spec => []OneSession
BY AlwaysIInv, OneSessionNow, PTL

LEMMA GivenIsKeptNow == IInv => GivenIsKept
<1> SUFFICES ASSUME IInv, NEW k \in Callers, caller[k].pc = "has", AtServer(caller[k].conn)
             PROVE  caller[k].proxy \in LiveSessions \cap server[caller[k].conn].remotes
  BY DEF GivenIsKept, AtServer
<1>1. caller[k].conn \in Conns
  BY ConnsOfClient DEF IInv
<1> QED
  BY <1>1 DEF IInv, ServerInv, ClientInv, SessionsKept, Keeps, RemotesLive

(* A session proxy that DocSession hands to a part of the editor is for a  *)
(* session that lives, and that the connection's context knows, as long as *)
(* the server's end of the connection is not closed.                       *)
THEOREM AlwaysGivenIsKept == Spec => []GivenIsKept
BY AlwaysIInv, GivenIsKeptNow, PTL

\* What is being served is on a connection that the server has not closed.
LEMMA StepCutsNothingOff ==
  ASSUME IInv, [Next]_vars, NEW f \in Fetches,
         fetch[f].state = "served", api'[fetch[f].conn].ws = "closed"
  PROVE  server[fetch[f].conn].state # "closed"
<1>1. PICK w \in Works : work[w] # NoWork /\ work[w].conn = fetch[f].conn
  BY DEF IInv, ClientInv, FetchesMatch
<1> QED
  BY <1>1 DEF IInv, ServerInv, WorksStay, AtServer

(* A call that the server has taken fails only when the connection breaks: *)
(* a server that closes a connection sends every answer first.             *)
THEOREM AlwaysNothingCutOff == Spec => NothingCutOff
<1>1. IInv /\ [Next]_vars =>
        [\A f \in Fetches :
           /\ fetch[f].state = "served" /\ fetch'[f].state = "rejected"
           /\ api'[fetch[f].conn].ws = "closed"
           => server[fetch[f].conn].state # "closed"]_vars
  BY StepCutsNothingOff
<1> QED
  BY <1>1, AlwaysIInv, PTL DEF Spec, NothingCutOff
=============================================================================
