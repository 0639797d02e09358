------------------------------- MODULE Sessions -------------------------------
(***************************************************************************)
(* An editor's session with the server: DocSession, which several parts of *)
(* the editor ask for a session proxy, and ApiClient with its websocket,   *)
(* TargetMap and calls, composed with the server's side (SessionServer).   *)
(* Connections break, the server closes them, and the parts ask again.     *)
(***************************************************************************)
EXTENDS SessionServer

CONSTANT Callers     \* the parts of the editor that ask for the session proxy

VARIABLES
  api,      \* connection -> the ApiClient made for it
  current,  \* the ApiClient that the DocSession has, or 0
  promise,  \* the attempt that _sessionProxyPromise stands for, or None
  info,     \* the caret in _sessionInfo, or NoCaret
  fetch,    \* the calls of _fetchSessionProxy()
  caller    \* what each part of the editor is doing

clientVars == <<api, current, promise, info, fetch, caller>>
vars == <<serverVars, clientVars>>

NoFetch == [state |-> "none"]
Idle == [pc |-> "idle"]

TypeOK ==
  /\ ServerTypeOK
  /\ api \in [Conns -> [ws : {"none", "connecting", "open", "closed"}, told : BOOLEAN]]
  /\ current \in 0 .. MaxConns
  /\ promise \in Fetches \cup {None}
  /\ info \in Carets \cup {NoCaret}
  /\ fetch \in [Fetches -> {NoFetch} \cup
       [state : {"queued", "sent", "served"}, conn : Conns, what : Calls]
       \cup [state : {"resolved"}, conn : Conns, proxy : Sessions]
       \cup [state : {"rejected"}]]
  /\ caller \in [Callers -> {Idle} \cup [pc : {"opening"}, conn : Conns]
       \cup [pc : {"checking"}, conn : Conns, on : Fetches]
       \cup [pc : {"fetching"}, on : Fetches]
       \cup [pc : {"has"}, conn : Conns, proxy : Sessions]]

Init ==
  /\ ServerInit
  /\ api = [n \in Conns |-> [ws |-> "none", told |-> FALSE]]
  /\ current = 0
  /\ promise = None
  /\ info = NoCaret
  /\ fetch = [f \in Fetches |-> NoFetch]
  /\ caller = [k \in Callers |-> Idle]

-----------------------------------------------------------------------------
(* Sending a call.  It is queued while the socket opens, and refused when  *)
(* the socket is closed or the server has said that it closes.             *)
SendState(n) ==
  IF api[n].ws = "closed" \/ api[n].told THEN "rejected"
  ELSE IF api[n].ws = "connecting" THEN "queued" ELSE "sent"

FailedFetch == [state |-> "rejected"]

Sent(n, what) ==
  IF SendState(n) = "rejected" THEN FailedFetch
  ELSE [state |-> SendState(n), conn |-> n, what |-> what]

FirstCall(c) ==
  IF c = NoCaret THEN [call |-> "make", on |-> NoCaret] ELSE [call |-> "find", on |-> c]

(* An attempt that nothing refers to any more.                             *)
Tidy(fetches, stored, callers) ==
  [f \in Fetches |->
    IF \/ f = stored
       \/ \E k \in Callers : callers[k].pc \in {"checking", "fetching"} /\ callers[k].on = f
      THEN fetches[f] ELSE NoFetch]

(* _fetchSessionProxy(): a new attempt takes the place of the one before.  *)
StartFetch(k, n) ==
  \E f \in Unused(fetch, Fetches, NoFetch) :
    /\ promise' = f
    /\ caller' = [caller EXCEPT ![k] = [pc |-> "fetching", on |-> f]]
    /\ fetch' = Tidy([fetch EXCEPT ![f] =
         Sent(n, FirstCall(info))], f, caller')

(* What getSessionProxy() does once it has an ApiClient.                   *)
WithApi(k, n) ==
  IF promise = None THEN StartFetch(k, n)
  ELSE /\ caller' = [caller EXCEPT ![k] = [pc |-> "checking", conn |-> n, on |-> promise]]
       /\ UNCHANGED <<fetch, promise>>

IsOpen(n) == n # 0 /\ api[n].ws \in {"connecting", "open"}

(* A part asks when it starts, and again once its proxy is of no use.       *)
getSessionProxy(k) ==
  /\ \/ caller[k].pc = "idle"
     \/ caller[k].pc = "has" /\ ~ IsOpen(caller[k].conn)
  /\ \/ /\ IsOpen(current)
        /\ WithApi(k, current)
        /\ UNCHANGED <<api, current>>
     \/ /\ ~ IsOpen(current)
        /\ current < MaxConns
        /\ current' = current + 1
        /\ api' = [api EXCEPT ![current'].ws = "connecting"]
        /\ caller' = [caller EXCEPT ![k] = [pc |-> "opening", conn |-> current']]
        /\ UNCHANGED <<fetch, promise>>
  /\ UNCHANGED <<serverVars, info>>

(* open() has made two calls to `meta', which the server answers at once.  *)
(* What the caller then gets is the session's ApiClient of that moment.    *)
Opened(k) ==
  /\ caller[k].pc = "opening"
  /\ api[caller[k].conn].ws = "open"
  /\ \/ /\ server[caller[k].conn].state = "open"
        /\ WithApi(k, current)
     \/ /\ server[caller[k].conn].state = "closing"
        /\ caller' = [caller EXCEPT ![k] = Idle]
        /\ UNCHANGED <<fetch, promise>>
  /\ UNCHANGED <<serverVars, api, current, info>>

(* A proxy of another ApiClient, or from before its connection broke, is   *)
(* not one that this client handles.                                       *)
HandlesAny(n, f) == fetch[f].state = "resolved"
Handles(n, f) ==
  fetch[f].state = "resolved" /\ fetch[f].conn = n /\ api[n].ws # "closed"

CheckKeepingFailure(k) ==
  LET f == caller[k].on
      n == caller[k].conn
  IN /\ caller[k].pc = "checking"
     /\ \/ /\ Handles(n, f)
           /\ caller' = [caller EXCEPT ![k] = [pc |-> "has", conn |-> n, proxy |-> fetch[f].proxy]]
           /\ fetch' = Tidy(fetch, promise, caller')
           /\ UNCHANGED promise
        \/ /\ fetch[f].state = "rejected"
           /\ caller' = [caller EXCEPT ![k] = Idle]
           /\ UNCHANGED <<fetch, promise>>
        \/ /\ fetch[f].state = "resolved" /\ ~ Handles(n, f)
           /\ StartFetch(k, n)
     /\ UNCHANGED <<serverVars, api, current, info>>

Check(k) ==
  LET f == caller[k].on
      n == caller[k].conn
  IN /\ caller[k].pc = "checking"
     /\ \/ /\ Handles(n, f)
           /\ caller' = [caller EXCEPT ![k] = [pc |-> "has", conn |-> n, proxy |-> fetch[f].proxy]]
           /\ fetch' = Tidy(fetch, promise, caller')
           /\ UNCHANGED promise
        \/ /\ fetch[f].state \in {"resolved", "rejected"} /\ ~ Handles(n, f)
           /\ StartFetch(k, n)
     /\ UNCHANGED <<serverVars, api, current, info>>

Fetched(k) ==
  LET f == caller[k].on IN
  /\ caller[k].pc = "fetching"
  /\ \/ /\ fetch[f].state = "resolved"
        /\ caller' = [caller EXCEPT ![k] =
             [pc |-> "has", conn |-> fetch[f].conn, proxy |-> fetch[f].proxy]]
     \/ /\ fetch[f].state = "rejected"
        /\ caller' = [caller EXCEPT ![k] = Idle]
  /\ fetch' = Tidy(fetch, promise, caller')
  /\ UNCHANGED <<serverVars, api, current, promise, info>>

-----------------------------------------------------------------------------
(* The socket.                                                             *)

Connect(n) ==
  /\ api[n].ws = "connecting"
  /\ api' = [api EXCEPT ![n].ws = "open"]
  /\ server' = [server EXCEPT ![n].state = "open"]
  /\ fetch' = [f \in Fetches |->
       IF fetch[f].state = "queued" /\ fetch[f].conn = n
         THEN [fetch[f] EXCEPT !.state = "sent"] ELSE fetch[f]]
  /\ UNCHANGED <<caretState, session, entry, work, mayEdit, faults,
                 current, promise, info, caller>>

(* The client learns that the socket is closed, because the server closed  *)
(* it or the connection broke.  All that is under way fails.               *)
HandleTermination(n) ==
  /\ IsOpen(n)
  /\ server[n].state = "closed" \/ n < MaxConns
  /\ api' = [api EXCEPT ![n] = [ws |-> "closed", told |-> FALSE]]
  /\ fetch' = [f \in Fetches |->
       IF fetch[f].state \in {"queued", "sent", "served"} /\ fetch[f].conn = n
         THEN FailedFetch ELSE fetch[f]]
  /\ caller' = [k \in Callers |->
       IF caller[k] = [pc |-> "opening", conn |-> n] THEN Idle ELSE caller[k]]
  /\ UNCHANGED <<serverVars, current, promise, info>>

ReceiveCall(f, w) ==
  /\ fetch[f].state = "sent"
  /\ Receive(w, fetch[f].conn, f, fetch[f].what)
  /\ fetch' = [fetch EXCEPT ![f].state = "served"]
  /\ UNCHANGED <<api, current, promise, info, caller>>

(* The client takes an answer: with a session that it found it is done;    *)
(* for a session that it made it asks which caret that has.                *)
Continue(f, answer) ==
  LET x == fetch[f]
      Done(proxy) == [state |-> "resolved", conn |-> x.conn, proxy |-> proxy]
  IN /\ fetch' = [fetch EXCEPT ![f] =
          CASE answer.kind = "error" -> FailedFetch
            [] answer.kind = "null" -> Sent(x.conn, FirstCall(NoCaret))
            [] answer.kind = "session" /\ x.what.call = "find" -> Done(answer.of)
            [] answer.kind = "session" /\ x.what.call = "make" ->
                 Sent(x.conn, [call |-> "getCaret", on |-> answer.of])
            [] answer.kind = "caret" -> Done(x.what.on)]
     /\ info' = IF answer.kind = "caret" THEN answer.of ELSE info

(* The server sends an answer.  On a connection that broke it is lost.     *)
Reply(w) ==
  LET f == work[w].fetch IN
  /\ At(w, "reply")
  /\ work' = [work EXCEPT ![w] = NoWork]
  /\ \/ /\ api[work[w].conn].ws = "open"
        /\ Continue(f, work[w].answer)
     \/ /\ api[work[w].conn].ws = "closed"
        /\ UNCHANGED <<fetch, info>>
  /\ UNCHANGED <<caretState, session, entry, server, mayEdit, faults,
                 api, current, promise, caller>>

(* The server closes a connection and tells the client, or it finds that   *)
(* the client is gone.                                                     *)
ServerCloses(n) ==
  /\ BeginClose(n)
  /\ n < MaxConns \/ api[n].ws = "closed"
  /\ api' = [api EXCEPT ![n].told = @ \/ api[n].ws = "open"]
  /\ UNCHANGED <<current, promise, info, fetch, caller>>

ClientUnmoved(action) == action /\ UNCHANGED clientVars

-----------------------------------------------------------------------------
CallerStep(k) == Opened(k) \/ Check(k) \/ Fetched(k)
ServerStep(w) == Reply(w) \/ ClientUnmoved(Serve(w))
SocketStep(n) ==
  \/ Connect(n)
  \/ server[n].state = "closed" /\ HandleTermination(n)
  \/ ClientUnmoved(EndClose(n))
  \/ api[n].ws = "closed" /\ ServerCloses(n)

Next ==
  \/ \E k \in Callers : getSessionProxy(k) \/ CallerStep(k)
  \/ \E n \in Conns : SocketStep(n) \/ HandleTermination(n) \/ ServerCloses(n)
  \/ \E f \in Fetches, w \in Works : ReceiveCall(f, w)
  \/ \E w \in Works : ServerStep(w) \/ ClientUnmoved(Trouble(w))
  \/ \E s \in Sessions : ClientUnmoved(Collect(s) \/ Reap(s))
  \/ \E c \in Carets : ClientUnmoved(RemoveIdleCaret(c))
  \/ ClientUnmoved(ChangePermission)

(* Promises that are settled are acted on; the network brings what was     *)
(* sent, or breaks; the server works on its calls; and the parts of the    *)
(* editor ask again after a failure (errorWait in BodyClient, the loops of *)
(* CaretState).                                                            *)
Spec == Init /\ [][Next]_vars
Steps ==
  /\ \A k \in Callers : WF_vars(CallerStep(k))
  /\ \A n \in Conns : WF_vars(SocketStep(n))
  /\ \A f \in Fetches : WF_vars(\E w \in Works : ReceiveCall(f, w))
  /\ \A w \in Works : WF_vars(ServerStep(w))
  /\ \A s \in Sessions : WF_vars(ClientUnmoved(Reap(s)))
AskAgain == \A k \in Callers : WF_vars(getSessionProxy(k))
FairSpec == Spec /\ Steps /\ AskAgain

-----------------------------------------------------------------------------
(* Two living sessions never have one caret: each would move it without    *)
(* the other's knowing.  Connections that broke leave calls behind on the  *)
(* server that look, wait for a snapshot and then make a session.          *)
OneSession ==
  \A s, t \in LiveSessions : session[s].caret = session[t].caret => s = t

(* A session that a client has been given is alive as long as the          *)
(* connection that it got it through: a call on it finds it.               *)
GivenIsKept ==
  \A k \in Callers :
    caller[k].pc = "has" /\ server[caller[k].conn].state \in {"open", "closing"} =>
      caller[k].proxy \in LiveSessions \cap server[caller[k].conn].remotes

(* A connection that the server closes loses no call that it has taken:    *)
(* the socket stays open until every answer is sent.                       *)
NothingCutOff ==
  [][ \A f \in Fetches :
        /\ fetch[f].state = "served" /\ fetch'[f].state = "rejected"
        /\ api'[fetch[f].conn].ws = "closed"
        => server[fetch[f].conn].state # "closed" ]_vars

(* However connections break and close, calls fail and carets are removed, *)
(* a part that asks again has a session on a good connection in the end    *)
(* (the bounds end the faults), and so every call of getSessionProxy()     *)
(* ends.  The exception: a session that lives on keeps one with a new      *)
(* permission from being made for its caret.                               *)
Refused ==
  \E s \in LiveSessions : session[s].caret = info /\ session[s].edit # mayEdit

Reconnects ==
  \A k \in Callers : []<>(Refused \/ (caller[k].pc = "has" /\ IsOpen(caller[k].conn)))
=============================================================================
