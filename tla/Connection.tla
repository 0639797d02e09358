----------------------------- MODULE Connection -----------------------------
(***************************************************************************)
(* One connection of the API server: BaseConnection as WsConnection or     *)
(* PostConnection, its Context with the targets that its calls are made    *)
(* on, and its ApiLog; the authorizer of tokens with the mint they come    *)
(* from; and RootAccess and AuthorAccess, which tokens give access to.     *)
(* Calls are handled concurrently: each waits for its authorization and    *)
(* for the method it calls.                                                *)
(***************************************************************************)
EXTENDS Integers

CONSTANTS
  Authors,
  MaxCalls,         \* bound: messages received
  MaxSessions,      \* bound: session objects
  LocalIds,         \* Random.hexByteString(4)
  Width,            \* of the mint's sequence of numbers, 2^32
  MaxWhileClosing,  \* MAX_MESSAGES_WHILE_CLOSING
  NeedCookies       \* tags of tokens for which cookies are demanded

Msgs == 1..MaxCalls
NoOne == "no author"

VARIABLES
  kind,          \* "ws" or "post"
  hasCookies,    \* with the request that the connection began with
  state,         \* of the connection: open, closing, closed
  socketUp,      \* the other end is there (POST: wants an answer still)
  whileClosing,  \* messages allowed through while closing
  targets,       \* the Context's map from target IDs
  remotes,       \* ... and from objects to their IDs
  call,          \* messages received
  pending,       \* the ApiLog's calls that have begun and not returned
  mint,          \* token ID -> token and what it is for
  drawn,         \* numbers drawn for tokens so far, modulo Width
  registered     \* RootAccess: author -> token to use, as registered

vars == <<kind, hasCookies, state, socketUp, whileClosing, targets, remotes, call,
          pending, mint, drawn, registered>>

connVars == <<kind, hasCookies, state, socketUp, whileClosing>>
mintVars == <<mint, drawn, registered>>

Id(tag, n) == <<tag, n>>
Object(class, author, n) == [class |-> class, of |-> author, n |-> n]
Meta == Object("meta", NoOne, 0)
Root == Object("root", NoOne, 0)
NoToken == [id |-> Id("none", 0), secret |-> 0]
RootToken == [id |-> Id("root", 0), secret |-> 0]

NoCall == [stage |-> "none"]
Ends == {"answered", "lost", "ignored"}
Used == {m \in Msgs : call[m] # NoCall}

\* A map with one more entry
With(f, x, v) == [y \in DOMAIN f \cup {x} |-> IF y = x THEN v ELSE f[y]]
Only(x, v) == [y \in {x} |-> v]

Init ==
  /\ kind \in {"ws", "post"}
  /\ hasCookies \in BOOLEAN
  /\ state = "open"
  /\ socketUp = TRUE
  /\ whileClosing = 0
  /\ targets = Only(Id("meta", 0), [token |-> NoToken, obj |-> Meta])
  /\ remotes = Only(Meta, Id("meta", 0))
  /\ call = [m \in Msgs |-> NoCall]
  /\ pending = {}
  /\ mint = Only(RootToken.id, [token |-> RootToken, author |-> NoOne])
  /\ drawn = 0
  /\ registered = [a \in Authors |-> NoToken]

-----------------------------------------------------------------------------
(* The mint.  An ID is a number of the sequence that no token has yet; the  *)
(* secret is the number after it.                                           *)

Taken(id) == id \in DOMAIN mint

Minted(author) ==
  LET k == CHOOSE i \in 0..Width - 1 :
             /\ ~ Taken(Id("autr", (drawn + i) % Width))
             /\ \A j \in 0..i - 1 : Taken(Id("autr", (drawn + j) % Width))
      n == (drawn + k) % Width
  IN [token |-> [id |-> Id("autr", n), secret |-> (n + 1) % Width],
      author |-> author, next |-> n + 2]

CanMint == \E n \in 0..Width - 1 : ~ Taken(Id("autr", n))

\* getAuthority(): of a token whose secret is the right one, too
HasAuthority(token) == Taken(token.id) /\ mint[token.id].token = token

\* What a token gives access to.  An AuthorAccess is new each time.
AuthorizedTarget(token, m) ==
  LET author == mint[token.id].author
  IN IF author = NoOne THEN Root ELSE Object("author", author, m)

-----------------------------------------------------------------------------
(* The Context *)

\* addTarget() refuses a second target with the same ID or the same object.
MayAdd(id, obj) == id \notin DOMAIN targets /\ obj \notin DOMAIN remotes

AddTarget(id, token, obj) ==
  /\ targets' = With(targets, id, [token |-> token, obj |-> obj])
  /\ remotes' = With(remotes, obj, id)

\* An ID finds only what no token controls.
Found(to) ==
  IF to.by = "token"
  THEN to.token.id \in DOMAIN targets /\ targets[to.token.id].token = to.token
  ELSE to.id \in DOMAIN targets /\ targets[to.id].token = NoToken

TargetOf(to) == targets[IF to.by = "token" THEN to.token.id ELSE to.id].obj

-----------------------------------------------------------------------------
(* The end of a call.  The answer cannot be encoded without a Context, and  *)
(* cannot be sent to one who has gone.                                      *)

Answered(m) ==
  [call EXCEPT ![m] = [stage |-> IF state # "closed" /\ socketUp
                                 THEN "answered" ELSE "lost"]]

\* A POST is over with its answer.
Over(m) ==
  /\ call' = Answered(m)
  /\ pending' = pending \ {m}
  /\ IF kind = "post" /\ state = "open"
     THEN state' = "closed" /\ socketUp' = FALSE
     ELSE UNCHANGED <<state, socketUp>>
  /\ UNCHANGED <<kind, hasCookies, whileClosing>>

Fail(m) == Over(m) /\ UNCHANGED <<targets, remotes, mint, drawn, registered>>

-----------------------------------------------------------------------------
(* Messages *)

Wrong(token) == [token EXCEPT !.secret = @ + 1]

Tokens == {mint[id].token : id \in DOMAIN mint}

\* What a client may name: a target there is, a token, one with a wrong
\* secret, a token's ID without the secret, and what is not there.
Addressees ==
  [by : {"id"}, id : DOMAIN targets \cup {Id("local", -1)}]
    \cup [by : {"token"}, token : Tokens \cup {Wrong(t) : t \in Tokens}]

Allowed ==
  IF kind = "post" THEN state = "open" /\ Used = {}
  ELSE state # "closed" /\ socketUp

Fresh == CHOOSE m \in Msgs \ Used : \A n \in Msgs \ Used : m <= n

\* handleJsonMessage(): what the call is for is looked for at once.
Receive(m) ==
  /\ Used # Msgs /\ m = Fresh /\ Allowed
  /\ state = "closing" => whileClosing < MaxWhileClosing
  /\ \E to \in Addressees :
       LET stage == IF Found(to) THEN "found"
                    ELSE IF to.by = "token" THEN "cookies" ELSE "unknown"
       IN call' = [call EXCEPT ![m] = [stage |-> stage, to |-> to,
                                       obj |-> IF Found(to) THEN TargetOf(to) ELSE Meta]]
  /\ whileClosing' = whileClosing + (IF state = "closing" THEN 1 ELSE 0)
  /\ UNCHANGED <<kind, hasCookies, state, socketUp, targets, remotes, pending>>
  /\ UNCHANGED mintVars

\* A closing connection has seen enough of them.
Ignore(m) ==
  /\ Used # Msgs /\ m = Fresh /\ Allowed
  /\ state = "closing" /\ whileClosing = MaxWhileClosing
  /\ call' = [call EXCEPT ![m] = [stage |-> "ignored"]]
  /\ UNCHANGED <<targets, remotes, pending>> /\ UNCHANGED connVars /\ UNCHANGED mintVars

\* _decodeMessage() makes nothing of it.
Nonsense(m) ==
  /\ Used # Msgs /\ m = Fresh /\ Allowed
  /\ state = "closing" => whileClosing < MaxWhileClosing
  /\ call' = [call EXCEPT ![m] = [stage |-> "unknown"]]
  /\ whileClosing' = whileClosing + (IF state = "closing" THEN 1 ELSE 0)
  /\ UNCHANGED <<kind, hasCookies, state, socketUp, targets, remotes, pending>>
  /\ UNCHANGED mintVars

At(m, stage) == call[m].stage = stage
GoTo(m, stage) == call' = [call EXCEPT ![m].stage = stage]

Unknown(m) == At(m, "unknown") /\ Fail(m)

\* _getTargetFromToken(): cookies first, ...
Cookies(m) ==
  /\ At(m, "cookies")
  /\ IF call[m].to.token.id[1] \in NeedCookies /\ ~ hasCookies
     THEN Fail(m)
     ELSE /\ GoTo(m, "authorize")
          /\ UNCHANGED <<targets, remotes, pending>>
          /\ UNCHANGED connVars /\ UNCHANGED mintVars

\* Mutant: another call's target with the same ID is replaced.
AuthorizeOver(m) ==
  LET token == call[m].to.token
      obj == AuthorizedTarget(token, m)
  IN /\ At(m, "authorize")
     /\ IF HasAuthority(token)
        THEN /\ AddTarget(token.id, token, obj)
             /\ call' = [call EXCEPT ![m].stage = "found", ![m].obj = obj]
             /\ UNCHANGED pending /\ UNCHANGED connVars /\ UNCHANGED mintVars
        ELSE Fail(m)

\* ... then the authorizer.  The target may be there by then, because of
\* another call: it is refused, and so is the call.
Authorize(m) ==
  LET token == call[m].to.token
      obj == AuthorizedTarget(token, m)
  IN /\ At(m, "authorize")
     /\ IF HasAuthority(token) /\ MayAdd(token.id, obj)
        THEN /\ AddTarget(token.id, token, obj)
             /\ call' = [call EXCEPT ![m].stage = "found", ![m].obj = obj]
             /\ UNCHANGED pending /\ UNCHANGED connVars /\ UNCHANGED mintVars
        ELSE Fail(m)

\* _actOnMessage(): the method is called, if the target has it and if the
\* connection is not about to close.
Act(m) ==
  /\ At(m, "found")
  /\ \/ /\ state = "open"
        /\ GoTo(m, "called")
        /\ pending' = pending \cup {m}
        /\ UNCHANGED <<targets, remotes>> /\ UNCHANGED connVars /\ UNCHANGED mintVars
     \/ Fail(m)

-----------------------------------------------------------------------------
(* Methods *)

Calling(m, class) == At(m, "called") /\ call[m].obj.class = class

\* A plain result, or an error
Return(m) == At(m, "called") /\ Fail(m)

\* RootAccess.makeSessionInfo(): with the author's registered token, or else a
\* new one
MakeSessionInfo(m) ==
  /\ Calling(m, "root")
  /\ \E a \in Authors :
       IF registered[a] = NoToken
       THEN /\ CanMint
            /\ LET new == Minted(a) IN
               /\ mint' = With(mint, new.token.id, [token |-> new.token, author |-> a])
               /\ drawn' = new.next % Width
       ELSE UNCHANGED <<mint, drawn>>
  /\ Over(m)
  /\ UNCHANGED <<targets, remotes, registered>>

\* RootAccess.useToken()
UseToken(m) ==
  /\ Calling(m, "root")
  /\ \E a \in Authors, t \in Tokens : registered' = [registered EXCEPT ![a] = t]
  /\ Over(m)
  /\ UNCHANGED <<targets, remotes, mint, drawn>>

\* AuthorAccess makes or finds a session; getRemoteFor() gives the client an ID
\* for it, the one that the session has on this connection already if any.
MakeSession(m) ==
  /\ Calling(m, "author")
  /\ \E k \in 1..MaxSessions :
       LET session == Object("session", call[m].obj.of, k) IN
       /\ \A obj \in DOMAIN remotes :
            obj.class = "session" /\ obj.n = k => obj = session
       /\ IF session \in DOMAIN remotes \/ state = "closed"
          THEN UNCHANGED <<targets, remotes>>
          ELSE \E n \in LocalIds :
                 /\ Id("local", n) \notin DOMAIN targets
                 /\ AddTarget(Id("local", n), NoToken, session)
  /\ Over(m)
  /\ UNCHANGED mintVars

-----------------------------------------------------------------------------
(* Closing *)

\* close(), because the server shuts down
BeginClose ==
  /\ kind = "ws" /\ state = "open"
  /\ state' = "closing"
  /\ UNCHANGED <<kind, hasCookies, socketUp, whileClosing, targets, remotes, call,
                 pending>>
  /\ UNCHANGED mintVars

\* The socket closes, or has an error; with a POST, the request has, and is
\* answered that there was trouble.
SocketGone ==
  /\ socketUp /\ state # "closed"
  /\ socketUp' = FALSE
  /\ state' = IF kind = "post" THEN "closed" ELSE "closing"
  /\ UNCHANGED <<kind, hasCookies, whileClosing, targets, remotes, call, pending>>
  /\ UNCHANGED mintVars

Working == {m \in Used : call[m].stage \notin Ends}

\* Mutant: it does not wait.
EndCloseAtOnce ==
  /\ kind = "ws" /\ state = "closing"
  /\ state' = "closed"
  /\ socketUp' = FALSE
  /\ UNCHANGED <<kind, hasCookies, whileClosing, targets, remotes, call, pending>>
  /\ UNCHANGED mintVars

\* _impl_close(): once nothing is being worked on, and the socket is closed
EndClose ==
  /\ kind = "ws" /\ state = "closing" /\ Working = {}
  /\ state' = "closed"
  /\ socketUp' = FALSE
  /\ UNCHANGED <<kind, hasCookies, whileClosing, targets, remotes, call, pending>>
  /\ UNCHANGED mintVars

-----------------------------------------------------------------------------
Handle(m) ==
  \/ Unknown(m) \/ Cookies(m) \/ Authorize(m) \/ Act(m)
  \/ Return(m) \/ MakeSessionInfo(m) \/ UseToken(m) \/ MakeSession(m)

Next ==
  \/ \E m \in Msgs : Receive(m) \/ Ignore(m) \/ Nonsense(m) \/ Handle(m)
  \/ BeginClose \/ SocketGone \/ EndClose

Spec == Init /\ [][Next]_vars

-----------------------------------------------------------------------------
(* Properties *)

\* The two maps of a Context agree, whatever calls are under way: an ID that a
\* client has been given names the same object for ever, and an object has no
\* second ID.
MapsAgree ==
  /\ \A id \in DOMAIN targets : remotes[targets[id].obj] = id
  /\ \A obj \in DOMAIN remotes : targets[remotes[obj]].obj = obj

\* A call is made on the object that it names.  One that comes with a token has
\* the authority that the token was minted for, and every token keeps that; one
\* without does not get to what a token guards.
CallsReachTheirObject ==
  /\ MapsAgree
  /\ \A id \in DOMAIN mint : mint[id].token.id = id
  /\ \A m \in Used :
       At(m, "called") =>
         LET to == call[m].to
             obj == call[m].obj
         IN IF to.by = "token"
            THEN /\ HasAuthority(to.token)
                 /\ obj.class = (IF to.token = RootToken THEN "root" ELSE "author")
                 /\ obj.of = mint[to.token.id].author
            ELSE remotes[obj] = to.id /\ obj.class \in {"meta", "session"}

\* A call that a websocket connection has let through is answered also when the
\* connection closes meanwhile, unless the other end has gone; the Context is
\* there as long as it is needed, and the log has forgotten what is over.
AnsweredOnClosing ==
  /\ kind = "ws" /\ state = "closed" => Working = {}
  /\ pending = {m \in Used : At(m, "called")}

\* A token that has been given out stays good for its author.
TokensStay ==
  [][\A id \in DOMAIN mint : id \in DOMAIN mint' /\ mint'[id] = mint[id]]_mint
=============================================================================
