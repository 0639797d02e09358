-------------------------------- MODULE Page --------------------------------
(***************************************************************************)
(* Pages that edit the title of one document: TopControl, which starts the *)
(* editor and recovers it once it has given up; EditorComplex, which makes *)
(* a client session with its body client and title client; TitleClient,    *)
(* which keeps Quill's title and the `title` property alike; and           *)
(* PropertyClient, through which it does so.  The body client is modelled  *)
(* in BodyClient.tla, the connection in Sessions.tla: here the one may     *)
(* give up, and calls over the other may fail.                             *)
(***************************************************************************)
EXTENDS Naturals, SequencesExt

CONSTANTS
  Pages,
  Titles,          \* what users type; the text that Quill has for it
  Untitled,        \* what the page shows before anything is known
  NoTitle,         \* the property is not set
  MaxSessions,     \* bound: sessions of a page, one after the other
  MaxHappenings,     \* bound: times that a user goes to a title, that a call
                   \* fails, and that a body client gives up
  CarefulUsers     \* nobody returns to a title that is just being pushed

Nums == 1..MaxSessions

VARIABLES
  title,   \* the property, on the server
  page,    \* page -> how far TopControl is, and the session it uses
  quill,   \* page -> the title editor's text, and whether it has the focus
  loop,    \* page -> session -> the title client's _syncLoop()
  push,    \* PropertyClient.set() under way, by a loop or by titleOnEnter()
  unsent,  \* page -> what was typed and has not got to the server (history)
  happened  \* so far

vars == <<title, page, quill, loop, push, unsent, happened>>

NoLoop == [pc |-> "none", asked |-> NoTitle, told |-> NoTitle, events |-> <<>>]
Dead   == [NoLoop EXCEPT !.pc = "dead"]

Runs(l) == l.pc \notin {"none", "dead"}

\* The loop asks the server for another title and watches for the focus, or it
\* waits for the focus to leave, and then it pushes.
Racing(q) == [NoLoop EXCEPT !.pc = "racing", !.asked = q.text]
Focused   == [NoLoop EXCEPT !.pc = "focused"]
Pushing(events) == [NoLoop EXCEPT !.pc = "pushing", !.events = events]

\* The top of the loop, until it waits: the events of the selection that have
\* come meanwhile are looked at first, with the focus as it is now.
Top(q, events) ==
  LET out == SelectInSeq(events, LAMBDA event : event = "out") IN
  IF ~ q.focus THEN Racing(q)
  ELSE IF out = 0 THEN Focused
  ELSE Pushing(SubSeq(events, out + 1, Len(events)))

Pushed(p, k, by, text) ==
  [page |-> p, num |-> k, by |-> by, text |-> text, read |-> FALSE, overtaken |-> FALSE]

Init ==
  /\ title = NoTitle
  /\ page = [p \in Pages |-> [stage |-> "loading", num |-> 0]]
  /\ quill = [p \in Pages |-> [text |-> Untitled, focus |-> FALSE]]
  /\ loop = [p \in Pages |-> [k \in Nums |-> NoLoop]]
  /\ push = {}
  /\ unsent = [p \in Pages |-> NoTitle]
  /\ happened = 0

-----------------------------------------------------------------------------
(* TopControl and EditorComplex *)

\* _initSession(): a title client for a new session starts its loop.  That of
\* the session before, if there was one, is not told to stop.
InitSession(p) ==
  /\ page' = [page EXCEPT ![p].stage = "running", ![p].num = @ + 1]
  /\ loop' = [loop EXCEPT ![p][page[p].num + 1] = Top(quill[p], <<>>)]

\* start(), _onReady(), and what EditorComplex makes: the page's nodes, the
\* editors, and the first session
Build(p) ==
  /\ page[p].stage = "loading"
  /\ InitSession(p)
  /\ UNCHANGED <<title, quill, push, unsent, happened>>

\* The body client gets to its unrecoverable error.
GiveUp(p) ==
  /\ page[p].stage = "running" /\ happened < MaxHappenings
  /\ page' = [page EXCEPT ![p].stage = "recovering"]
  /\ happened' = happened + 1
  /\ UNCHANGED <<title, quill, loop, push, unsent>>

\* _recoverIfPossible(): the host page has a new session for the editor ...
Recover(p) ==
  /\ page[p].stage = "recovering" /\ page[p].num < MaxSessions
  /\ InitSession(p)
  /\ UNCHANGED <<title, quill, push, unsent, happened>>

\* ... or has not.
Halt(p) ==
  /\ page[p].stage = "recovering"
  /\ page' = [page EXCEPT ![p].stage = "halted"]
  /\ UNCHANGED <<title, quill, loop, push, unsent, happened>>

-----------------------------------------------------------------------------
(* The user.  Every loop of the page sees the events of the selection: one  *)
(* that waits at once, which ends its race, and one that pushes afterwards. *)

\* Mutant: the race goes on if the server has answered.
HeedUnlessTold(l, q, event) ==
  CASE l.pc = "racing"  -> IF l.told = NoTitle THEN Top(q, <<>>) ELSE l
    [] l.pc = "focused" -> Top(q, <<event>>)
    [] l.pc = "pushing" -> [l EXCEPT !.events = Append(@, event)]
    [] OTHER -> l

Heed(l, q, event) ==
  CASE l.pc = "racing"  -> Top(q, <<>>)
    [] l.pc = "focused" -> IF event = "out" THEN Pushing(<<>>) ELSE Focused
    [] l.pc = "pushing" -> [l EXCEPT !.events = Append(@, event)]
    [] OTHER -> l

\* The pushes that loops start as they go from one state to another.
Started(p, from, to) ==
  {Pushed(p, k, "loop", quill[p].text) :
     k \in {n \in Nums : from[n].pc # "pushing" /\ to[n].pc = "pushing"}}

Select(p, focus, event, pushes) ==
  LET q == [quill[p] EXCEPT !.focus = focus]
      loops == [k \in Nums |-> Heed(loop[p][k], q, event)]
  IN /\ quill' = [quill EXCEPT ![p] = q]
     /\ loop' = [loop EXCEPT ![p] = loops]
     /\ push' = push \cup pushes \cup Started(p, loop[p], loops)

Busy(p) == \E x \in push : x.page = p

Focus(p) ==
  /\ page[p].stage # "loading" /\ ~ quill[p].focus
  /\ happened < MaxHappenings
  /\ CarefulUsers => ~ Busy(p)
  /\ happened' = happened + 1
  /\ Select(p, TRUE, "in", {})
  /\ UNCHANGED <<title, page, unsent>>

Type(p) ==
  /\ quill[p].focus
  /\ \E t \in Titles \ {quill[p].text} :
       /\ quill' = [quill EXCEPT ![p].text = t]
       /\ unsent' = [unsent EXCEPT ![p] = t]
  /\ UNCHANGED <<title, page, loop, push, happened>>

Leave(p) ==
  /\ quill[p].focus
  /\ Select(p, FALSE, "out", {})
  /\ UNCHANGED <<title, page, unsent, happened>>

\* titleOnEnter(): a push of its own, and the focus goes to the body.
Enter(p) ==
  /\ quill[p].focus
  /\ Select(p, FALSE, "out", {Pushed(p, page[p].num, "enter", quill[p].text)})
  /\ UNCHANGED <<title, page, unsent, happened>>

-----------------------------------------------------------------------------
(* TitleClient and PropertyClient *)

\* getUpdate(): the server has another title than the page asked with.
Tell(p, k) ==
  /\ loop[p][k].pc = "racing" /\ loop[p][k].told = NoTitle
  /\ title \notin {NoTitle, loop[p][k].asked}
  /\ loop' = [loop EXCEPT ![p][k].told = title]
  /\ UNCHANGED <<title, page, quill, push, unsent, happened>>

\* Mutant: it pushes the title that it has, and shows the other then.
AnswerSwapped(p, k) ==
  /\ loop[p][k].pc = "racing" /\ loop[p][k].told # NoTitle
  /\ quill' = [quill EXCEPT ![p].text = loop[p][k].told]
  /\ push' = push \cup {Pushed(p, k, "loop", quill[p].text)}
  /\ loop' = [loop EXCEPT ![p][k] = Pushing(<<>>)]
  /\ UNCHANGED <<title, page, unsent, happened>>

\* The answer arrives: the page shows the title, and pushes it.
Answer(p, k) ==
  /\ loop[p][k].pc = "racing" /\ loop[p][k].told # NoTitle
  /\ quill' = [quill EXCEPT ![p].text = loop[p][k].told]
  /\ push' = push \cup {Pushed(p, k, "loop", loop[p][k].told)}
  /\ loop' = [loop EXCEPT ![p][k] = Pushing(<<>>)]
  /\ UNCHANGED <<title, page, unsent, happened>>

\* set(): a snapshot first, ...
ReadToPush(x) ==
  /\ ~ x.read
  /\ push' = (push \ {x}) \cup {[x EXCEPT !.read = TRUE]}
  /\ UNCHANGED <<title, page, quill, loop, unsent, happened>>

\* A push is over; the loop that made it goes on, and may have to push again.
Ended(x, rest) ==
  LET p == x.page
      to == Top(quill[p], loop[p][x.num].events)
  IN IF x.by = "enter"
     THEN push' = rest /\ UNCHANGED loop
     ELSE /\ loop' = [loop EXCEPT ![p][x.num] = to]
          /\ push' = rest \cup (IF to.pc = "pushing"
                               THEN {Pushed(p, x.num, "loop", quill[p].text)} ELSE {})

Overtake(others) == {[y EXCEPT !.overtaken = y.read] : y \in others}

\* ... then the update.  If another has set the title since the snapshot,
\* nothing is left of this one when the server has rebased it.
Land(x) ==
  /\ x.read
  /\ IF x.overtaken
     THEN /\ Ended(x, push \ {x})
          /\ UNCHANGED <<title, unsent>>
     ELSE /\ title' = x.text
          /\ unsent' = [p \in Pages |->
               IF p = x.page /\ unsent[p] # x.text THEN unsent[p] ELSE NoTitle]
          /\ Ended(x, Overtake(push \ {x}))
  /\ UNCHANGED <<page, quill, happened>>

\* A call fails, and with it the loop that made it.
PushFails(x) ==
  /\ happened < MaxHappenings
  /\ push' = push \ {x}
  /\ loop' = IF x.by = "enter" THEN loop ELSE [loop EXCEPT ![x.page][x.num] = Dead]
  /\ happened' = happened + 1
  /\ UNCHANGED <<title, page, quill, unsent>>

UpdateFails(p, k) ==
  /\ loop[p][k].pc = "racing"
  /\ happened < MaxHappenings
  /\ loop' = [loop EXCEPT ![p][k] = Dead]
  /\ happened' = happened + 1
  /\ UNCHANGED <<title, page, quill, push, unsent>>

-----------------------------------------------------------------------------
Step(p) ==
  \/ Build(p) \/ Recover(p) \/ Halt(p)
  \/ \E k \in Nums : Tell(p, k) \/ Answer(p, k)
  \/ \E x \in push : x.page = p /\ (ReadToPush(x) \/ Land(x))

Next ==
  \/ \E p \in Pages :
       \/ Step(p) \/ GiveUp(p)
       \/ Focus(p) \/ Type(p) \/ Leave(p) \/ Enter(p)
       \/ \E k \in Nums : UpdateFails(p, k)
  \/ \E x \in push : PushFails(x)

Spec == Init /\ [][Next]_vars

\* Calls that loops have made are answered; users do as they like.
Fairness ==
  \A p \in Pages :
    /\ \A k \in Nums : WF_vars(Tell(p, k) \/ Answer(p, k))
    /\ \A by \in {"loop", "enter"}, k \in Nums :
         WF_vars(\E x \in push : /\ x.page = p /\ x.num = k /\ x.by = by
                                 /\ ReadToPush(x) \/ Land(x))

FairSpec == Spec /\ Fairness

-----------------------------------------------------------------------------
(* Properties *)

\* The page's last session still follows the title.
Follows(p) == page[p].num > 0 /\ Runs(loop[p][page[p].num])

\* Once nobody types any more, every page whose title client lives comes to
\* show the title that the server has, and stays so: though each page pushes
\* again what it is told, two of them do not chase each other for ever.  (With
\* the loop of an old session of one of the pages as a third, they may.)
Converges ==
  <>[]((\A p \in Pages : page[p].num = 1) =>
         \A p \in Pages :
           Follows(p) /\ ~ quill[p].focus /\ title # NoTitle => quill[p].text = title)

\* What a user has typed and left gets to the server.  (Not on a page that has
\* recovered: the loop of its old session pushes the text as well, and that of
\* the new one may be told an older title meanwhile and overtake it.)
TypedArrives ==
  \A p \in Pages :
    unsent[p] # NoTitle /\ ~ quill[p].focus /\ page[p].num = 1 ~>
      \/ unsent[p] = NoTitle \/ quill[p].focus
      \/ page[p].num # 1 \/ ~ Follows(p)

\* While the user is in the title, the text changes only as it is typed.
TypingUndisturbed ==
  [][\A p \in Pages :
       quill[p].focus /\ quill'[p].text # quill[p].text => unsent'[p] = quill'[p].text]_vars
=============================================================================
