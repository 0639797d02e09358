----------------------------- MODULE EventChain -----------------------------
(***************************************************************************)
(* EventSource and ChainedEvent of promise-util: events are chained to the *)
(* next one as they are emitted, and whoever has one event can follow the  *)
(* chain from there, by a name, at its own pace.  Chains may get another   *)
(* head.  (The Node-style emitter of a source is not modelled.)            *)
(***************************************************************************)
EXTENDS Integers, SequencesExt

CONSTANTS
  Names,
  Followers,
  MaxEvents    \* bound: events made

None == 0

VARIABLES
  payload,   \* the names of the events that have been made, the stub first
  nextNow,   \* event -> the one after it, or None
  current,   \* the event emitted last
  copying,   \* events whose next one is to become that of another, too
  follower   \* where each follower is, what it looks for, what it has seen

vars == <<payload, nextNow, current, copying, follower>>

Events == 1..Len(payload)
Idle == [at |-> None]

Init ==
  /\ payload = <<"chain_head">>
  /\ nextNow = <<None>>
  /\ current = 1
  /\ copying = {}
  /\ follower = [f \in Followers |-> Idle]

Made(name, next) ==
  /\ Len(payload) < MaxEvents
  /\ payload' = Append(payload, name)
  /\ nextNow' = Append(nextNow, next)

\* EventSource.emit(): _resolveNext() of the current event
Emit(name) ==
  /\ Len(payload) < MaxEvents
  /\ payload' = Append(payload, name)
  /\ nextNow' = Append([nextNow EXCEPT ![current] = Len(payload) + 1], None)
  /\ current' = Len(payload) + 1
  /\ UNCHANGED <<copying, follower>>

\* withNewPayload(): the chain of an event, but with another head
WithNewPayload(e, name) ==
  /\ Made(name, nextNow[e])
  /\ copying' = IF nextNow[e] # None THEN copying
                ELSE copying \cup {[from |-> e, to |-> Len(payload) + 1]}
  /\ UNCHANGED <<current, follower>>

Copy(c) ==
  /\ nextNow[c.from] # None
  /\ nextNow' = [nextNow EXCEPT ![c.to] = nextNow[c.from]]
  /\ copying' = copying \ {c}
  /\ UNCHANGED <<payload, current, follower>>

\* withPushedHead()
WithPushedHead(e, name) ==
  /\ Made(name, e)
  /\ UNCHANGED <<current, copying, follower>>

\* currentEvent, or another event that somebody has: somebody begins to
\* follow the chain after it.
Follow(f, e, name) ==
  /\ follower[f] = Idle
  /\ follower' = [follower EXCEPT
       ![f] = [at |-> e, began |-> e, name |-> name, seen |-> <<>>]]
  /\ UNCHANGED <<payload, nextNow, current, copying>>

EarliestOfNow(event, name) ==
  LET earliest[e \in Events \cup {None}] ==
        IF e = None \/ payload[e] = name THEN e ELSE earliest[nextNow[e]]
  IN earliest[event]

LatestOfNow(event, name) ==
  LET latest[e \in Events \cup {None}] ==
        IF e = None THEN None
        ELSE IF latest[nextNow[e]] # None THEN latest[nextNow[e]]
        ELSE IF payload[e] = name THEN e ELSE None
  IN latest[event]

\* Mutant: a follower that is behind skips to the latest event.
SeeLatest(f) ==
  LET at == follower[f].at IN
  /\ at # None /\ nextNow[at] # None
  /\ LET found == LatestOfNow(nextNow[at], follower[f].name) IN
     follower' = [follower EXCEPT
       ![f] = IF found = None THEN [@ EXCEPT !.at = nextNow[at]]
              ELSE [@ EXCEPT !.at = found, !.seen = Append(@, found)]]
  /\ UNCHANGED <<payload, nextNow, current, copying>>

\* nextOf(), again and again: await the next event; if neither it nor what
\* follows it now has the name, await the one after it.
See(f) ==
  LET at == follower[f].at IN
  /\ at # None /\ nextNow[at] # None
  /\ LET found == EarliestOfNow(nextNow[at], follower[f].name) IN
     follower' = [follower EXCEPT
       ![f] = IF found = None THEN [@ EXCEPT !.at = nextNow[at]]
              ELSE [@ EXCEPT !.at = found, !.seen = Append(@, found)]]
  /\ UNCHANGED <<payload, nextNow, current, copying>>

Next ==
  \/ \E name \in Names :
       \/ Emit(name)
       \/ \E e \in Events : WithNewPayload(e, name) \/ WithPushedHead(e, name)
       \/ \E f \in Followers, e \in Events : Follow(f, e, name)
  \/ \E c \in copying : Copy(c)
  \/ \E f \in Followers : See(f)

Spec == Init /\ [][Next]_vars

Fairness ==
  /\ WF_vars(\E c \in copying : Copy(c))
  /\ \A f \in Followers : WF_vars(See(f))

FairSpec == Spec /\ Fairness

-----------------------------------------------------------------------------
After(event) ==
  LET after[e \in Events \cup {None}] ==
        IF e = None THEN <<>>
        ELSE IF nextNow[e] = None THEN <<>>
        ELSE <<nextNow[e]>> \o after[nextNow[e]]
  IN after[event]

Due(f) == SelectSeq(After(follower[f].began),
                    LAMBDA e : payload[e] = follower[f].name)

\* Whoever follows a chain sees every event of the name that comes after the
\* one it began with, once, and in the order in which they were emitted,
\* whatever it began with and however late it looks; and every chain, with
\* whatever head, comes to the current event.
FollowersMissNothing ==
  /\ [](\A f \in Followers : follower[f] # Idle => IsPrefix(follower[f].seen, Due(f)))
  /\ <>[](\A f \in Followers : follower[f] # Idle =>
             /\ follower[f].seen = Due(f)
             /\ follower[f].began = current \/ Contains(After(follower[f].began), current)
             \/ copying # {})
=============================================================================
