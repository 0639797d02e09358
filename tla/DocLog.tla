------------------------------- MODULE DocLog -------------------------------
(***************************************************************************)
(* What a document's parts promise to the callers of update(), free of     *)
(* files, races and retries: each part is a log of changes with the        *)
(* contents they produce, and a call takes effect at one instant, at most  *)
(* once, between its beginning and its end.  BaseControl implements this.  *)
(***************************************************************************)
EXTENDS Naturals

CONSTANTS Parts, Calls, Contents, EmptyDelta, Compose(_, _),
          Rebase(_, _, _, _), Submittable(_, _), BadValue

VARIABLES
  revNum,     \* revNum[p]: the last revision of p
  changes,    \* changes[p]: who made each revision, and by what delta
  snapshots,  \* snapshots[p]: the contents at each revision
  asked,      \* asked[c]: the part and the change that c asks for
  status,     \* status[c]: how far c got
  answer      \* answer[c]: the revision and the correction c is answered with

vars == <<revNum, changes, snapshots, asked, status, answer>>

NoAnswer == [revNum |-> 0, delta |-> EmptyDelta]

\* A function made to yield v at x.
With(f, x, v) == [y \in DOMAIN f \cup {x} |-> IF y = x THEN v ELSE f[y]]

\* Contents composed with a delta, when that is valid.
NewContents(old, delta) ==
  IF old \in Contents /\ Compose(old, delta) \in Contents
  THEN Compose(old, delta)
  ELSE BadValue

\* The contents that the caller expects, were it alone.
Expected(c) ==
  NewContents(snapshots[asked[c].part][asked[c].change.revNum - 1],
              asked[c].change.delta)

\* What the change that c asks for becomes as revision r of its part.
RebasedDelta(c, r) ==
  LET p == asked[c].part
      sent == asked[c].change
  IN IF r = sent.revNum
     THEN sent.delta
     ELSE Rebase(sent.delta, Expected(c),
                 [i \in 1..(r - sent.revNum) |-> changes[p][sent.revNum + i - 1].delta],
                 snapshots[p][r - 1])

Init ==
  /\ \A p \in Parts : /\ revNum[p] \in Nat
                      /\ DOMAIN changes[p] = 0..revNum[p]
                      /\ DOMAIN snapshots[p] = 0..revNum[p]
  /\ \A c \in Calls : asked[c].part \in Parts
  /\ status = [c \in Calls |-> "idle"]
  /\ answer = [c \in Calls |-> NoAnswer]

\* A caller asks for a change to some revision of a part; one that does not
\* fit there is refused.
Open(c) ==
  LET p == asked[c].part
  IN /\ status[c] = "idle"
     /\ \E base \in 0..revNum[p] : \E delta \in Submittable(c, snapshots[p][base]) :
          /\ asked' = [asked EXCEPT ![c] =
                         [part |-> p, change |-> [revNum |-> base + 1, delta |-> delta]]]
          /\ status' = [status EXCEPT ![c] =
                          IF NewContents(snapshots[p][base], delta) = BadValue
                          THEN "gaveUp" ELSE "open"]
     /\ UNCHANGED <<revNum, changes, snapshots, answer>>

\* The change takes effect, rebased onto all that has come in since its base.
\* Unless it had to be rebased, that is also the answer.
Apply(c) ==
  LET p == asked[c].part
      r == revNum[p] + 1
      delta == RebasedDelta(c, r)
  IN /\ status[c] = "open"
     /\ delta # EmptyDelta
     /\ revNum' = [revNum EXCEPT ![p] = r]
     /\ changes' = [changes EXCEPT ![p] = With(@, r, [by |-> c, delta |-> delta])]
     /\ snapshots' = [snapshots EXCEPT
                       ![p] = With(@, r, NewContents(@[r - 1], delta))]
     /\ status' = [status EXCEPT ![c] =
                     IF r = asked[c].change.revNum THEN "done" ELSE "applied"]
     /\ answer' = [answer EXCEPT ![c] = [revNum |-> r, delta |-> EmptyDelta]]
     /\ UNCHANGED asked

\* The answer to a change that was rebased: a correction that leads from what
\* the caller expects to the contents of the revision.
Answer(c) ==
  LET r          == answer[c].revNum
      result     == snapshots[asked[c].part][r]
      correction == answer'[c].delta
  IN /\ status[c] = "applied"
     /\ result # BadValue
     /\ Compose(Expected(c), correction) = result
     /\ status' = [status EXCEPT ![c] = "done"]
     /\ answer' = [answer EXCEPT ![c] = [revNum |-> r, delta |-> correction]]
     /\ UNCHANGED <<revNum, changes, snapshots, asked>>

\* There is nothing left to do of a change: it is answered without effect.
Skip(c) ==
  LET r == revNum[asked[c].part]
  IN /\ status[c] = "open"
     /\ RebasedDelta(c, r + 1) = EmptyDelta
     /\ status' = [status EXCEPT ![c] = "done"]
     /\ answer' = [answer EXCEPT ![c] = [revNum |-> r, delta |-> EmptyDelta]]
     /\ UNCHANGED <<revNum, changes, snapshots, asked>>

\* An error is all the caller sees, whether the change took effect or not.
GiveUp(c) ==
  /\ status[c] \in {"open", "applied"}
  /\ status' = [status EXCEPT ![c] = "gaveUp"]
  /\ answer' = [answer EXCEPT ![c] = NoAnswer]
  /\ UNCHANGED <<revNum, changes, snapshots, asked>>

Next ==
  \E c \in Calls : Open(c) \/ Apply(c) \/ Answer(c) \/ Skip(c) \/ GiveUp(c)

Spec == Init /\ [][Next]_vars
=============================================================================
