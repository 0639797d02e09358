------------------------------ MODULE BodyDelta ------------------------------
(***************************************************************************)
(* The data of the body part: text, without attributes or embeds.          *)
(* doc-common/BodyDelta.js leaves compose, diff and transform to the       *)
(* quill-delta library, which is modelled here by what it does, and adds   *)
(* the rule that a document is empty or ends with a newline.               *)
(*                                                                         *)
(* A delta over a text of len characters is written as the sequence `to'   *)
(* that it turns it into: a number stands for the character retained from  *)
(* that position, a character for an insertion, and the positions that do  *)
(* not occur are deleted.  Positions after len are retained, as in Quill   *)
(* a trailing retain is implicit.                                          *)
(***************************************************************************)
EXTENDS Naturals, Sequences, SequencesExt

CONSTANTS Chars, Newlines

ASSUME NewlinesAssumption == Newlines \subseteq Chars

\* A character cannot be mistaken for a position.
ASSUME CharsAssumption == \A c \in Chars : c \notin Nat

Larger(m, n) == IF m > n THEN m ELSE n

\* isDocument()
IsDocument(text) == text = <<>> \/ Last(text) \in Newlines

\* Delta.chop(): leave out the trailing retain, so that equal deltas are
\* written equally.
Chop(len, to) ==
  LET tail(k) == /\ k <= Len(to)
                 /\ \A i \in 0..(k - 1) : to[Len(to) - i] = len - i
      k == CHOOSE n \in 0..len : tail(n) /\ ~ (n < len /\ tail(n + 1))
  IN [len |-> len - k, to |-> SubSeq(to, 1, Len(to) - k)]

EmptyBodyDelta == [len |-> 0, to |-> <<>>]

\* The delta over a text of at least n characters, trailing retain included.
Unchopped(d, n) == d.to \o [i \in 1..(n - d.len) |-> d.len + i]

\* t seen through s: what the positions in t refer to in s.
Substitute(s, t) == [k \in 1..Len(t) |-> IF t[k] \in Chars THEN t[k] ELSE s[t[k]]]

\* compose() of a document and a delta.  A delta too long for the document
\* leaves a retain or a delete behind, which no document holds.
ComposeBody(text, d) ==
  IF d.len <= Len(text)
  THEN Substitute(text, Unchopped(d, Len(text)))
  ELSE <<d>>

\* compose() of two deltas.
ComposeDeltas(a, b) ==
  LET n == a.len + (Larger(b.len, Len(a.to)) - Len(a.to))
      s == Unchopped(a, n)
  IN Chop(n, Substitute(s, Unchopped(b, Len(s))))

\* diff() of two documents: keep what they start and end with.
DiffBody(old, new) ==
  LET shared(m, n) == /\ SubSeq(old, 1, m) = SubSeq(new, 1, m)
                      /\ SubSeq(old, Len(old) - n + 1, Len(old)) =
                           SubSeq(new, Len(new) - n + 1, Len(new))
      most == Larger(0, IF Len(old) < Len(new) THEN Len(old) ELSE Len(new))
      m == CHOOSE i \in 0..most : shared(i, 0) /\ ~ (i < most /\ shared(i + 1, 0))
      n == CHOOSE i \in 0..(most - m) :
             shared(m, i) /\ ~ (i < most - m /\ shared(m, i + 1))
  IN Chop(Len(old), [i \in 1..m |-> i] \o SubSeq(new, m + 1, Len(new) - n)
                      \o [i \in 1..n |-> Len(old) - n + i])

\* Where position i is retained in s; 0, the start, always is.
IndexIn(s, i) == IF i = 0 THEN 0 ELSE CHOOSE k \in 1..Len(s) : s[k] = i

Retains(s, i) == i = 0 \/ \E k \in 1..Len(s) : s[k] = i

\* The indices of the insertions in s that directly follow position i.
InsertionsAfter(s, i) ==
  IF ~ Retains(s, i) THEN <<>>
  ELSE LET from == IndexIn(s, i) + 1
           past == CHOOSE k \in from..(Len(s) + 1) :
                     /\ k = Len(s) + 1 \/ s[k] \notin Chars
                     /\ \A j \in from..(k - 1) : s[j] \in Chars
       IN [k \in 1..(past - from) |-> from + k - 1]

\* this.transform(other, thisIsFirst): what is left of `other' to do to a text
\* that `this' has already changed.  At the same place, the insertion of the
\* first comes first; what `this' deleted is not deleted again.
TransformAs(this, other, thisIsFirst) ==
  LET n == Larger(this.len, other.len)
      s == Unchopped(this, n)
      t == Unchopped(other, n)
      there(i) == InsertionsAfter(s, i)
      added(i) == [k \in 1..Len(InsertionsAfter(t, i)) |-> t[InsertionsAfter(t, i)[k]]]
      kept(i) == IF i < n /\ Retains(s, i + 1) /\ Retains(t, i + 1)
                 THEN <<IndexIn(s, i + 1)>> ELSE <<>>
  IN Chop(Len(s), FlattenSeq([g \in 1..(n + 1) |->
            IF thisIsFirst
            THEN there(g - 1) \o added(g - 1) \o kept(g - 1)
            ELSE added(g - 1) \o there(g - 1) \o kept(g - 1)]))

Transform(first, other) == TransformAs(first, other, TRUE)

\* Mutant: the change is appended as it was sent.
KeepDelta(delta, expected, serverDeltas, current) == delta

\* Mutant: the two sides of the transformation are exchanged.
RebaseServer(delta, expected, serverDeltas, current) ==
  Transform(delta, FoldLeft(ComposeDeltas, EmptyBodyDelta, serverDeltas))

\* BodyControl._impl_rebase(): transform with regard to the composition of the
\* server's deltas, which are taken to have been applied first.
RebaseBody(delta, expected, serverDeltas, current) ==
  Transform(FoldLeft(ComposeDeltas, EmptyBodyDelta, serverDeltas), delta)
=============================================================================
