---------------------------- MODULE MCBodyControl ----------------------------
(* BaseControl over body data, for TLC. *)
EXTENDS TLC, BaseControl, BodyDelta

CONSTANTS
  BootText,   \* the text that FileBootstrap writes as revision 1
  Typed,      \* Typed[c]: the string that the call c may insert
  c1, c2, c3, a, nl, x, y, z

Texts == {t \in UNION {[1..n -> Chars] : n \in 0..Cardinality(Chars)} : IsDocument(t) /\ \A i, j \in 1..Len(t) : i # j => t[i] # t[j]}

MCBootDelta == <<[len |-> 0, to |-> BootText]>>
MCBootContents == [r \in 0..1 |-> IF r = 0 THEN <<>> ELSE BootText]

Positions(from, to) == [i \in 1..(to + 1 - from) |-> from + i - 1]

\* Delete a stretch of the text, or nothing, and insert a string in its place.
\* No client has a base before the text that FileBootstrap wrote.
Edits(c, text) ==
  LET n == Len(text)
  IN {Chop(n, Positions(1, e[1] - 1) \o e[3] \o Positions(e[2], n)) :
        e \in {f \in (1..(n + 1)) \X (1..(n + 1)) \X {<<>>, Typed[c]} :
                text # <<>> /\ f[1] <= f[2]}}

\* The edits that leave the last newline alone, and last.
CarefulEdits(c, text) ==
  {d \in Edits(c, text) : LET s == Unchopped(d, Len(text))
                          IN s # <<>> /\ Last(s) = Len(text)}

\* The text to start from.
OneLine == <<a, nl>>

MCTyped == [c \in Calls |-> <<CASE c = c1 -> x [] c = c2 -> y [] OTHER -> z>>]

\* What the calls that were applied typed and deleted, and nothing else, is the
\* difference between the text of the last revision and the first one.
DeletedBy(c) ==
  LET text == snapshots[call[c].part][call[c].change.revNum - 1]
  IN {text[i] : i \in {j \in 1..Len(text) :
        ~ Retains(Unchopped(call[c].change.delta, Len(text)), j)}}

\* The text at the last revision has every character that an applied call
\* typed and none that one deleted, and is otherwise the first text: however
\* their edits were rebased, all editors get what they meant.
IntentionsPreserved ==
  \A p \in Parts :
    LET applied == {changes[p][r].by : r \in 2..revNum[p]}
        typed   == UNION {ToSet(call[c].change.delta.to) \cap Chars : c \in applied}
        deleted == UNION {DeletedBy(c) : c \in applied}
    IN ToSet(snapshots[p][revNum[p]]) =
         (ToSet(BootText) \cup typed) \ deleted
=============================================================================
