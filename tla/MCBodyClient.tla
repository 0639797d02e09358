---------------------------- MODULE MCBodyClient ----------------------------
(* BodyClient over short texts, for TLC. *)
EXTENDS TLC, BodyClient

CONSTANTS
  UserChars, OthersChars,   \* what the user and the others type, each once
  OthersDelete,             \* whether the others delete, too
  a, nl, x, y, z, w

OneLine == <<a, nl>>
EmptyLine == <<nl>>

Positions(from, to) == [i \in 1..(to + 1 - from) |-> from + i - 1]

\* Insert one of some characters, that the text must not have yet, anywhere
\* but after its last newline.
Insertions(text, chars) ==
  LET n == Len(text)
  IN {Chop(n, Positions(1, at) \o <<c>> \o Positions(at + 1, n)) :
        at \in 0..(n - 1), c \in chars \ ToSet(text)}

\* Delete one character, but not the last newline.
Deletions(text) ==
  LET n == Len(text)
  IN {Chop(n, Positions(1, at - 1) \o Positions(at + 1, n)) : at \in 1..(n - 1)}

MCUserEdits(text) == Insertions(text, UserChars) \cup Deletions(text)
MCOthersEdits(text) ==
  Insertions(text, OthersChars) \cup (IF OthersDelete THEN Deletions(text) ELSE {})

Symmetry == Permutations(UserChars) \cup Permutations(OthersChars)
=============================================================================
