----------------------------- MODULE CaretColor -----------------------------
(***************************************************************************)
(* How the server picks the color of a new caret (doc-server/CaretColor.js *)
(* colorForCaret()): it may not coordinate with other servers, so it takes *)
(* one of the hues that are far from those in use, by a hash of the ID.    *)
(* Colors are their hues; what other carets have is a set of hues.         *)
(***************************************************************************)
EXTENDS Integers, FiniteSets, Sequences

CONSTANTS
  Circle,            \* 360
  InitialCandidates, \* 36
  TopCandidates      \* 8

ASSUME CircleAssumption ==
  /\ InitialCandidates \in Nat \ {0} /\ Circle % InitialCandidates = 0
  /\ TopCandidates \in 1..InitialCandidates

Hues == 0..(Circle - 1)
Stride == Circle \div InitialCandidates

Sorted(used) ==
  [i \in 1..Cardinality(used) |->
     CHOOSE hue \in used : Cardinality({h \in used : h < hue}) = i - 1]

\* Mutant: the last hue is not repeated in front.
UsedHuesOpen(used) ==
  LET sorted == Sorted(used)
  IN <<-Circle>> \o sorted \o <<Head(sorted) + Circle>>

\* The hues in use in order, with the last one before and the first one after.
UsedHues(used) ==
  LET sorted == Sorted(used)
  IN <<sorted[Len(sorted)] - Circle>> \o sorted \o <<Head(sorted) + Circle>>

Candidates(seed) == {hue \in Hues : hue % Stride = seed % Stride}

\* Candidates come in order, so that what was shifted away for one of them is
\* of no use to the next: what is left of `hues' begins with its neighbours.
DistanceIn(hues, hue) ==
  LET left  == CHOOSE i \in 1..(Len(hues) - 1) :
                 hue <= hues[i + 1] /\ \A j \in 1..(i - 1) : hue > hues[j + 1]
      below == hue - hues[left]
      above == hues[left + 1] - hue
  IN IF below < above THEN below ELSE above

\* What may be at index seed % TopCandidates, with the most distant one first:
\* nothing says in which order the sort leaves those with equal distances.
ColorsForCaret(seed, used) ==
  LET hues == UsedHues(used)
      distance == [hue \in Candidates(seed) |-> DistanceIn(hues, hue)]
      Farther(hue) == {h \in Candidates(seed) : distance[h] > distance[hue]}
      AsFar(hue)   == {h \in Candidates(seed) : distance[h] >= distance[hue]}
      index == seed % TopCandidates
  IN IF used = {} THEN {seed % Circle}
     ELSE {hue \in Candidates(seed) :
             Cardinality(Farther(hue)) <= index /\ index < Cardinality(AsFar(hue))}

=============================================================================
