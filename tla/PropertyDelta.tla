---------------------------- MODULE PropertyDelta ----------------------------
(***************************************************************************)
(* The data of the property part (doc-common/PropertyDelta.js,             *)
(* PropertySnapshot.js) and its rebase (doc-server/PropertyControl.js).    *)
(* Contents map some of the names to values.  A delta maps names to        *)
(* values to set, or to Deleted; its empty case sets nothing.              *)
(***************************************************************************)
EXTENDS Naturals, Sequences, SequencesExt

CONSTANTS Names, Values, Deleted

PropertyContents == UNION {[N -> Values] : N \in SUBSET Names}

PropertyDeltas == UNION {[N -> Values \cup {Deleted}] : N \in SUBSET Names}

NoProperties == [n \in {} |-> Deleted]

\* _impl_compose() with wantDocument: later ops win, deletions disappear.
ComposeProperties(contents, delta) ==
  LET gone == {n \in DOMAIN delta : delta[n] = Deleted}
  IN [n \in (DOMAIN contents \cup DOMAIN delta) \ gone |->
        IF n \in DOMAIN delta THEN delta[n] ELSE contents[n]]

\* _impl_diffAsDelta(): set what is new or different, delete what is gone.
DiffProperties(old, new) ==
  LET changed == {n \in DOMAIN new : n \notin DOMAIN old \/ old[n] # new[n]}
  IN [n \in changed \cup (DOMAIN old \ DOMAIN new) |->
        IF n \in DOMAIN new THEN new[n] ELSE Deleted]

\* PropertyControl._impl_rebase(): compose the server's deltas on top of the
\* expected contents, then diff from the current ones.
RebaseProperties(delta, expected, serverDeltas, current) ==
  DiffProperties(current, FoldLeft(ComposeProperties, expected, serverDeltas))
=============================================================================
