----------------------------- MODULE CaretDelta -----------------------------
(***************************************************************************)
(* The data of the caret part (doc-common/CaretDelta.js, CaretSnapshot.js, *)
(* Caret.js, CaretOp.js).                                                  *)
(*                                                                         *)
(* Contents map the IDs of some carets to carets, and a caret maps every   *)
(* field to a value.  A delta maps IDs to what becomes of the caret:       *)
(* composing and diffing leave one entry for an ID, whatever the ops were. *)
(***************************************************************************)
EXTENDS Naturals, Sequences, SequencesExt

CONSTANTS
  Ids,       \* IDs of carets
  Fields,    \* names of the fields of a caret
  FieldValues,
  NotCarets  \* what stands for a delta that is not a document

ASSUME NotCaretsAssumption == NotCarets \notin UNION {[D -> [Fields -> FieldValues]] : D \in SUBSET Ids}

Carets == [Fields -> FieldValues]
CaretContents == UNION {[D -> Carets] : D \in SUBSET Ids}
NoCarets == [id \in {} |-> NotCarets]

PartialCarets == UNION {[F -> FieldValues] : F \in SUBSET Fields}

\* The ops: an added caret has all fields, a deleted one none.
Add(caret)  == [op |-> "add", fields |-> caret]
Delete      == [op |-> "delete", fields |-> [f \in {} |-> NotCarets]]
Set(fields) == [op |-> "setField", fields |-> fields]

CaretOps ==
  {Add(caret) : caret \in Carets} \cup {Delete} \cup {Set(fields) : fields \in PartialCarets}

CaretDeltas == UNION {[D -> CaretOps] : D \in SUBSET Ids}

\* f with the values of g where g has one.
Updated(f, g) ==
  [k \in DOMAIN f \cup DOMAIN g |-> IF k \in DOMAIN g THEN g[k] ELSE f[k]]

\* What op followed by later amounts to, for one caret: adding and deleting
\* make what was before irrelevant, and a deleted caret takes no values.
Then(op, later) ==
  IF later.op # "setField" THEN later
  ELSE IF op.op = "delete" THEN op
  ELSE [op |-> op.op, fields |-> Updated(op.fields, later.fields)]

\* _impl_compose() of two deltas when no document is wanted.
ComposeCaretDeltas(delta, later) ==
  [id \in DOMAIN delta \cup DOMAIN later |->
     IF id \notin DOMAIN later THEN delta[id]
     ELSE IF id \notin DOMAIN delta THEN later[id]
     ELSE Then(delta[id], later[id])]

\* Setting a field of a caret that is not there leaves a delta that is not a
\* document: composing throws.
Applicable(contents, delta) ==
  \A id \in DOMAIN delta : delta[id].op = "setField" => id \in DOMAIN contents

Deleted(delta) == {id \in DOMAIN delta : delta[id].op = "delete"}

\* _impl_compose() of a document and a delta when a document is wanted.
ComposeCarets(contents, delta) ==
  IF contents = NotCarets \/ ~ Applicable(contents, delta)
  THEN NotCarets
  ELSE [id \in (DOMAIN contents \cup DOMAIN delta) \ Deleted(delta) |->
          IF id \notin DOMAIN delta THEN contents[id]
          ELSE IF delta[id].op = "add" THEN delta[id].fields
          ELSE Updated(contents[id], delta[id].fields)]

\* Caret.diff(): the fields that differ.
DiffFields(old, new) == [f \in {f \in Fields : old[f] # new[f]} |-> new[f]]

\* CaretSnapshot._impl_diffAsDelta(): new carets, changed fields, lost carets.
DiffCarets(old, new) ==
  LET changed == {id \in DOMAIN old \cap DOMAIN new : old[id] # new[id]}
  IN [id \in changed \cup (DOMAIN new \ DOMAIN old) \cup (DOMAIN old \ DOMAIN new) |->
        IF id \in changed THEN Set(DiffFields(old[id], new[id]))
        ELSE IF id \in DOMAIN new THEN Add(new[id])
        ELSE Delete]

\* composeAll() of a document, and of EMPTY when no document is wanted.
ComposeAllCarets(contents, deltas) == FoldLeft(ComposeCarets, contents, deltas)
ComposeAllDeltas(deltas) == FoldLeft(ComposeCaretDeltas, NoCarets, deltas)

\* CaretControl._impl_rebase(): compose the server's deltas on top of the
\* expected contents, then diff from the current ones; composing may throw.
RebaseCarets(expected, serverDeltas, current) ==
  LET final == ComposeAllCarets(expected, serverDeltas)
  IN IF final = NotCarets THEN NotCarets ELSE DiffCarets(current, final)
=============================================================================
