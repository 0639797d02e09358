---------------------------- MODULE FileAlgebra ----------------------------
(***************************************************************************)
(* The contents of a file as the file store knows them (file-store-ot, on  *)
(* the base classes of ot-common): snapshots that bind storage IDs to      *)
(* blobs, and deltas, which are sequences of ops over them.                *)
(*                                                                         *)
(* A path is the sequence of its components.  A blob is its own hash, and  *)
(* as a storage ID a hash is marked, so that it is not a path.             *)
(***************************************************************************)
EXTENDS Integers, Sequences, SequencesExt, FiniteSets, TLC

CONSTANT MaxIndex \* bound: indices of paths are below it

\* What stands for a result that the code does not return: it throws.
NotFile == <<[name |-> "thrown"]>>

-----------------------------------------------------------------------------
(* StoragePath, StorageId                                                  *)

Mark == "#"
HashOf(blob) == <<Mark, blob>>
IsPath(id) == id[1] # Mark
Indexed(path, n) == Append(path, ToString(n))

IsPathPrefix(prefix, path) ==
  Len(prefix) < Len(path) /\ SubSeq(path, 1, Len(prefix)) = prefix

IsPrefixOrSame(prefix, path) == IsPathPrefix(prefix, path) \/ prefix = path

\* From the topmost directory down, without the path itself.
AllPrefixes(path) == [n \in 1..(Len(path) - 1) |-> SubSeq(path, 1, n)]

\* A path that does not end in an index is an error.
IndexOfPath(path) ==
  IF \E n \in 0..(MaxIndex - 1) : Last(path) = ToString(n)
  THEN CHOOSE n \in 0..(MaxIndex - 1) : Last(path) = ToString(n)
  ELSE -1

-----------------------------------------------------------------------------
(* FileOp                                                                  *)

DeleteAll                     == [name |-> "deleteAll"]
DeleteBlob(blob)              == [name |-> "deleteBlob", id |-> HashOf(blob)]
DeletePath(path)              == [name |-> "deletePath", id |-> path]
DeletePathPrefix(path)        == [name |-> "deletePathPrefix", path |-> path]
DeletePathRange(path, from, to) ==
  [name |-> "deletePathRange", path |-> path, from |-> from, to |-> to]
WriteBlob(blob)               == [name |-> "writeBlob", id |-> HashOf(blob), blob |-> blob]
WritePath(path, blob)         == [name |-> "writePath", id |-> path, blob |-> blob]

IsWrite(op) == op.name \in {"writeBlob", "writePath"}
IsRemoval(op) == op.name \in {"deleteBlob", "deletePath"}

\* The paths that an op for a range names.
RangeIds(path, from, to) == {Indexed(path, n) : n \in from..(to - 1)}

\* Among ids, those that an op deletes although it does not name it alone.
Swept(op, ids) ==
  CASE op.name = "deleteAll"        -> ids
    [] op.name = "deletePathPrefix" -> {id \in ids : IsPath(id) /\ IsPrefixOrSame(op.path, id)}
    [] op.name = "deletePathRange"  -> ids \cap RangeIds(op.path, op.from, op.to)
    [] OTHER                        -> {}

-----------------------------------------------------------------------------
(* FileDelta.  A running composition is what the ops so far amount to: an  *)
(* op for each ID, and, unless the result is to be a document, the deletes *)
(* of many IDs in the order of their ops.                                  *)

Without(ops, ids) == [id \in DOMAIN ops \ ids |-> ops[id]]
Bound(ops, id, op) == [k \in DOMAIN ops \cup {id} |-> IF k = id THEN op ELSE ops[k]]

NothingComposed == [ops |-> [id \in {} |-> DeleteAll], deletes |-> <<>>]

\* A Set keeps the place of an op that it already has; ops that are equal but
\* not the same object are two elements, which makes no difference.
Added(deletes, op) == IF Contains(deletes, op) THEN deletes ELSE Append(deletes, op)

\* One op of _composeOne().
ComposeOp(trackDeletes, acc, op) ==
  IF IsWrite(op) \/ (trackDeletes /\ IsRemoval(op))
  THEN [acc EXCEPT !.ops = Bound(@, op.id, op)]
  ELSE IF IsRemoval(op) THEN [acc EXCEPT !.ops = Without(@, {op.id})]
  ELSE [ops     |-> Without(acc.ops, Swept(op, DOMAIN acc.ops)),
        deletes |-> IF ~ trackDeletes THEN <<>>
                    ELSE IF op.name = "deleteAll" THEN <<op>>
                    ELSE Added(acc.deletes, op)]

ComposeFileDelta(trackDeletes, acc, delta) ==
  FoldLeft(LAMBDA a, op : ComposeOp(trackDeletes, a, op), acc, delta)

\* Mutant: the deletes come after the ops for single IDs.
DeletesLast(acc) ==
  SetToSeq({acc.ops[id] : id \in DOMAIN acc.ops}) \o acc.deletes

\* The order of the ops for single IDs does not matter: the IDs differ.
ComposedDelta(acc) ==
  acc.deletes \o SetToSeq({acc.ops[id] : id \in DOMAIN acc.ops})

\* _impl_isDocument()
IsFileDocument(delta) ==
  /\ \A i \in DOMAIN delta : IsWrite(delta[i])
  /\ \A i, j \in DOMAIN delta : i # j => delta[i].id # delta[j].id

\* BaseDelta.composeAll(): a document only if it starts from one.
ComposeAllFiles(delta, deltas, wantDocument) ==
  LET Composed == ComposedDelta(FoldLeft(
        LAMBDA acc, d : ComposeFileDelta(~ wantDocument, acc, d),
        NothingComposed, <<delta>> \o deltas))
  IN IF wantDocument /\ ~ IsFileDocument(delta) THEN NotFile
     ELSE IF deltas = <<>> THEN delta
     ELSE IF wantDocument /\ ~ IsFileDocument(Composed) THEN NotFile
     ELSE Composed

ComposeFiles(delta, other, wantDocument) ==
  ComposeAllFiles(delta, <<other>>, wantDocument)

-----------------------------------------------------------------------------
(* FileSnapshot, BaseSnapshot                                              *)

\* The constructor: what a document binds.
FileSnapshot(revNum, contents) ==
  IF ~ IsFileDocument(contents) THEN NotFile
  ELSE [revNum |-> revNum, contents |-> contents,
        values |-> [id \in {contents[i].id : i \in DOMAIN contents} |->
                      contents[CHOOSE i \in DOMAIN contents : contents[i].id = id].blob]]

\* No blob: null.
NoBlob == "null"
GetOrNull(snapshot, id) ==
  IF id \in DOMAIN snapshot.values THEN snapshot.values[id] ELSE NoBlob

SnapshotsEqual(one, two) == one.revNum = two.revNum /\ one.values = two.values

GetPathPrefix(snapshot, prefix) ==
  LET under == {id \in DOMAIN snapshot.values : IsPath(id) /\ IsPrefixOrSame(prefix, id)}
  IN [id \in under |-> snapshot.values[id]]

GetPathRange(snapshot, prefix, from, to) ==
  LET within == {id \in RangeIds(prefix, from, to) : GetOrNull(snapshot, id) # NoBlob}
  IN [id \in within |-> GetOrNull(snapshot, id)]

CheckPathIs(snapshot, path, hash)  == GetOrNull(snapshot, path) = hash
CheckPathAbsent(snapshot, path)    == GetOrNull(snapshot, path) = NoBlob
CheckPathPresent(snapshot, path)   == GetOrNull(snapshot, path) # NoBlob
CheckPathIsNot(snapshot, path, hash) ==
  GetOrNull(snapshot, path) = NoBlob \/ GetOrNull(snapshot, path) # hash

OpFor(values, id) == IF IsPath(id) THEN WritePath(id, values[id]) ELSE WriteBlob(values[id])

\* _impl_diffAsDelta(): write what is new or other, delete what is gone.
DiffFiles(old, new) ==
  LET changed == {id \in DOMAIN new.values : GetOrNull(old, id) # new.values[id]}
      lost    == DOMAIN old.values \ DOMAIN new.values
  IN SetToSeq({OpFor(new.values, id) : id \in changed})
       \o SetToSeq({[name |-> IF IsPath(id) THEN "deletePath" ELSE "deleteBlob", id |-> id]
                      : id \in lost})

\* diff(): equal documents need no look at what they bind.
SnapshotDiff(old, new) ==
  [revNum |-> new.revNum,
   delta  |-> IF old.contents = new.contents THEN <<>> ELSE DiffFiles(old, new)]

\* BaseSnapshot.compose()
SnapshotCompose(snapshot, change) ==
  IF change.delta = <<>> THEN [snapshot EXCEPT !.revNum = change.revNum]
  ELSE FileSnapshot(change.revNum, ComposeFiles(snapshot.contents, change.delta, TRUE))

\* The deltas in chunks of size, the last of which may be shorter.
Chunks(changes, size) ==
  [k \in 1..((Len(changes) + size - 1) \div size) |->
     LET from == (k - 1) * size
         left == Len(changes) - from
     IN [j \in 1..(IF left < size THEN left ELSE size) |-> changes[from + j].delta]]

\* BaseSnapshot.composeAll(), which yields between chunks.
SnapshotComposeAll(snapshot, changes, maxChangesPerIteration) ==
  IF changes = <<>> THEN snapshot
  ELSE LET contents == FoldLeft(
             LAMBDA c, chunk : ComposeAllFiles(c, chunk, TRUE),
             snapshot.contents, Chunks(changes, maxChangesPerIteration))
       IN FileSnapshot(Last(changes).revNum, contents)
============================================================================
