-------------------------------- MODULE DocOps --------------------------------
(***************************************************************************)
(* The operations that deltas are made of, in their order, and the         *)
(* snapshots that look at them by key (doc-common/): the ops of a body and *)
(* their Quill form, quill-util/QuillEvents.js, and the ops of carets and  *)
(* properties, which BodyDelta.tla, CaretDelta.tla and PropertyDelta.tla   *)
(* know only by what they amount to.                                       *)
(***************************************************************************)
EXTENDS Integers, Sequences, SequencesExt, FiniteSets, FiniteSetsExt, Functions

Thrown(by) == [thrown |-> by]
IsThrown(v) == DOMAIN v = {"thrown"}
BadValue == Thrown("badValue")
BadUse == Thrown("badUse")
BadData == Thrown("badData")
TypeError == Thrown("TypeError")

-----------------------------------------------------------------------------
(* JavaScript values, as far as the ops of a body look at them             *)

Null == [is |-> "null"]
Undefined == [is |-> "undefined"]
String(text) == [is |-> "string", text |-> text]
Number(n) == [is |-> "number", n |-> n]
Plain(entries) == [is |-> "plain", entries |-> entries]
IsPlain(v) == v.is = "plain"

\* A text is a sequence of graphemes: most are one code unit, some are two.
NL == "newline"
Emoji == "emoji"
Units(text) == Len(text) + Len(SelectSeq(text, LAMBDA g : g = Emoji))

-----------------------------------------------------------------------------
(* BodyOp                                                                  *)

\* _attributesArg(): no argument at all for null
AttributesArg(v) ==
  IF v = Null THEN [k \in {} |-> v]
  ELSE IF IsPlain(v) THEN [k \in {"attributes"} |-> v]
  ELSE BadValue

NewBodyOp(name, args, attributes) ==
  LET arg == AttributesArg(attributes)
  IN IF IsThrown(arg) THEN arg
     ELSE [name |-> name,
           args |-> [k \in DOMAIN args \cup DOMAIN arg |->
                       IF k \in DOMAIN args THEN args[k] ELSE arg[k]]]

OpDelete(count) ==
  IF count.is = "number" /\ count.n >= 1 THEN NewBodyOp("delete", [count |-> count], Null)
  ELSE BadValue
OpRetain(count, attributes) ==
  IF count.is = "number" /\ count.n >= 1
  THEN NewBodyOp("retain", [count |-> count], attributes)
  ELSE BadValue
OpText(text, attributes) ==
  IF text.is = "string" /\ text.text # <<>>
  THEN NewBodyOp("text", [text |-> text], attributes)
  ELSE BadValue
OpEmbed(type, value, attributes) ==
  NewBodyOp("embed", [type |-> type, value |-> value], attributes)

\* props: attributes that are not there are null.
BodyProps(op) ==
  IF op.name = "delete" \/ "attributes" \in DOMAIN op.args THEN op.args
  ELSE [k \in DOMAIN op.args \cup {"attributes"} |->
          IF k = "attributes" THEN Null ELSE op.args[k]]

IsInsert(op) == op.name \in {"text", "embed"}

\* getLength(): graphemes, and one for an embed
GetLength(op, textOnly) ==
  CASE op.name = "text"  -> Len(op.args.text.text)
    [] op.name = "embed" -> IF textOnly THEN 0 ELSE 1
    [] OTHER -> 0

\* What a destructuring finds: undefined takes the default.
Property(v, name) == IF name \in DOMAIN v.entries THEN v.entries[name] ELSE Undefined

FromQuillForm(q) ==
  IF ~ IsPlain(q) THEN BadValue
  ELSE
    LET given == Property(q, "attributes")
        attributes == IF given = Undefined THEN Null ELSE given
        insert == Property(q, "insert")
        del    == Property(q, "delete")
        retain == Property(q, "retain")
    IN IF Cardinality(DOMAIN q.entries) # (IF attributes = Null THEN 1 ELSE 2) THEN BadValue
       ELSE IF insert # Undefined
            THEN CASE insert.is = "string" -> OpText(insert, attributes)
                   [] IsPlain(insert) ->
                        LET keys == DOMAIN insert.entries
                        IN IF keys = {} THEN TypeError
                           ELSE IF Cardinality(keys) > 1 THEN BadValue
                           ELSE LET key == CHOOSE k \in keys : TRUE
                                IN OpEmbed(key, insert.entries[key], attributes)
                   [] OTHER -> BadValue
       ELSE IF del # Undefined
            THEN IF attributes # Null THEN BadValue ELSE OpDelete(del)
       ELSE IF retain # Undefined THEN OpRetain(retain, attributes)
       ELSE BadValue

ToQuillForm(op) ==
  LET props == BodyProps(op)
      key   == CASE IsInsert(op) -> "insert" [] OTHER -> op.name
      value == CASE op.name = "text"  -> props.text
                 [] op.name = "embed" -> Plain([k \in {props.type} |-> props.value])
                 [] OTHER -> props.count
      bare  == op.name = "delete" \/ props.attributes = Null
  IN Plain([k \in {key} \cup (IF bare THEN {} ELSE {"attributes"}) |->
              IF k = key THEN value ELSE props.attributes])

-----------------------------------------------------------------------------
(* BodyDelta, BodySnapshot                                                 *)

FirstThrown(values) == values[CHOOSE i \in DOMAIN values :
                         IsThrown(values[i]) /\ \A j \in 1..(i - 1) : ~ IsThrown(values[j])]

\* fromQuillForm(), and whose Delta it is
DeltaFromQuillForm(given) ==
  CASE given.class \in {"Array", "ours"} ->
         LET ops == [i \in DOMAIN given.ops |-> FromQuillForm(given.ops[i])]
         IN IF \E i \in DOMAIN ops : IsThrown(ops[i]) THEN FirstThrown(ops)
            ELSE [ops |-> ops]
    [] given.class = "another Delta" -> BadUse
    [] given.class = "null" -> TypeError
    [] OTHER -> BadValue

DeltaToQuillForm(delta) ==
  [class |-> "ours", ops |-> [i \in DOMAIN delta.ops |-> ToQuillForm(delta.ops[i])]]

IsBodyDocument(delta) ==
  delta.ops = <<>>
    \/ /\ Last(delta.ops).name = "text" /\ Last(Last(delta.ops).args.text.text) = NL
       /\ \A i \in DOMAIN delta.ops : IsInsert(delta.ops[i])

LengthOf(delta) == FoldLeft(LAMBDA sum, op : sum + GetLength(op, FALSE), 0, delta.ops)

\* validateChange(): each retain by itself, against the graphemes of the body
ValidateChange(contents, delta) ==
  \A i \in DOMAIN delta.ops :
    delta.ops[i].name = "retain" => delta.ops[i].args.count.n <= LengthOf(contents)

-----------------------------------------------------------------------------
(* QuillEvents                                                             *)

CheckAndFreezeRange(range) ==
  IF range = Null THEN Null
  ELSE IF ~ {"index", "length"} \subseteq DOMAIN range.entries THEN BadUse
  ELSE [range EXCEPT !.entries = Restrict(@, {"index", "length"})]

FixPayload(payload) ==
  CASE payload.name = "text-change" ->
         LET delta == DeltaFromQuillForm(payload.args[1])
             old   == DeltaFromQuillForm(payload.args[2])
         IN IF IsThrown(delta) THEN delta ELSE IF IsThrown(old) THEN old
            ELSE [payload EXCEPT !.args = <<delta, old, payload.args[3]>>]
    [] payload.name = "selection-change" ->
         LET range == CheckAndFreezeRange(payload.args[1])
             old   == CheckAndFreezeRange(payload.args[2])
         IN IF IsThrown(range) THEN range ELSE IF IsThrown(old) THEN old
            ELSE [payload EXCEPT !.args = <<range, old, payload.args[3]>>]
    [] OTHER -> BadValue

PropsOf(payload) ==
  CASE payload.name = "text-change" ->
         [name |-> payload.name, delta |-> payload.args[1], oldContents |-> payload.args[2],
          source |-> payload.args[3]]
    [] payload.name = "selection-change" ->
         [name |-> payload.name, range |-> payload.args[1], oldRange |-> payload.args[2],
          source |-> payload.args[3]]
    [] OTHER -> BadValue

-----------------------------------------------------------------------------
(* Carets and properties.  An op is about one ID, or name: "set" makes it  *)
(* what `value' is (add of a caret, set of a property), "delete" removes   *)
(* it, "setField" is for carets only, whose value is a function of fields. *)
(* A delta is the sequence of its ops.                                     *)

OpSet(id, value) == [op |-> "set", id |-> id, value |-> value]
OpRemove(id) == [op |-> "delete", id |-> id]
OpSetField(id, key, value) == [op |-> "setField", id |-> id, key |-> key, value |-> value]

IsKeyedDocument(ops) ==
  /\ \A i \in DOMAIN ops : ops[i].op = "set"
  /\ \A i, j \in DOMAIN ops : ops[i].id = ops[j].id => i = j

\* Caret.compose(): the fields of the caret and these instead
ComposeCaret(caret, ops) ==
  LET id == caret.id
      with(fields, op) == [fields EXCEPT ![op.key] = op.value]
  IN IF \E i \in DOMAIN ops : ops[i].op # "setField" \/ ops[i].id # id THEN BadUse
     ELSE [caret EXCEPT !.fields = FoldLeft(with, caret.fields, ops)]

\* Caret.diffFields()
DiffFieldOps(old, new, id) ==
  LET changed == SetToSeq({key \in DOMAIN new.fields : new.fields[key] # old.fields[key]})
  IN [i \in DOMAIN changed |-> OpSetField(id, changed[i], new.fields[changed[i]])]

DiffCaret(old, new) == IF old.id # new.id THEN BadUse ELSE DiffFieldOps(old, new, old.id)

\* A Map keeps the order in which its keys came: a sequence of entries.
HasKey(map, id) == \E i \in DOMAIN map : map[i].id = id
Entry(map, id) == map[CHOOSE i \in DOMAIN map : map[i].id = id]
MapSet(map, id, ops) ==
  LET entry == [id |-> id, ops |-> ops]
  IN IF HasKey(map, id) THEN [i \in DOMAIN map |-> IF map[i].id = id THEN entry ELSE map[i]]
     ELSE Append(map, entry)
MapDelete(map, id) == SelectSeq(map, LAMBDA entry : entry.id # id)

\* setField, among the ops that are already about the caret
WithField(ops, op) ==
  LET same == {i \in DOMAIN ops : ops[i].op = "setField" /\ ops[i].key = op.key}
  IN IF Len(ops) = 1 /\ ops[1].op = "set"
     THEN <<OpSet(op.id, ComposeCaret([id |-> op.id, fields |-> ops[1].value], <<op>>).fields)>>
     ELSE IF Len(ops) = 1 /\ ops[1].op = "delete" THEN ops
     ELSE IF same # {} THEN [i \in DOMAIN ops |-> IF i = Min(same) THEN op ELSE ops[i]]
     ELSE Append(ops, op)

ComposeStep(map, op, wantDocument) ==
  CASE op.op = "set" -> MapSet(map, op.id, <<op>>)
    [] op.op = "delete" /\ wantDocument -> MapDelete(map, op.id)
    [] op.op = "delete" -> MapSet(map, op.id, <<op>>)
    [] OTHER -> MapSet(map, op.id,
                  IF HasKey(map, op.id) THEN WithField(Entry(map, op.id).ops, op) ELSE <<op>>)

\* Mutant: what is deleted is dropped, whether a document is wanted or not.
ComposeDropping(ops, later, wantDocument) ==
  LET map == FoldLeft(LAMBDA m, op : ComposeStep(m, op, TRUE), <<>>, ops \o later)
  IN FlattenSeq([i \in DOMAIN map |-> map[i].ops])

\* _impl_compose()
ComposeKeyed(ops, later, wantDocument) ==
  LET map == FoldLeft(LAMBDA m, op : ComposeStep(m, op, wantDocument), <<>>, ops \o later)
  IN FlattenSeq([i \in DOMAIN map |-> map[i].ops])

NotADocument == <<Thrown("wtf")>>

\* composeAll(): the result of each step must be a document, if one is wanted.
ComposeAllKeyed(ops, deltas, wantDocument) ==
  LET step(sofar, later) ==
        IF sofar = NotADocument THEN sofar
        ELSE LET result == ComposeKeyed(sofar, later, wantDocument)
             IN IF wantDocument /\ ~ IsKeyedDocument(result) THEN NotADocument ELSE result
  IN FoldLeft(step, ops, deltas)

\* A snapshot: what it has for each ID
KeyedSnapshot(revNum, ops) ==
  [revNum |-> revNum, contents |-> ops,
   map |-> [id \in {ops[i].id : i \in DOMAIN ops} |-> Entry(ops, id).value]]

Has(snapshot, id) == id \in DOMAIN snapshot.map
Get(snapshot, id) == IF Has(snapshot, id) THEN snapshot.map[id] ELSE BadUse
Size(snapshot) == Len(snapshot.contents)
EntriesOf(snapshot) ==
  [i \in DOMAIN snapshot.contents |-> <<snapshot.contents[i].id, snapshot.contents[i].value>>]

KeyedEquals(snapshot, other) ==
  snapshot.revNum = other.revNum /\ snapshot.map = other.map

\* compose() of a snapshot, which an empty change only renumbers
ComposeKeyedSnapshot(snapshot, revNum, delta) ==
  IF delta = <<>> THEN [snapshot EXCEPT !.revNum = revNum]
  ELSE LET contents == ComposeAllKeyed(snapshot.contents, <<delta>>, TRUE)
       IN IF contents = NotADocument THEN Thrown("wtf") ELSE KeyedSnapshot(revNum, contents)

WithEntry(snapshot, id, value) ==
  IF Has(snapshot, id) /\ snapshot.map[id] = value THEN snapshot
  ELSE ComposeKeyedSnapshot(snapshot, snapshot.revNum, <<OpSet(id, value)>>)
WithoutEntry(snapshot, id) ==
  IF Has(snapshot, id)
  THEN ComposeKeyedSnapshot(snapshot, snapshot.revNum, <<OpRemove(id)>>)
  ELSE snapshot

\* randomUnusedId(): one of these, after some tries
UnusedIds(snapshot, ids) == {id \in ids : ~ Has(snapshot, id)}

\* _impl_diffAsDelta(): a property is set again if it differs, of a caret only
\* the fields that do.
DiffKeyed(old, new, areCarets) ==
  LET changes(i) ==
        LET op == new.contents[i]
        IN IF ~ Has(old, op.id) THEN <<op>>
           ELSE IF old.map[op.id] = op.value THEN <<>>
           ELSE IF areCarets
                THEN DiffCaret([id |-> op.id, fields |-> old.map[op.id]],
                               [id |-> op.id, fields |-> op.value])
                ELSE <<op>>
      gone == SelectSeq(old.contents, LAMBDA op : ~ Has(new, op.id))
  IN FlattenSeq([i \in DOMAIN new.contents |-> changes(i)])
       \o [i \in DOMAIN gone |-> OpRemove(gone[i].id)]

\* diff(): equal contents, in the same order, make an empty delta at once.
DiffSnapshots(old, new, areCarets) ==
  IF old.contents = new.contents THEN <<>> ELSE DiffKeyed(old, new, areCarets)
=============================================================================
