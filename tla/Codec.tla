------------------------------- MODULE Codec -------------------------------
(***************************************************************************)
(* Values as text, over the API and on disk (codec/, and the classes that  *)
(* api-common, doc-common, ot-common and file-store-ot register with it).  *)
(*                                                                         *)
(* A payload, what a value is encoded to, is a value without instances in  *)
(* which a call stands for everything that is to be constructed again: a   *)
(* tag and arguments.  The text is modelled by what JSON does to payloads. *)
(* The fields of an instance are the arguments that construct it, the      *)
(* optional ones included; the classes of the parts of a document share    *)
(* the constructors of the classes they extend.                            *)
(***************************************************************************)
EXTENDS Data

Call(tag, args) == [kind |-> "call", tag |-> tag, args |-> args]

-----------------------------------------------------------------------------
(* The classes: what their constructors accept, and deconstruct().         *)

Whole == {"0", "1"}    \* bound: the numbers that are not negative
Labels == {"text", "setField", "f", "delete", "generalError", "x"} \* bound: names
LongIds == {"call-0001"}                  \* bound: message IDs that are strings
TargetIds == {"main", "secret-token"}     \* bound: IDs of targets

IsWhole(v) == v.kind = "number" /\ v.is \in Whole
IsString(v) == v.kind = "string"
IsLabel(v) == IsString(v) /\ v.is \in Labels
IsA(v, class) == v.kind = "instance" /\ v.class = class

AnyThrown(seq) == \E i \in DOMAIN seq : seq[i] = ThrownValue

\* new Functor(name, ...args)
NewFunctor(args) ==
  IF args # <<>> /\ IsLabel(args[1]) THEN Functor(args[1].is, Tail(args)) ELSE ThrownValue

\* BaseOp(name, ...args): the payload is a functor with frozen arguments.
NewOp(args) ==
  LET functor == NewFunctor(args)
      frozen  == WithFrozenArgs(functor)
  IN IF functor = ThrownValue \/ frozen = ThrownValue THEN ThrownValue
     ELSE Instance("Op", <<String(frozen.name)>> \o frozen.args)

\* BaseDelta(ops): an array of ops, or of the arguments of ops.
NewDelta(args) ==
  IF Len(args) # 1 \/ args[1].kind # "array" THEN ThrownValue
  ELSE LET elems == args[1].elems
           made(i) == IF elems[1].kind # "array"
                      THEN IF IsA(elems[i], "Op") THEN elems[i] ELSE ThrownValue
                      ELSE IF elems[i].kind = "array" THEN NewOp(elems[i].elems)
                      ELSE ThrownValue
           ops == [i \in DOMAIN elems |-> made(i)]
       IN IF AnyThrown(ops) THEN ThrownValue ELSE Instance("Delta", <<Array(TRUE, ops)>>)

OrDefault(args, n) == IF n <= Len(args) THEN args[n] ELSE Null

\* BaseChange(revNum, delta, timestamp = null, authorId = null)
NewChange(args) ==
  LET delta     == IF OrDefault(args, 2).kind = "array" THEN NewDelta(<<args[2]>>)
                   ELSE OrDefault(args, 2)
      timestamp == OrDefault(args, 3)
      authorId  == OrDefault(args, 4)
  IN IF /\ Len(args) \in 2..4
        /\ IsWhole(args[1])
        /\ IsA(delta, "Delta")
        /\ timestamp = Null \/ IsA(timestamp, "Timestamp")
        /\ authorId = Null \/ IsString(authorId)
     THEN Instance("Change", <<args[1], delta, timestamp, authorId>>)
     ELSE ThrownValue

\* An op of a document adds something: this is up to the subclasses.
IsDocumentDelta(delta) ==
  \A i \in DOMAIN delta.fields[1].elems : delta.fields[1].elems[i].fields[1] = String("text")

\* BaseSnapshot(revNum, contents)
NewSnapshot(args) ==
  LET contents == IF OrDefault(args, 2).kind = "array" THEN NewDelta(<<args[2]>>)
                  ELSE OrDefault(args, 2)
  IN IF Len(args) = 2 /\ IsWhole(args[1]) /\ IsA(contents, "Delta")
     THEN IF IsDocumentDelta(contents)
          THEN Instance("Snapshot", <<args[1], contents>>) ELSE ThrownValue
     ELSE ThrownValue

\* Timestamp(secs, usecs)
NewTimestamp(args) ==
  IF Len(args) = 2 /\ IsWhole(args[1]) /\ IsWhole(args[2])
  THEN Instance("Timestamp", args) ELSE ThrownValue

IsMessageId(v) == IsWhole(v) \/ (IsString(v) /\ v.is \in LongIds)

\* Message(id, targetId, payload)
NewMessage(args) ==
  IF /\ Len(args) = 3
     /\ IsMessageId(args[1])
     /\ IsA(args[2], "BearerToken") \/ (IsString(args[2]) /\ args[2].is \in TargetIds)
     /\ args[3].kind = "functor"
  THEN Instance("Message", args) ELSE ThrownValue

\* CodableError(cause, info), CodableError(info), CodableError(name, ...args)
NewCodableError(args) ==
  LET caused == args # <<>> /\ IsA(args[1], "CodableError")
      rest   == IF caused THEN Tail(args) ELSE args
      info   == IF rest # <<>> /\ rest[1].kind = "functor" THEN rest[1] ELSE NewFunctor(rest)
  IN IF info = ThrownValue THEN ThrownValue
     ELSE Instance("CodableError", <<IF caused THEN args[1] ELSE Null, info>>)

\* Response(id, result, error = null), _fixError(): what errors become that
\* are not codable, without their causes.
NewResponse(args) ==
  LET error == OrDefault(args, 3)
      fixed == CASE IsA(error, "InfoError") -> NewCodableError(<<error.fields[2]>>)
                 [] IsA(error, "Error") -> NewCodableError(<<String("generalError"), error.fields[1]>>)
                 [] OTHER -> error
  IN IF /\ Len(args) \in 2..3
        /\ args[2] = Null \/ error = Null
        /\ IsMessageId(args[1])
        /\ fixed = Null \/ IsA(fixed, "CodableError")
     THEN Instance("Response", <<args[1], args[2], fixed>>)
     ELSE ThrownValue

\* Remote(targetId)
NewRemote(args) ==
  IF Len(args) = 1 /\ IsString(args[1]) /\ args[1].is \in TargetIds
  THEN Instance("Remote", args) ELSE ThrownValue

\* SessionInfo(apiUrl, authorToken, documentId, caretId = null)
NewSessionInfo(args) ==
  IF /\ Len(args) \in 3..4
     /\ IsString(args[1]) /\ IsString(args[3])
     /\ IsString(args[2]) \/ IsA(args[2], "BearerToken")
     /\ OrDefault(args, 4) = Null \/ IsString(args[4])
  THEN Instance("SessionInfo", <<args[1], args[2], args[3], OrDefault(args, 4)>>)
  ELSE ThrownValue

\* Property(name, value)
NewProperty(args) ==
  IF Len(args) = 2 /\ IsLabel(args[1]) /\ DeepFreeze(args[2], FALSE) # ThrownValue
  THEN Instance("Property", <<args[1], DeepFreeze(args[2], FALSE)>>) ELSE ThrownValue

\* Caret(id, fields), with all fields given.
NewCaret(args) ==
  IF Len(args) = 2 /\ IsString(args[1]) /\ IsPlain(args[2])
  THEN IF DOMAIN args[2].props = {"color", "index"}
       THEN Instance("Caret", <<args[1], [args[2] EXCEPT !.frozen = TRUE]>>) ELSE ThrownValue
  ELSE ThrownValue

\* The classes that are registered.
RegisteredClasses ==
  {"Op", "Delta", "Change", "Snapshot", "Timestamp", "Message", "CodableError",
   "Response", "Remote", "SessionInfo", "Property", "Caret"}

New(class, args) ==
  CASE class = "Op"           -> NewOp(args)
    [] class = "Delta"        -> NewDelta(args)
    [] class = "Change"       -> NewChange(args)
    [] class = "Snapshot"     -> NewSnapshot(args)
    [] class = "Timestamp"    -> NewTimestamp(args)
    [] class = "Message"      -> NewMessage(args)
    [] class = "CodableError" -> NewCodableError(args)
    [] class = "Response"     -> NewResponse(args)
    [] class = "Remote"       -> NewRemote(args)
    [] class = "SessionInfo"  -> NewSessionInfo(args)
    [] class = "Property"     -> NewProperty(args)
    [] class = "Caret"        -> NewCaret(args)

\* deconstruct() of a delta: the arguments of its ops.
DeconstructDelta(delta) ==
  LET ops == delta.fields[1].elems
  IN <<Array(TRUE, [i \in DOMAIN ops |-> Array(TRUE, ops[i].fields)])>>

\* Mutant: a null is trimmed wherever it is.
TrimAnyNull(fields) ==
  LET kept == SelectSeq(SubSeq(fields, 3, 4), LAMBDA f : f # Null)
  IN SubSeq(fields, 1, 2) \o kept

\* BaseChange.deconstruct() leaves out nulls at the end.
Trimmed(fields) ==
  IF fields[4] # Null THEN fields
  ELSE IF fields[3] # Null THEN SubSeq(fields, 1, 3) ELSE SubSeq(fields, 1, 2)

SecretOf(v) == IF IsA(v, "BearerToken") THEN v.fields[2] ELSE v

\* Message.deconstruct(): the client may not send an instance of a token.
DeconstructMessage(m) == <<m.fields[1], SecretOf(m.fields[2]), m.fields[3]>>

\* Response.deconstruct()
DeconstructResponse(r) ==
  IF r.fields[3] = Null THEN SubSeq(r.fields, 1, 2)
  ELSE <<r.fields[1], Null, r.fields[3]>>

\* CodableError.deconstruct()
DeconstructError(e) == IF e.fields[1] = Null THEN <<e.fields[2]>> ELSE e.fields

\* SessionInfo.deconstruct()
DeconstructSessionInfo(s) ==
  <<s.fields[1], SecretOf(s.fields[2]), s.fields[3]>>
    \o (IF s.fields[4] = Null THEN <<>> ELSE <<s.fields[4]>>)

DeconstructChange(c) ==
  LET fields == Trimmed(c.fields)
  IN [fields EXCEPT ![2] = DeconstructDelta(@)[1]]

DeconstructSnapshot(s) == <<s.fields[1], DeconstructDelta(s.fields[2])[1]>>

Deconstruct(v) ==
  CASE v.class = "Delta"        -> DeconstructDelta(v)
    [] v.class = "Change"       -> DeconstructChange(v)
    [] v.class = "Snapshot"     -> DeconstructSnapshot(v)
    [] v.class = "Message"      -> DeconstructMessage(v)
    [] v.class = "Response"     -> DeconstructResponse(v)
    [] v.class = "CodableError" -> DeconstructError(v)
    [] v.class = "SessionInfo"  -> DeconstructSessionInfo(v)
    [] OTHER                    -> v.fields

-----------------------------------------------------------------------------
(* ItemCodec, SpecialCodecs, Registry                                      *)

\* typeOf(): a buffer, a functor and a call are instances.
TypeOf(v) ==
  CASE v.kind \in {"buffer", "functor", "instance", "call"} -> "instance"
    [] OTHER -> v.kind

TypeTag(type) == "type:" \o type

\* tagFromPayload(): what has no tag is not a payload.
NoTag == "none"
TagFromPayload(payload) ==
  CASE payload.kind = "call"            -> payload.tag
    [] TypeOf(payload) = "instance"     -> NoTag
    [] TypeOf(payload) = "object"       -> NoTag
    [] OTHER                            -> TypeTag(TypeOf(payload))

\* The class of an instance that is not one of the program's is its kind.
ClassOf(v) == IF v.kind = "instance" THEN v.class ELSE v.kind

\* SpecialCodecs.ARRAY, FROZEN_BUFFER, FUNCTOR, PLAIN_OBJECT.
NoClass == "null"
ItemCodec(tag, type, class) == [tag |-> tag, type |-> type, class |-> class]
SpecialCodecs ==
  <<ItemCodec("type:array", "array", NoClass), ItemCodec("buf", "instance", "buffer"),
    ItemCodec("f", "instance", "functor"), ItemCodec("object", "object", NoClass)>>
\* selfRepresentative()
SelfRepresentative(type) == ItemCodec(TypeTag(type), type, NoClass)

\* ItemCodec.fromClass(); the tag of CodableError is shorter than its name.
CodecOfClass(class) ==
  ItemCodec(IF class = "CodableError" THEN "Error" ELSE class, "instance", class)

\* registerCodec() throws if the tag is taken.
RegisterCodec(registry, codec) ==
  IF \E c \in registry : c.tag = codec.tag THEN registry ELSE registry \cup {codec}

Registry ==
  {SpecialCodecs[i] : i \in DOMAIN SpecialCodecs}
    \cup {SelfRepresentative(type) : type \in {"boolean", "null", "number", "string"}}
    \cup {CodecOfClass(class) : class \in RegisteredClasses}

\* ItemCodec.canEncode(), with the predicates of arrays and plain objects.
CanEncode(codec, v) ==
  /\ TypeOf(v) = codec.type
  /\ codec.class # NoClass => ClassOf(v) = codec.class
  /\ codec.type = "array"  => v.odd = "no"
  /\ codec.type = "object" => IsPlain(v)

\* codecForValue(): one codec has to apply.
CodecsForValue(v) == {codec \in Registry : CanEncode(codec, v)}

\* codecForPayload()
CodecsForPayload(payload) == {codec \in Registry : codec.tag = TagFromPayload(payload)}

\* _objectEncode() sorts the keys.
SortedKeys(props) ==
  LET order == <<"color", "index", "k", "l">> \* bound: names of properties
  IN SelectSeq(order, LAMBDA key : key \in DOMAIN props)

\* Codec.encodeData(), ItemCodec.encode()
RECURSIVE EncodeData(_)
EncodeData(v) ==
  LET each(seq) == [i \in DOMAIN seq |-> EncodeData(seq[i])]
      unlessThrown(parts, result) == IF AnyThrown(parts) THEN ThrownValue ELSE result
  IN IF Cardinality(CodecsForValue(v)) # 1 THEN ThrownValue
     ELSE LET codec == CHOOSE c \in CodecsForValue(v) : TRUE
          IN CASE v.kind = "array" ->
                    LET elems == each(v.elems)
                    IN unlessThrown(elems, Array(TRUE, elems))
               [] v.kind = "object" ->
                    LET keys   == SortedKeys(v.props)
                        values == each([i \in DOMAIN keys |-> v.props[keys[i]]])
                        pairs  == [i \in DOMAIN keys |->
                                     Array(TRUE, <<String(keys[i]), values[i]>>)]
                    IN unlessThrown(values, Call("object", pairs))
               [] v.kind = "buffer" -> Call("buf", <<String(v.is)>>)
               [] v.kind = "functor" ->
                    LET args == each(<<String(v.name)>> \o v.args)
                    IN unlessThrown(args, Call("f", args))
               [] v.kind = "instance" ->
                    LET args == each(Deconstruct(v))
                    IN unlessThrown(args, Call(codec.tag, args))
               [] OTHER -> v

\* _objectDecode(): a later value of a key wins.
ObjectOf(pairs, values) ==
  LET keys == {pairs[i].elems[1].is : i \in DOMAIN pairs}
  IN Object(TRUE, [key \in keys |->
       values[CHOOSE i \in DOMAIN pairs :
                /\ pairs[i].elems[1].is = key
                /\ \A j \in (i + 1)..Len(pairs) : pairs[j].elems[1].is # key]])

\* Codec.decodeData(), ItemCodec.decode(): the tag says what to construct.
RECURSIVE DecodeData(_)
DecodeData(payload) ==
  LET each(seq) == [i \in DOMAIN seq |-> DecodeData(seq[i])]
      unlessThrown(parts, result) == IF AnyThrown(parts) THEN ThrownValue ELSE result
  IN IF CodecsForPayload(payload) = {} THEN ThrownValue
     ELSE LET codec == CHOOSE c \in CodecsForPayload(payload) : TRUE
          IN CASE codec.tag = "type:array" ->
                    LET elems == each(payload.elems)
                    IN unlessThrown(elems, Array(TRUE, elems))
               [] codec.tag = "object" ->
                    LET pairs  == payload.args
                        values == each([i \in DOMAIN pairs |-> pairs[i].elems[2]])
                    IN unlessThrown(values, ObjectOf(pairs, values))
               [] codec.tag = "buf" -> Buffer(payload.args[1].is)
               [] codec.tag = "f" ->
                    LET args == each(payload.args)
                    IN unlessThrown(args, NewFunctor(args))
               [] codec.class # NoClass ->
                    LET args == each(payload.args)
                    IN unlessThrown(args, New(codec.class, args))
               [] OTHER -> payload

-----------------------------------------------------------------------------
(* The text                                                                *)

NotJson == {"NaN"} \* bound: the numbers that JSON has no text for

\* JSON.stringify() and JSON.parse() with ConstructorCall.toJSON() and
\* revive(): calls come back as calls, and other numbers as null.
RECURSIVE ThroughJson(_)
ThroughJson(payload) ==
  CASE payload.kind = "array" ->
         Array(TRUE, [i \in DOMAIN payload.elems |-> ThroughJson(payload.elems[i])])
    [] payload.kind = "call" ->
         Call(payload.tag, [i \in DOMAIN payload.args |-> ThroughJson(payload.args[i])])
    [] payload.kind = "number" -> IF payload.is \in NotJson THEN Null ELSE payload
    [] OTHER -> payload

\* Response.withConservativeError(): the arguments of the error as one text.
WithConservativeError(response) ==
  Instance("Response", <<response.fields[1], Null,
    Instance("CodableError", <<Null, Functor(response.fields[3].fields[2].name,
                                             <<String("inspected")>>)>>)>>)

\* BaseConnection._encodeResponse().  couldNotEncode() is called without the
\* ID of the connection and takes the result for it: unless that is a string
\* it throws, and what is a string has been encoded.
EncodeResponse(response) ==
  LET encoded == EncodeData(response)
  IN IF encoded # ThrownValue \/ response.fields[3] = Null THEN encoded
     ELSE EncodeData(WithConservativeError(response))
=============================================================================
