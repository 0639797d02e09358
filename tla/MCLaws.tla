------------------------------- MODULE MCLaws -------------------------------
(***************************************************************************)
(* What has no state, for TLC: the algebra of files, data values and their *)
(* coding, objects, timestamps, checks, the color of a new caret, what a   *)
(* server is asked to do when it starts, and the layout of the log.  A     *)
(* step poses one question: it picks the inputs of a law from bounded      *)
(* sets, and the laws are invariants of the question that is posed.  Two   *)
(* small machines share the module: the log's sinks and a run of tests.    *)
(***************************************************************************)
EXTENDS FileAlgebra, Codec, OtCommon, CaretColor

C == INSTANCE Checks
O == INSTANCE DocOps
K == INSTANCE CaretDelta WITH
       Ids <- {"a", "b"}, Fields <- {"f", "g"}, FieldValues <- 0..1, NotCarets <- [not |-> TRUE]
B == INSTANCE Objects WITH
       Symbols <- {"sym"}, Privates <- {"_p"}, MaxPath <- 6
S == INSTANCE StartUp WITH HashRange <- 256
P == INSTANCE PropertyDelta WITH Names <- {"a", "b"}, Values <- 0..1, Deleted <- 9

VARIABLE question

Nothing == [law |-> "none"]

(* Logging has a state: five lines are logged instead of a question, with   *)
(* pauses and a clock that may be set back; small numbers stand for a       *)
(* minute, five minutes and a hundred lines                                 *)
VARIABLES clock, lastNow, linesSinceTime, recent, prefix, file, logged

lineVars == <<clock, lastNow, linesSinceTime, recent, prefix, file, logged>>

Pauses == {0, 1, 3, 7, -2}

Lines == INSTANCE Logging WITH
  ClockSteps <- Pauses, PrefixLengths <- {3, 9}, MaxLines <- 5,
  Lull <- 3, MaxGap <- 5, MaxLogsPerTime <- 2, MaxAge <- 4,
  MinPrefix <- 4, PrefixIncrement <- 2, AdjustEvery <- 2

(* And so has a run of tests: two tests, some in a suite in a suite, which   *)
(* log a line                                                               *)
VARIABLES where, runner, reporter, wire, collector, outcome, happened, logs

testVars == <<where, runner, reporter, wire, collector, outcome, happened, logs>>

Tests == INSTANCE TestRun WITH MaxTests <- 2, MaxSuites <- 2, MaxLogs <- 1

-----------------------------------------------------------------------------
(* Files: two paths under a third, one blob that is stored by its hash     *)

Dir == <<"a">>
Item(n) == Indexed(Dir, n)
Blobs == {"x", "y"}

Ops ==
  {WritePath(path, blob) : path \in {Dir, Item(0), Item(1)}, blob \in Blobs}
    \cup {WriteBlob("x"), DeleteAll, DeleteBlob("x"), DeletePath(Item(0)),
          DeletePathPrefix(Dir), DeletePathRange(Dir, 0, 1), DeletePathRange(Dir, 0, 2)}

Documents ==
  {<<>>,
   <<WritePath(Dir, "x"), WritePath(Item(1), "y")>>,
   <<WriteBlob("x"), WritePath(Item(0), "y"), WritePath(Item(1), "x")>>}

OneOp == {<<>>} \cup {<<op>> : op \in Ops}
TwoOps == {<<op1, op2>> : op1, op2 \in Ops}

FileQuestions ==
  [law : {"file"}, document : Documents, first : OneOp \cup TwoOps, second : OneOp]

\* What an op does to what is stored, one op after the other.
Performed(values, op) ==
  CASE IsWrite(op)   -> Bound(values, op.id, op.blob)
    [] IsRemoval(op) -> Without(values, {op.id})
    [] op.name = "deleteAll" -> Without(values, DOMAIN values)
    [] op.name = "deletePathPrefix" ->
         Without(values, {id \in DOMAIN values : op.path \in {SubSeq(id, 1, n) : n \in 1..Len(id)}})
    [] op.name = "deletePathRange" ->
         Without(values, {id \in DOMAIN values :
           /\ Front(id) = op.path
           /\ IndexOfPath(id) \in op.from..(op.to - 1)})

AllPerformed(values, ops) == FoldLeft(Performed, values, ops)

\* Composing deltas does what their ops do one after the other: with a
\* document, and among themselves before there is a document, whatever a
\* delete of many paths meets on either side of it; in chunks or at once.
\* The difference of two snapshots leads from one to the other, and reading
\* a prefix or a range finds what deleting it removes.  (FileDelta,
\* FileSnapshot, BaseSnapshot)
FileLaws ==
  question.law = "file" =>
    LET snapshot == FileSnapshot(0, question.document)
        first    == question.first
        second   == question.second
        expected == AllPerformed(snapshot.values, first \o second)
        changes  == <<[revNum |-> 1, delta |-> first], [revNum |-> 2, delta |-> second],
                      [revNum |-> 3, delta |-> <<>>]>>
        end      == SnapshotComposeAll(snapshot, changes, 3)
        between  == SnapshotCompose(snapshot, changes[1])
        diff     == SnapshotDiff(snapshot, end)
        under    == GetPathPrefix(end, Dir)
        within   == GetPathRange(end, Dir, 0, 2)
    IN /\ end.values = expected /\ end.revNum = 3
       /\ SnapshotsEqual(end, SnapshotComposeAll(snapshot, changes, 2))
       /\ SnapshotsEqual(end, SnapshotCompose(SnapshotCompose(between, changes[2]), changes[3]))
       /\ SnapshotsEqual(end, SnapshotCompose(snapshot,
            [revNum |-> 3, delta |-> ComposeFiles(first, second, FALSE)]))
       /\ SnapshotsEqual(end, SnapshotCompose(snapshot, diff))
       /\ \A id \in DOMAIN under : \/ id = Dir
                                   \/ \E i \in DOMAIN AllPrefixes(id) : AllPrefixes(id)[i] = Dir
       /\ Without(end.values, DOMAIN under) =
            Performed(end.values, DeletePathPrefix(Dir))
       /\ Without(end.values, DOMAIN within) =
            Performed(end.values, DeletePathRange(Dir, 0, 2))
       /\ \A id \in DOMAIN end.values :
            /\ CheckPathIs(end, id, end.values[id]) /\ CheckPathPresent(end, id)
            /\ ~ CheckPathAbsent(end, id) /\ ~ CheckPathIsNot(end, id, end.values[id])

-----------------------------------------------------------------------------
(* Data and its coding                                                     *)

Number(is) == Leaf("number", is)
Leaves == {Number("0"), Number("NaN"), String("x"), Null, Leaf("undefined", "undefined"),
           Leaf("function", "f"), Buffer("b")}
Odd(v, odd) == [v EXCEPT !.odd = odd]
FewLeaves == {Number("0"), String("x"), Leaf("function", "f")}

Flat ==
  {Array(frozen, <<>>) : frozen \in BOOLEAN}
    \cup {Array(frozen, <<e>>) : frozen \in BOOLEAN, e \in Leaves}
    \cup {Odd(Array(FALSE, <<Number("0")>>), odd) : odd \in {"hole", "named", "getter"}}
    \cup {Object(frozen, [k \in {"k"} |-> e]) : frozen \in BOOLEAN, e \in FewLeaves}
    \cup {Odd(Object(TRUE, [k \in {"k"} |-> Null]), odd) : odd \in {"getter", "no"}}
    \cup {Functor("f", <<e>>) : e \in Leaves}

Nested ==
  {Array(frozen, <<e, Null>>) : frozen \in BOOLEAN, e \in Flat}
    \cup {Object(frozen, [k \in {"k", "l"} |-> e]) : frozen \in BOOLEAN, e \in Flat}
    \cup {Functor("x", <<e, String("x")>>) : e \in Flat}

DataQuestions ==
  [law : {"data"}, value : Leaves \cup Flat \cup Nested, other : Leaves \cup Flat]

\* What is data can be frozen all the way and is then equal to what it was;
\* what is frozen all the way is left alone; what is not data, however deep
\* in it, throws, or is converted, to something that is.  Equality does not
\* depend on the order of its sides, nor on freezing.  (DataUtil, Functor)
DataIsData ==
  question.law = "data" =>
    LET v         == question.value
        other     == question.other
        frozen    == DeepFreeze(v, FALSE)
        converted == DeepFreeze(v, TRUE)
    IN /\ (frozen # ThrownValue) = IsData(v)
       /\ IsData(v) => /\ IsDeepFrozen(frozen) /\ EqualData(v, frozen)
                       /\ EqualData(frozen, other) = EqualData(v, other)
                       /\ converted = frozen
                       /\ IsDeepFrozen(v) => frozen = v
       /\ IsDeepFrozen(v) => IsData(v)
       /\ IsData(converted) /\ IsDeepFrozen(converted)
       /\ EqualData(v, other) = EqualData(other, v)
       /\ EqualData(v, other) => EqualFunctors(Functor("f", <<v>>), Functor("f", <<other>>))

AttributeData == {Number("0"), Object(FALSE, [k \in {"k"} |-> Number("0")]), Array(FALSE, <<Null>>)}
Timestamp0 == Instance("Timestamp", <<Number("0"), Number("1")>>)
Caret0 == Instance("Caret", <<String("x"),
            Object(TRUE, [k \in {"color", "index"} |-> Number("0")])>>)
Token == Instance("BearerToken", <<String("main"), String("secret-token")>>)

OpValues ==
  {NewOp(<<String(name)>> \o args) : name \in {"text", "delete"},
     args \in {<<>>, <<Caret0>>, <<Caret0, Null>>} \cup {<<a>> : a \in AttributeData}}
DeltaValues ==
  {NewDelta(<<Array(FALSE, ops)>>) : ops \in {<<>>} \cup {<<o>> : o \in OpValues}
                                       \cup {<<o, p>> : o, p \in OpValues}}
ChangeValues ==
  {NewChange(<<Number("1"), delta, timestamp, author>>) :
     delta \in DeltaValues, timestamp \in {Null, Timestamp0}, author \in {Null, String("x")}}
SnapshotValues == {NewSnapshot(<<Number("1"), delta>>) : delta \in DeltaValues}

ErrorValues ==
  LET plain == {NewCodableError(<<Functor("x", <<a>>)>>) : a \in Leaves}
  IN plain \cup {NewCodableError(<<cause, String("generalError"), Null>>) : cause \in plain}
UncodableErrors ==
  {Instance("InfoError", <<Null, Functor("x", <<a>>)>>) : a \in Leaves}
    \cup {Instance("Error", <<String("x")>>)}
ResponseValues ==
  {NewResponse(<<Number("0"), Null, e>>) : e \in ErrorValues \cup UncodableErrors}
    \cup {NewResponse(<<String("call-0001"), r>>) : r \in Leaves \cup Flat}
    \cup {NewResponse(<<Number("1"), r, Null>>) : r \in SnapshotValues \ {ThrownValue}}
MessageValues ==
  {NewMessage(<<id, target, Functor("f", args)>>) : id \in {Number("0"), String("call-0001")},
     target \in {String("main"), Token}, args \in {<<>>} \cup {<<a>> : a \in Leaves \cup Flat}}
OtherValues ==
  {NewRemote(<<String("main")>>), Timestamp0, Caret0, Token}
    \cup {NewSessionInfo(<<String("x"), token, String("x"), caret>>) :
            token \in {Token, String("x")}, caret \in {Null, String("x")}}
    \cup {NewProperty(<<String("x"), v>>) : v \in Flat}

CodedValues ==
  (Leaves \cup Flat \cup Nested \cup OpValues \cup DeltaValues \cup ChangeValues
     \cup SnapshotValues \cup ErrorValues \cup ResponseValues \cup MessageValues
     \cup OtherValues) \ {ThrownValue}

CodecQuestions == [law : {"codec"}, value : CodedValues]

\* The value that comes back: frozen, and with secrets in place of tokens.
RECURSIVE Transported(_)
Transported(v) ==
  CASE IsA(v, "BearerToken") -> v.fields[2]
    [] v.kind = "instance" ->
         [v EXCEPT !.fields = [i \in DOMAIN @ |-> Transported(@[i])]]
    [] IsContainer(v) -> WithParts(v, [k \in DOMAIN Parts(v) |-> Transported(Parts(v)[k])])
    [] OTHER -> v

RECURSIVE Within(_)
Within(v) ==
  {v} \cup (IF v.kind = "instance" THEN UNION {Within(v.fields[i]) : i \in DOMAIN v.fields}
            ELSE IF IsContainer(v) THEN UNION {Within(Parts(v)[k]) : k \in DOMAIN Parts(v)}
            ELSE {})

Uncodable(v) ==
  \/ v.kind \in {"undefined", "function", "symbol"}
  \/ v.kind \in {"array", "object"} /\ v.odd # "no"
  \/ v.kind = "instance" /\ v.class = "Unregistered"

\* A value that has only codable parts comes back from its text as it was,
\* but for tokens, which become secrets, and numbers that JSON has no text
\* for; any other value throws, whichever part of it is at fault.  What has
\* come back can be sent on, and is coded the same way.  An error is always
\* answered, even if what it is about cannot be coded.  (Codec, Registry,
\* ItemCodec, the constructors and deconstruct() of the registered classes)
CodedComesBack ==
  question.law = "codec" =>
    LET v    == question.value
        text == EncodeData(v)
        back == DecodeData(ThroughJson(text))
    IN /\ (text = ThrownValue) = ((\E w \in Within(v) : Uncodable(w)) \/ IsA(v, "BearerToken"))
       /\ text # ThrownValue /\ Number("NaN") \notin Within(v) =>
            /\ back = Transported(v)
            /\ EncodeData(back) = text
       /\ IsA(v, "Response") => (v.fields[3] # Null => EncodeResponse(v) # ThrownValue)

-----------------------------------------------------------------------------
(* Objects, errors and bytes                                               *)

\* Two classes and a base that is skipped; whatever of these they define
OwnProperties ==
  UNION {[names -> {"method", "getter", "data"}] :
           names \in SUBSET {"a", "_p", "sym"}}
Chains ==
  {<<self, class, ("then" :> "method") @@ base>> :
     self, class \in OwnProperties, base \in {<<>>, "a" :> "method"}}
ChainQuestions == [law : {"chain"}, object : Chains]

\* What obj[name] finds, among the first prototypes
Finds(object, name) == SelectInSeq(object, LAMBDA own : name \in DOMAIN own)

\* A target of the API has the methods that a call on it would find, and no
\* hidden, inherited, private or other property; an error shows what it has
\* of its own; a class that a mixin goes into keeps what it has.
\* (PropertyIterable, Schema, CommonBase, ErrorUtil)
PropertiesFound ==
  question.law = "chain" =>
    LET object == question.object
        found(what) ==
          {n \in {"a", "_p", "sym"} : LET at == Finds(object, n)
                                     IN at \in 1..2 /\ object[at][n] = what}
        mixed == B!MixInto(object[1], object[2])
    IN /\ B!MethodsOf(object, 3) = found("method") \cap {"a"}
       /\ B!ExtraNames(object, 3) = found("data") \cap {"a"}
       /\ \A n \in DOMAIN mixed : mixed[n] = object[Finds(object, n)][n]
       /\ found("getter") \cap {"a"} \subseteq B!KeysToInspect(object, 3)
       /\ \A n \in B!KeysToInspect(object, 3) : n = "a" /\ Finds(object, n) \in 1..2
       /\ B!Extract(object[1], {"a"}) = (IF "a" \in DOMAIN object[1]
                                         THEN "a" :> object[1]["a"] ELSE B!ThrownObject)

Parted(like, parts) == [class |-> "C", like |-> like, parts |-> parts]
Kinds == {"constructor", "map"}
Trees1 == {Parted(like, parts) : like \in Kinds, parts \in {<<>>, <<B!Leaf>>}}
Trees2 == {Parted(like, <<t, u>>) : like \in Kinds, t, u \in Trees1 \cup {B!Leaf}}
Trees3 == {Parted(like, <<t>>) : like \in Kinds, t \in Trees2}
TreeQuestions ==
  [law : {"tree"}, tree : Trees1 \cup Trees2 \cup Trees3, depth : (-1)..2 \cup {B!Unlimited}]

RECURSIVE Levels(_)
Levels(tree) ==
  IF tree.parts = <<>> THEN 0 ELSE 1 + Max({Levels(tree.parts[i]) : i \in DOMAIN tree.parts})
RECURSIVE Elided(_)
Elided(shown) == shown.shown = "..." \/ \E i \in DOMAIN shown.parts : Elided(shown.parts[i])

\* What is inspected is shown to the depth that is asked for, and whole if it
\* is no deeper.  (CommonBase)
InspectedToDepth ==
  question.law = "tree" =>
    LET shown == B!InspectCustom(question.tree, question.depth)
    IN /\ Levels(shown) <= question.depth + 1
       /\ Levels(question.tree) <= question.depth => ~ Elided(shown)
       /\ ~ Elided(shown) => Levels(shown) = Levels(question.tree)

Schedules == UNION {[1..n -> {"u", "v", "w"}] : n \in 1..6}
SharedQuestions == [law : {"shared"}, schedule : Schedules, length : 0..3]

\* However those who share an iterator take turns, each gets all of it, in
\* order.  (IterableUtil)
SharedWhole ==
  question.law = "shared" =>
    LET source == [i \in 1..question.length |-> i]
        after == FoldLeft(LAMBDA it, user : B!NextOf(it, user, source),
                          B!NewIterable({"u", "v", "w"}), question.schedule)
        asked(user) == Cardinality({i \in DOMAIN question.schedule : question.schedule[i] = user})
    IN \A user \in {"u", "v", "w"} :
         /\ after.got[user] =
              SubSeq(source, 1, IF asked(user) < question.length THEN asked(user) ELSE question.length)
         /\ (user \in after.ended) = (asked(user) > question.length)

ErrorsOf(headers) ==
  [message : {<<"m">>, <<"m", "n">>}, stack : {<<>>, <<"s">>}, header : headers,
   extra : {<<>>, <<"x">>}]
TraceQuestions ==
  [law : {"trace"},
   causes : {<<e>> : e \in ErrorsOf({"full", "none", "name"})}
     \cup {<<e, f>> : e, f \in ErrorsOf({"full", "none"})}]
PathQuestions == [law : {"path"}, names : UNION {[1..n -> {0, 1, 2, 5, 7}] : n \in 1..4}]

\* A trace has every line of every error, the causes after and under what
\* they caused; a path that is cut short is the end of the path, as much of
\* it as may be.  (ErrorUtil, Errors)
TracesWhole ==
  /\ question.law = "trace" =>
       LET lines == B!FullTraceLines(B!Make("badUse", question.causes, "message"))
           starts == {i \in DOMAIN lines : lines[i].text = "caused by:"}
           at(n) == CHOOSE i \in starts : Cardinality({j \in starts : j <= i}) = n
       IN /\ Cardinality(starts) = Len(question.causes)
          /\ SubSeq(lines, 1, 2) = B!Indented(0, <<"badUse", "message">>)
          /\ \A i \in 3..Len(lines) : lines[i].indent > 0
          /\ \A n \in DOMAIN question.causes :
               LET error == question.causes[n]
                   rest == SubSeq(lines, at(n) + 1,
                                  IF n = Len(question.causes) THEN Len(lines) ELSE at(n + 1) - 1)
               IN /\ IsPrefix(B!Indented(1, error.message), rest)
                  /\ IsSuffix(B!Indented(2, error.stack \o error.extra), rest)
                  /\ error.header # "name" =>
                       Len(rest) = Len(error.message) + Len(error.stack) + Len(error.extra)
  /\ question.law = "path" =>
       LET names == question.names
           short == B!ShortPath(names)
           width(path) == FoldLeft(LAMBDA sum, n : sum + (IF n = 0 THEN 3 ELSE n), Len(path) - 1, path)
           kept == IF short = names THEN names ELSE Tail(short)
       IN /\ IsSuffix(kept, names)
          /\ short # names =>
               /\ short[1] = 0 /\ 0 \notin ToSet(kept)
               /\ width(kept) <= 6 /\ width(names) > 6
               /\ LET next == names[Len(names) - Len(kept)]
                  IN next = 0 \/ width(<<next>> \o kept) > 6 \/ (kept = <<>> /\ next >= 6)

Bytes == UNION {[1..n -> {"a", "!", "~"}] : n \in 0..2}
BufferQuestions ==
  [law : {"buffer"}, value : Bytes, other : Bytes,
   encoding : {"utf8", "Buffer"}, otherEncoding : {"utf8", "Buffer"}]

\* Bytes are the same if their hashes are, whatever was asked of them before;
\* they are the text they were made of, but for what has no bytes.
\* (FrozenBuffer)
BytesKept ==
  question.law = "buffer" =>
    LET b == B!NewBuffer(question.value, question.encoding)
        c == B!NewBuffer(question.other, question.otherEncoding)
    IN /\ B!SameBytes(b, c) = (B!GetHash(b).hash = B!GetHash(B!GetString(c)).hash)
       /\ B!GetHash(B!GetString(b)).hash = B!GetHash(b).hash
       /\ question.encoding = "utf8" =>
            /\ B!GetString(B!GetHash(b)).string = question.value
            /\ "~" \notin ToSet(question.value) /\ "!" \notin ToSet(question.value) =>
                 B!SameBytes(b, B!NewBuffer(question.value, "Buffer"))
       /\ B!CopyBytes(b, <<"0", "0">>, 0, 0, Len(question.value)) =
            B!EnsureBuffer(b).buffer \o SubSeq(<<"0", "0">>, Len(question.value) + 1, 2)

Accesses == UNION {[1..n -> {"a", "b", "then", "inspect"}] : n \in 1..4}
AccessQuestions ==
  [law : {"access"}, accesses : Accesses, outcome : {"object", "junk", "error"},
   implResult : {"instance", "null", "other", B!Thrown}]

\* What is behind a proxy is made once, at the first access, and stays, for
\* better or worse; no proxy is taken for a promise.  (DeferredLoader,
\* MethodCacheProxyHandler, CommonBase, ObjectUtil)
MadeOnce ==
  question.law = "access" =>
    LET accesses == question.accesses
        Load(n) == FoldLeft(B!LoaderGet,
          [target |-> "null", outcome |-> question.outcome, properties |-> {"a"},
           runs |-> 0, last |-> "none"], SubSeq(accesses, 1, n))
        Get(got, i) ==
          LET next == B!ProxyGet(got.methods, accesses[i], <<accesses[i], i>>)
          IN [methods |-> next.methods, results |-> Append(got.results, next.result)]
        results == FoldLeft(Get, [methods |-> <<>>, results |-> <<>>],
                            [i \in DOMAIN accesses |-> i]).results
        first(i) == SelectInSeq(accesses, LAMBDA name : name = accesses[i])
        entries == [i \in DOMAIN accesses |->
                      [key |-> [kind |-> "string", name |-> accesses[i]], value |-> i]]
    IN /\ \A n \in DOMAIN accesses :
            /\ Load(n).runs = 1
            /\ Load(n).last = (IF question.outcome = "object" /\ accesses[n] = "a"
                               THEN "a" ELSE B!Thrown)
       /\ \A i \in DOMAIN accesses : accesses[i] \in {"a", "b"} =>
            results[i] = <<accesses[i], first(i)>>
       /\ \A i \in DOMAIN accesses : accesses[i] = "then" => results[i] = "undefined"
       /\ \A value \in {"instance", "other"} :
            LET coerced == B!Coerce(value, question.implResult)
            IN /\ coerced \in {"instance", B!Thrown}
               /\ coerced = "instance" => B!CoerceOrNull(value, question.implResult) = "instance"
       /\ \A i \in DOMAIN accesses :
            LET last == SelectLastInSeq(accesses, LAMBDA name : name = accesses[i])
            IN B!FromMap(entries)[accesses[i]] = last

Bundled(errors, names) == [what |-> "compile", errors |-> errors, names |-> names]
BundleEvents ==
  {Bundled(errors, names) : errors \in BOOLEAN, names \in SUBSET {"main", "test"}}
    \cup {[what |-> "request", name |-> name] : name \in {"main", "test"}} \cup {[what |-> "wait"]}
BundleQuestions == [law : {"bundle"}, events : UNION {[1..n -> BundleEvents] : n \in 1..4}]

\* The bundles are the ones that were written last before the last compilation
\* without errors; a request gets the one of its time, or waits while there is
\* none at all, and no longer.  (ClientBundle)
BundlesAreTheLast ==
  question.law = "bundle" =>
    LET events == question.events
        Files(i) == [name \in events[i].names |-> i]
        Do(b, i) ==
          CASE events[i].what = "compile" ->
                 S!HandleCompilation(b, [errors |-> events[i].errors, files |-> Files(i)])
            [] events[i].what = "request" -> S!HandleRequest(b, [who |-> i, name |-> events[i].name])
            [] OTHER -> S!HandleWaiting(b)
        After(n) == FoldLeft(Do, S!NewBundles, [i \in 1..n |-> i])
        good(n) == {i \in 1..n : events[i].what = "compile" /\ ~ events[i].errors}
        written(n, name) ==
          {i \in 1..n : /\ events[i].what = "compile" /\ name \in events[i].names
                        /\ \E j \in good(n) : i <= j}
        served(n, name) == IF written(n, name) = {} THEN 0 ELSE Max(written(n, name))
    IN \A n \in DOMAIN events :
         LET b == After(n)
             before == IF n = 1 THEN S!NewBundles ELSE After(n - 1)
             told == SubSeq(b.answers, Len(before.answers) + 1, Len(b.answers))
         IN /\ \A name \in {"main", "test"} :
                 /\ (name \in DOMAIN b.current) = (served(n, name) # 0)
                 /\ name \in DOMAIN b.current => b.current[name] = served(n, name)
            /\ \A i \in DOMAIN told :
                 told[i].file = served(n, events[told[i].who].name) /\ ~ S!BuildFails(b)
            /\ {t.who : t \in ToSet(told)} \cup {r.who : r \in b.waiting} =
                 {r.who : r \in before.waiting} \cup (IF events[n].what = "request" THEN {n} ELSE {})
            /\ events[n].what = "request" => S!BuildFails(b) = (told = <<>>)
            /\ events[n].what = "wait" /\ ~ S!BuildFails(b) => b.waiting = {}

Pieces ==
  {<<"a">>, <<"b", "n">>, <<"=">>, <<"space">>, <<S!NL>>, <<"#", "'">>, <<"'">>, <<"!">>,
   <<"dq", "#", S!Backslash, "n", "'", "dq">>, <<"'", S!Backslash, "!", "'">>}
Sources == {FlattenSeq(pieces) : pieces \in UNION {[1..n -> Pieces] : n \in 0..4}}
             \cup {<<"a", "=">> \o FlattenSeq(p) \o <<S!NL>> \o k \o <<"=">> \o FlattenSeq(q) :
                      k \in {<<"a">>, <<"b">>}, p, q \in UNION {[1..n -> Pieces] : n \in 1..2}}
ProppyQuestions == [law : {"proppy"}, source : Sources]
WrittenChars == {"a", "space", "=", "#", S!NL, S!Backslash, "'", "dq"}
QuotedQuestions ==
  [law : {"quoted"}, value : UNION {[1..n -> WrittenChars] : n \in 0..3}, quote : S!Quotes]

\* Lines that are properties each for themselves are together the properties
\* of both, or throw if a key is in both; and any value can be written in
\* quotes of either kind, and comes back.  (Proppy)
PropertiesComeBack ==
  /\ question.law = "proppy" =>
       LET source == question.source
           whole  == S!ParseString(source)
       IN \A i \in DOMAIN source :
            LET above == S!ParseString(SubSeq(source, 1, i - 1))
                below == S!ParseString(SubSeq(source, i + 1, Len(source)))
            IN source[i] = S!NL /\ above.ok /\ below.ok =>
                 IF DOMAIN above.map \cap DOMAIN below.map = {}
                 THEN whole = [ok |-> TRUE, map |-> above.map @@ below.map]
                 ELSE ~ whole.ok
  /\ question.law = "quoted" =>
       LET escaped(c) ==
             IF c = S!NL THEN <<S!Backslash, "n">>
             ELSE IF c \in {S!Backslash, question.quote} THEN <<S!Backslash, c>> ELSE <<c>>
           written == FlattenSeq([i \in DOMAIN question.value |-> escaped(question.value[i])])
       IN S!ParseString(<<"a", "space", "=", question.quote>> \o written \o <<question.quote>>) =
            [ok |-> TRUE, map |-> <<"a">> :> question.value]

\* Data is data all the way, and comes back from its text; of objects, errors
\* and bytes one sees what they are; and what is read and built at the start is
\* what was written.  (DataUtil, codec/; util-common/, util-core/; proppy,
\* ClientBundle)
DataLaws ==
  /\ DataIsData /\ CodedComesBack
  /\ PropertiesFound /\ InspectedToDepth /\ SharedWhole /\ TracesWhole /\ BytesKept
  /\ MadeOnce /\ BundlesAreTheLast /\ PropertiesComeBack

-----------------------------------------------------------------------------
(* Timestamps                                                              *)

Micros(t) == t.secs * UsecsPerSec + t.usecs
Amounts == (-(2 * UsecsPerSec + 1))..(2 * UsecsPerSec + 1)

TimeQuestions == [law : {"time"}, t : Timestamps, n : Amounts, m : Amounts]

\* Adding to a timestamp moves it by that much or throws, in one step or in
\* two, and comparing says which way; timeouts stay within their bounds.
\* (Timestamp, Timeouts, RevisionNumber)
TimeAddsUp ==
  question.law = "time" =>
    LET t == question.t
        n == question.n
        m == question.m
        moved == AddUsec(t, n)
        legal == Micros(t) + n \in (MinSecs * UsecsPerSec)..(MaxSecs * UsecsPerSec - 1)
    IN /\ (moved # BadTimestamp) = legal
       /\ legal => /\ Micros(moved) = Micros(t) + n
                   /\ CompareTo(moved, t) = (IF n > 0 THEN 1 ELSE IF n < 0 THEN -1 ELSE 0)
                   /\ AddUsec(moved, m) = AddUsec(t, n + m)
                   /\ moved = FromUsec(Micros(t) + n)
       /\ AddMsec(t, n) = AddUsec(t, n * UsecsPerMsec)
       /\ Clamp(n) = NoTimeout \/ Clamp(n) \in MinTimeout..MaxTimeout
       /\ RevNumMaxExc(n, m) => RevNumMaxInc(n, m) /\ RevNumOrNeg1(n) /\ RevNumChecks(m)

-----------------------------------------------------------------------------
(* Colors                                                                  *)

ColorQuestions == [law : {"color"}, seed : Hues, used : SUBSET Hues \ {{}}]

Angle(h1, h2) ==
  LET d == IF h1 < h2 THEN h2 - h1 ELSE h1 - h2
  IN IF d < Circle - d THEN d ELSE Circle - d

\* There is always a color, at most TopCandidates - 1 of the candidates are
\* farther round the circle from all that is in use, and it is a new color
\* unless there are very many carets: the scan over a list that was cut open
\* at hue 0 finds the distances on the circle.  (CaretColor.colorForCaret)
ColorsApart ==
  question.law = "color" =>
    LET seed == question.seed
        used == question.used
        Nearest(hue) == CHOOSE d \in 0..Circle :
          (\E u \in used : d = Angle(u, hue)) /\ \A u \in used : d <= Angle(u, hue)
        colors == ColorsForCaret(seed, used)
    IN /\ colors # {}
       /\ \A hue \in colors :
            Cardinality({h \in Candidates(seed) : Nearest(h) > Nearest(hue)}) < TopCandidates
       /\ Cardinality(used) <= InitialCandidates - TopCandidates => colors \cap used = {}

-----------------------------------------------------------------------------
(* Checks of arguments                                                     *)

IntValues == {C!Whole(n) : n \in (-C!MaxSafe - 1)..(C!MaxSafe + 1)}
NumberValues == IntValues \cup {C!Num("fraction", 0), C!Num("NaN", 0), C!Nil}
Characters == C!Digits \cup C!HexLetters \cup {"z", "-", "/"}
Texts == {C!Text(chars) : chars \in UNION {[1..n -> Characters] : n \in 0..3}}
Entries == UNION {[keys -> {C!Whole(0), C!Nil}] : keys \in SUBSET {"a", "z"}}
Things == {C!Thing(class, entries) :
             class \in {"Object", "Array", "Map", "Set", "FrozenBuffer"}, entries \in Entries}
Functions == {C!Func(written) : written \in C!HowWritten}
Keys == UNION {[1..n -> {"a", "z"}] : n \in 0..2}

Urls == [type : {"url"}, origin : {"none", "null", "https://a"}, path : {"", "/", "/b"},
         more : BOOLEAN]

CheckQuestions ==
  [law : {"check"}, v : NumberValues, a : NumberValues, b : NumberValues, keys : {<<>>}]
    \cup [law : {"check"}, v : Texts \cup Things \cup Functions \cup Urls,
          a : {C!Whole(0), C!Whole(1)}, b : {C!Whole(0), C!Whole(1)}, keys : Keys]

\* Each check agrees with the others: a range with its end in it and without,
\* integers with numbers, what is short with what is long, an identifier is a
\* label, exact keys are the keys, a function can be called or constructed, an
\* origin is not an absolute URL.
\* (typecheck/, CoreTypecheck)
ChecksAgree ==
  question.law = "check" =>
    LET v == question.v
        a == question.a
        b == question.b
        keys == question.keys
        zero == {C!Whole(0)}
        identifiers == {k \in {"a", "z"} : C!Identifier(C!Text(<<k>>))}
    IN /\ C!IsNumber(v) /\ C!IsSafe(a) /\ C!IsSafe(b) =>
            /\ C!IntRangeInc(v, a, b) =
                 (C!IntRange(v, a, b) \/ (v = b /\ a.n <= b.n))
            /\ C!IntRangeInc(v, a, b) = (C!IntMin(v, a) /\ C!IntMaxInc(v, b))
            /\ C!IntRange(v, a, b) = (C!IntMin(v, a) /\ C!IntMaxExc(v, b))
            /\ C!IsSafe(v) => /\ C!NumberRange(v, a, b) = C!IntRange(v, a, b)
                              /\ C!NumberRangeInc(v, a, b) = C!IntRangeInc(v, a, b)
                              /\ C!NonNegative(v) = C!IntMin(v, C!Whole(0))
            /\ ~ C!IsSafe(v) => ~ C!IntRange(v, a, b)
       /\ ~ C!IsSafe(a) /\ a # C!NoBound => ~ C!IntMin(v, a) /\ ~ C!IntMaxInc(v, a)
       /\ C!Identifier(v) => C!Label(v)
       /\ C!Label(v) => C!NonEmpty(v)
       /\ C!IsString(v) =>
            /\ C!NonEmpty(v) = C!MinLen(v, 1)
            /\ \A n \in 0..3 : C!MaxLen(v, n) = ~ C!MinLen(v, n + 1)
            /\ \A n \in 0..2 : C!HexBytes(v, n, n) =>
                 C!MinLen(v, 2 * n) /\ C!MaxLen(v, 2 * n)
            /\ C!StringOrNull(v) /\ ~ C!ObjectOrNull(v) /\ ~ C!PlainOrNull(v)
       /\ v \in Things =>
            /\ C!WithExactKeys(v, keys) =>
                 C!PlainWith(v, {w \in NumberValues : C!IsNumber(w)}) \/ \E k \in Range(keys) : v.entries[k] = C!Nil
            /\ IsInjective(keys) =>
                 C!WithExactKeys(v, keys) = (C!Plain(v) /\ DOMAIN v.entries = Range(keys))
            /\ Cardinality({class \in {"Object", "Array", "Map", "Set", "FrozenBuffer"} :
                              C!CheckInstance(v, class)}) = 1
            /\ C!IterableCheck(v, zero \cup {C!MapEntry(k, z) : k \in identifiers, z \in zero}) =
                 (\/ C!ArrayCheck(v, zero) \/ C!SetCheck(v, zero)
                  \/ C!MapCheck(v, identifiers, zero))
       /\ v.type = "url" => ~ (C!UrlAbsolute(v) /\ C!UrlOrigin(v))
       /\ v.type = "function" =>
            /\ C!IsCallable(v) \/ C!IsClass(v)
            /\ C!CheckObject(v) /\ ~ C!Plain(v)
            /\ \A w \in Functions :
                 C!IsSubclass(v, w, {<<w, v>>}) => C!IsClass(v) /\ (v = w)

-----------------------------------------------------------------------------
(* The start of a server                                                    *)

Flag(name, value) == [kind |-> "option", name |-> name, value |-> value]
Arguments1 ==
  {Flag(name, "yes") : name \in {"dev", "production", "dev-if-appropriate", "client-test",
                                 "client-bundle", "server-test", "help", "human-console"}}
    \cup {Flag("dev", "no"), Flag("test-filter", "x"), Flag("test-out", "file"),
          [kind |-> "unknown", name |-> "odd", value |-> "yes"],
          [kind |-> "positional", name |-> "", value |-> ""]}
Worlds ==
  [envOk : BOOLEAN, monitorPort : BOOLEAN, monitorOk : BOOLEAN, listenOk : BOOLEAN,
   fails : BOOLEAN, inDevelopment : BOOLEAN, alreadyRunning : BOOLEAN, testsPass : BOOLEAN,
   bundlesBuilt : BOOLEAN]
GoodWorld ==
  [envOk |-> TRUE, monitorPort |-> TRUE, monitorOk |-> TRUE, listenOk |-> TRUE, fails |-> FALSE,
   inDevelopment |-> TRUE, alreadyRunning |-> FALSE, testsPass |-> TRUE, bundlesBuilt |-> TRUE]
StartQuestions ==
  [law : {"start"}, world : {GoodWorld}, args : UNION {[1..n -> Arguments1] : n \in 0..3}]
    \cup [law : {"start"}, world : Worlds, args : UNION {[1..n -> Arguments1] : n \in 0..1}]

\* The order of the options makes no difference; the process stays if and
\* only if it listens for what is not a test, whatever becomes of the monitor;
\* it ends well only if all it was asked for went well; nothing of debugging
\* is served in production; and tests of clients leave a server that runs
\* alone.  (Options, Server, Action)
StartsAsAsked ==
  question.law = "start" =>
    \A options \in {S!ParseOptions(question.args)},
       result \in {S!ServerRun(question.args, question.world)} :
    LET args  == question.args
        world == question.world
        done  == ToSet(result.done)
        names == {step[1] : step \in done}
        swapped(i) == [args EXCEPT ![i] = args[i + 1], ![i + 1] = args[i]]
    IN /\ \A i \in 1..(Len(args) - 1) :
            args[i].name # args[i + 1].name => S!ParseOptions(swapped(i)) = options
       /\ S!ServerRun(args, [world EXCEPT !.monitorOk = ~ @]).exit = result.exit
       /\ (result.exit = S!RunsOn) =
            (S!IsFullRun(options.action) /\ ~ options.error /\ world.envOk /\ world.listenOk)
       /\ result.exit = S!RunsOn => S!Step("listen", "configured") \in done
       /\ result.exit = 0 =>
            \/ "bundle" \in names /\ world.bundlesBuilt
            \/ names \cap {"client tests", "server tests"} # {} /\ world.testsPass
            \/ options.action = "help" /\ "usage" \in names
       /\ S!Step("app", "debug") \in done =>
            \/ options.action \in {"dev", "client-test"}
            \/ options.action = "dev-if-appropriate" /\ world.inDevelopment
       /\ world.alreadyRunning /\ "client tests" \in names => names \cap {"env", "app", "listen"} = {}
       /\ "dev mode" \in names => "listen" \in names /\ world.listenOk

Percents == {[isNumber |-> TRUE, n |-> n] : n \in {-1, 0, 1, 49, 50, 99, 100, 101}}
              \cup {[isNumber |-> FALSE, n |-> 0]}
DirPaths == UNION {[1..n -> {"a", "b"}] : n \in 0..3}
Closed(paths) == \A p \in paths : p = <<>> \/ Front(p) \in paths
EnvQuestions ==
  [law : {"fail"}, percent : Percents, type : {"justLogging", "none", "bogus"}, allowed : BOOLEAN,
   asked : {"any", "justLogging"}]
    \cup [law : {"base"}, dir : DirPaths, infoFiles : SUBSET {<<"a">>, <<"a", "b">>, <<"b">>}]
    \cup [law : {"ensure"}, dir : DirPaths \ {<<>>}, files : SUBSET {<<"b">>, <<"a", "b">>},
          directories : {ds \in SUBSET {<<>>, <<"a">>, <<"a", "a">>} : Closed(ds) /\ ds # {}}]

\* As many servers fail as the percentage says, and none before they may; the
\* product is in the nearest directory that says so; a directory is there, or
\* it is known that it is not.  (ArtificialFailureInfo, Dirs)
SurroundingsKnown ==
  /\ question.law = "fail" =>
       LET info == S!ParseFailure(question.percent, question.type)
           failing == {hash \in 0..255 : S!ShouldFail(info, question.allowed, question.asked, hash)}
           expected == IF question.asked # "any" /\ info.type # question.asked THEN 0 ELSE info.percent
       IN IF question.allowed THEN Cardinality(failing) * 100 - expected * 256 \in 0..99
          ELSE failing = {}
  /\ question.law = "base" =>
       LET base == S!FindBaseDirectory(question.dir, question.infoFiles)
           above == {d \in question.infoFiles : IsPrefix(d, question.dir)}
       IN IF above = {} THEN base = S!NotFound
          ELSE base \in above /\ \A d \in above : IsPrefix(d, base)
  /\ question.law = "ensure" =>
       LET ensured == S!EnsureDir(question.directories, question.files, question.dir)
       IN /\ ensured.ok = (question.dir \in ensured.directories)
          /\ Closed(ensured.directories)
          /\ ensured.directories \cap question.files = {}

\* What is reckoned with bounds: times, arguments, hues round a circle, and what
\* may be asked of a server that starts.  (Timestamp, Timeouts, typecheck/,
\* CaretColor; Options, Action, Server, ArtificialFailureInfo, Dirs)
BoundLaws == TimeAddsUp /\ ChecksAgree /\ ColorsApart /\ StartsAsAsked /\ SurroundingsKnown

-----------------------------------------------------------------------------
(* Logging                                                                 *)

Chars == {"c", Lines!NL}
Short == UNION {[1..n -> Chars] : n \in 0..2}
Logged == [kind : {"string"}, text : Short] \cup [kind : {"instance"}, class : {"Error"}, text : Short]
TextQuestions ==
  [law : {"text"}, args : UNION {[1..n -> Logged] : n \in 0..3}, level : {"info", "error"},
   stack : {<<>>, <<"frame", "frame">>}]

\* On the console no line is too wide, and all of the text is there, cut or
\* not, but for the end of a long event.
WrittenWhole(kind, text) ==
  LET cut   == SubSeq(text, 1, Min({4, Len(text)}))
      shown == IF kind = "event" THEN Lines!EventText(text, 4) ELSE text
      lines == Lines!LinesOf(shown)
  IN /\ kind = "event" =>
          /\ IsPrefix(cut, shown) \/ Lines!HasNL(cut)
          /\ Len(text) <= 4 => shown = text
          /\ Len(text) > 4 => IsSuffix(Lines!Ellipsis, shown) /\ Len(shown) <= 4 + 3 + 3
     /\ \A width \in {3, 7} :
          LET out == Lines!WriteLines(lines, 2, width)
              wide == \E i \in DOMAIN lines : Len(lines[i]) > width - 2
          IN /\ \A i \in DOMAIN out : Len(out[i].text) + 2 <= width
             /\ FlattenSeq([i \in DOMAIN out |-> out[i].text]) = FlattenSeq(lines)
             /\ out[1].indent = "prefix"
             /\ wide = (out[1].text = <<>> /\ Len(out) > Len(lines))
             /\ Cardinality({i \in DOMAIN out : out[i].indent \in {"prefix", "spaces", "  "}}) =
                  Len(lines) + (IF wide THEN 1 ELSE 0)

\* Every piece of a message is in its text, in order: a piece of several lines
\* on lines of its own, the others one space apart, and the frames of the
\* stack on a line each, if the level has it and no error comes with its own.
\* (LogRecord.messageString, inspectValue)
TextIsLaidOut ==
  question.law = "text" =>
    LET pieces == [i \in DOMAIN question.args |-> Lines!InspectValue(question.args[i])]
        record == Lines!ForMessage(0, question.stack, <<"tag">>, question.level, question.args)
        told   == question.level = "error" /\ \A i \in DOMAIN question.args :
                                                question.args[i].kind = "string"
        stack  == IF told THEN question.stack ELSE <<>>
        multi(i) == Lines!HasNL(pieces[i])
        any == \E i \in DOMAIN pieces : multi(i)
        after(i) == IF multi(i) THEN <<>>
                    ELSE IF i < Len(pieces) THEN <<IF multi(i + 1) THEN Lines!NL ELSE Lines!Space>>
                    ELSE IF any THEN <<Lines!NL>> ELSE <<>>
        lines == FlattenSeq([i \in DOMAIN pieces |-> pieces[i] \o after(i)])
        text  == Lines!MessageString(record)
    IN /\ text = lines
            \o (IF stack # <<>> /\ ~ any THEN <<Lines!NL>> ELSE <<>>)
            \o FlattenSeq([i \in DOMAIN stack |-> <<Lines!Space, Lines!Space, stack[i], Lines!NL>>])
       /\ Lines!HasNL(text) => Lines!EndsLine(text)
       /\ \A n \in 3..4 : Len(Lines!TruncateString(text, n)) <= n
       /\ \A kind \in {"message", "event"} : WrittenWhole(kind, text)

Long == {Array(TRUE, [i \in 1..n |-> Number("0")]) : n \in 10..11}
Names21 == {"a", "b", "c", "d", "e", "f", "g", "h", "i", "j", "k", "l", "m", "n", "o", "p", "q",
            "r", "s", "t", "u"}
Wide == {Object(FALSE, [k \in names |-> Number("0")]) : names \in {Names21, Names21 \ {"a"}}}
Deep == {Array(FALSE, <<v, Functor("f", <<Object(TRUE, [k \in {"k"} |-> v])>>)>>) : v \in Nested}
RedactQuestions ==
  [law : {"redact"}, value : Leaves \cup Flat \cup Nested \cup Deep \cup Long \cup Wide \cup {Token},
   depth : 0..3]

Schemas ==
  {Lines!NoTarget} \cup {[declared |-> d] : d \in {<<>>} \cup [result : BOOLEAN]
     \cup [args : {<<TRUE>>, <<FALSE, TRUE>>}] \cup [args : {<<TRUE>>}, result : BOOLEAN]}
Arguments == {Number("0"), Null, Token, Caret0} \cup Flat
CallQuestions ==
  [law : {"call"}, target : Schemas, args : {<<a>> : a \in Arguments} \cup
     {<<a, b>> : a \in {Token, String("x")}, b \in Arguments},
   result : Arguments, shouldRedact : BOOLEAN]

\* That only types are told: no number, text or bytes of the original.
OnlyTypes(v) ==
  \A w \in Within(v) : /\ w.kind \notin {"number", "boolean", "buffer", "instance"}
                       /\ w.kind = "string" =>
                            w \in {Lines!Dots, String("length"), String("more")}

RECURSIVE Depth(_)
Depth(v) ==
  IF ~ IsContainer(v) \/ DOMAIN Parts(v) = {} THEN 0
  ELSE 1 + CHOOSE d \in 0..10 : /\ \E k \in DOMAIN Parts(v) : Depth(Parts(v)[k]) = d
                                /\ \A k \in DOMAIN Parts(v) : Depth(Parts(v)[k]) <= d

\* What is redacted has the shape of the value to the depth that is asked for,
\* and nothing else of it; a record of a call tells an argument or a result
\* only if nothing is to be redacted, or the schema of a known target says
\* so; and whatever was called, there is a record.  (RedactUtil, Target,
\* ApiLog, BaseLogger)
OnlyTypesAreTold ==
  /\ question.law = "redact" =>
       LET redacted == Lines!RedactValues(question.value, question.depth)
       IN /\ OnlyTypes(redacted) /\ Depth(redacted) <= question.depth + 1
          /\ IsContainer(redacted) =>
               Cardinality(DOMAIN Parts(redacted)) <= Lines!MaxObjectKeys + 1
  /\ question.law = "call" =>
       LET target == question.target
           record == Lines!LoggedCall(target, Functor("f", question.args), question.result,
                                  question.shouldRedact)
           declared == IF target = Lines!NoTarget THEN <<>> ELSE target.declared
           told(i) == "args" \in DOMAIN declared /\ i \in DOMAIN declared.args /\ declared.args[i]
           toldResult == "result" \in DOMAIN declared /\ declared.result
       IN /\ record # Lines!Thrown
          /\ question.shouldRedact =>
               /\ target = Lines!NoTarget => OnlyTypes(record.payload.args[1])
               /\ target # Lines!NoTarget => \A i \in DOMAIN question.args :
                    told(i) \/ OnlyTypes(record.payload.args[1].args[i])
               /\ toldResult \/ OnlyTypes(record.payload.args[2])
          /\ Lines!IsEvent(record) /\ ~ Lines!IsMetric(record)
          /\ \A shown \in {Lines!ConsoleEvent(Functor("e", question.args)),
                            Lines!ConsoleMetric(question.args),
                            Lines!ConsoleMessage(question.args)} :
               /\ Len(SelectSeq(shown.format, LAMBDA f : f \in Lines!Directives)) = Len(shown.args)
               /\ \A i \in DOMAIN question.args : question.args[i].kind \notin {"functor", "array"} =>
                    question.args[i] \in ToSet(shown.args) \/ Len(question.args) > 1
          /\ Lines!Redact(record, Functor("f", <<Lines!Dots>>), <<"other">>).payload.args = <<Lines!Dots>>

\* What is logged is laid out whole, and tells of calls what it may; its readers
\* know when it was, find the end of it in the recent log, and see it in line;
\* and what a run of the tests reports is true.
\* (LogRecord, RedactUtil, Target, ApiLog; AllSinks and the sinks; TestRun)
LogLaws ==
  /\ TextIsLaidOut /\ OnlyTypesAreTold
  /\ Lines!LinesAreDated /\ Lines!RecentIsTheEnd /\ Lines!PrefixFits
  /\ Tests!ReportIsTrue /\ Tests!ConsoleIsOwn

-----------------------------------------------------------------------------
(* The operations of deltas                                                *)

SomeText == O!String(<<"a", O!NL>>)
Entry1(k, v) == [x \in {k} |-> v]
Attributes == {O!Plain(Entry1("bold", O!Number(2))), O!Plain([k \in {} |-> O!Null])}
Embedded == {O!Plain(Entry1("image", O!Number(2))), O!Plain(Entry1("line", O!Null))}
QuillValues ==
  Attributes \cup Embedded
    \cup {O!Null, O!Undefined, O!String(<<>>), SomeText, O!Number(0), O!Number(2),
          O!Plain([k \in {"image", "line"} |-> O!Null])}
QuillKeys == {"insert", "delete", "retain", "attributes", "more"}
QuillForms ==
  {O!Plain(f) : f \in UNION {[keys -> QuillValues] : keys \in {k \in SUBSET QuillKeys : Cardinality(k) <= 2}}}
    \cup {O!Plain(f) : f \in UNION {[keys -> {O!Undefined, SomeText, O!Number(2)}] :
                         keys \in {k \in SUBSET QuillKeys : Cardinality(k) = 3}}}
    \cup {O!Null, SomeText}

AttributesOrNull == {v \in QuillValues : O!IsPlain(v)} \cup {O!Null}
BodyOps ==
  {O!OpDelete(O!Number(2))}
    \cup {O!OpRetain(O!Number(2), at) : at \in AttributesOrNull}
    \cup {O!OpText(SomeText, at) : at \in AttributesOrNull}
    \cup {O!OpEmbed(type, v, at) : type \in {"image", "line", "bold"}, v \in QuillValues,
                                   at \in AttributesOrNull}

QuillQuestions == [law : {"quill"}, q : QuillForms, op : {O!OpDelete(O!Number(2))}]
                    \cup [law : {"quill"}, q : {O!Null}, op : BodyOps]

TextOf(graphemes) == O!OpText(O!String(graphemes), O!Null)
TextOps == {TextOf(t) : t \in UNION {[1..n -> {"a", O!NL}] : n \in 1..2}}
BodyContents ==
  {<<>>} \cup {<<t>> : t \in TextOps}
    \cup {<<e, t>> : e \in TextOps \cup {O!OpEmbed("image", O!Null, O!Null)}, t \in TextOps}
EditOps == {TextOf(<<"a">>)} \cup {O!OpRetain(O!Number(n), O!Null) : n \in 1..3}
             \cup {O!OpDelete(O!Number(n)) : n \in 1..2}
BodyQuestions ==
  [law : {"body"}, ops : BodyContents, edit : {<<e>> : e \in EditOps} \cup
     {<<e, f>> : e, f \in EditOps}, class : {"Array", "ours", "another Delta", "null", "Object"},
   range : {O!Null, O!Plain([k \in {"index", "length"} |-> O!Number(0)]),
            O!Plain([k \in {"index", "length", "more"} |-> O!Number(0)]),
            O!Plain(Entry1("index", O!Number(0)))}]

\* A body op has one Quill form, which gives it back, and nothing else has;
\* so have deltas and the events of the editor.  A document has a last line,
\* which it ends, and a change that fits what is in it is valid.  (BodyOp,
\* BodyDelta, BodySnapshot, QuillEvents; in a text of graphemes of one code
\* unit each, as Quill counts code units)
QuillGivesBack ==
  /\ question.law = "quill" =>
       LET q  == question.q
           op == O!FromQuillForm(q)
       IN /\ O!IsThrown(op) = ~ \E o \in BodyOps : O!ToQuillForm(o) = q
          /\ ~ O!IsThrown(op) => O!ToQuillForm(op) = q
          /\ O!FromQuillForm(O!ToQuillForm(question.op)) = question.op
  /\ question.law = "body" =>
       LET delta == [ops |-> question.ops]
           edit  == [ops |-> question.edit]
           quill == [O!DeltaToQuillForm(delta) EXCEPT !.class = question.class]
           back  == O!DeltaFromQuillForm(quill)
           event == [name |-> "text-change", args |-> <<quill, O!DeltaToQuillForm(edit), "user">>]
           fixed == O!FixPayload(event)
           moved == O!FixPayload([name |-> "selection-change",
                                  args |-> <<question.range, O!Null, "user">>])
           reach(op) == IF op.name \in {"retain", "delete"} THEN op.args.count.n ELSE 0
           span == FoldLeft(LAMBDA sum, op : sum + reach(op), 0, edit.ops)
           chars == FlattenSeq([i \in DOMAIN delta.ops |->
                      IF delta.ops[i].name = "text" THEN delta.ops[i].args.text.text ELSE <<"e">>])
       IN /\ IF question.class \in {"Array", "ours"} THEN back = delta ELSE O!IsThrown(back)
          /\ IF question.class \in {"Array", "ours"}
             THEN O!PropsOf(fixed) = [name |-> "text-change", delta |-> delta, oldContents |-> edit,
                                      source |-> "user"]
             ELSE O!IsThrown(fixed)
          /\ IF O!IsThrown(moved) THEN "length" \notin DOMAIN question.range.entries
             ELSE LET range == O!PropsOf(moved).range
                  IN range = O!Null \/ DOMAIN range.entries = {"index", "length"}
          /\ O!IsBodyDocument(delta) = (chars = <<>> \/ Last(chars) = O!NL)
          /\ O!LengthOf(delta) = Len(chars)
          /\ span <= Len(chars) => O!ValidateChange(delta, edit)
          /\ O!ValidateChange(delta, edit) =>
               \A i \in DOMAIN edit.ops : edit.ops[i].name = "retain" => reach(edit.ops[i]) <= Len(chars)

Both(v) == [f \in {"f", "g"} |-> v]
CaretSets == {O!OpSet(id, Both(v)) : id \in {"a", "b"}, v \in 0..1}
CaretEdits ==
  CaretSets \cup {O!OpRemove(id) : id \in {"a", "b"}}
    \cup {O!OpSetField(id, k, 1) : id \in {"a", "b"}, k \in {"f", "g"}}
    \cup {O!OpSetField(id, "f", 0) : id \in {"a", "b"}}
PropertySets == {O!OpSet(id, v) : id \in {"a", "b"}, v \in 0..1}
PropertyEdits == PropertySets \cup {O!OpRemove(id) : id \in {"a", "b"}}

UpTo1(ops) == {<<>>} \cup {<<op>> : op \in ops}
UpTo2(ops) == UpTo1(ops) \cup {<<op1, op2>> : op1, op2 \in ops}
KeyedDocuments(sets) == {ops \in UpTo2(sets) : O!IsKeyedDocument(ops)}

KeyedQuestions ==
  [law : {"keyed"}, carets : {TRUE}, document : KeyedDocuments(CaretSets),
   first : UpTo2(CaretEdits), second : UpTo1(CaretEdits)]
    \cup [law : {"keyed"}, carets : {FALSE}, document : KeyedDocuments(PropertySets),
          first : UpTo2(PropertyEdits), second : UpTo2(PropertyEdits)]

\* What a delta that has been composed amounts to for each ID.
AmountsTo(ops, carets) ==
  [id \in {ops[i].id : i \in DOMAIN ops} |->
     LET about == SelectSeq(ops, LAMBDA op : op.id = id)
         of(k) == CHOOSE i \in DOMAIN about : about[i].key = k
     IN IF ~ carets THEN (IF about[1].op = "set" THEN about[1].value ELSE 9)
        ELSE CASE about[1].op = "set" -> K!Add(about[1].value)
               [] about[1].op = "delete" -> K!Delete
               [] OTHER -> K!Set([k \in {about[i].key : i \in DOMAIN about} |->
                                    about[of(k)].value])]

\* Composing keeps one entry for an ID: what is left of it is what the rest of
\* the server is modelled with.  Composing with a document does the ops one
\* after the other, in one delta or in several, and the result has every ID
\* once.  A difference leads from one snapshot to the other.  What is put in is
\* there, what is taken out is not, and the rest stays.  (CaretDelta,
\* CaretSnapshot, Caret, PropertyDelta, PropertySnapshot, BaseDelta)
KeysAgree ==
  question.law = "keyed" =>
    LET carets == question.carets
        value  == IF carets THEN Both(1) ELSE 1
    IN
    \A one \in {O!ComposeKeyed(question.first, question.second, FALSE)},
       inTwo \in {O!ComposeAllKeyed(question.document, <<question.first, question.second>>, TRUE)},
       old \in {O!KeyedSnapshot(0, question.document)} :
    \A inOne \in {O!ComposeKeyedSnapshot(old, 1, one)} :
    \A new \in {IF O!IsThrown(inOne) THEN old ELSE inOne} :
    \A diff \in {O!DiffSnapshots(old, new, carets)}, with \in {O!WithEntry(new, "a", value)} :
    LET first  == O!ComposeKeyed(<<>>, question.first, FALSE)
        second == O!ComposeKeyed(<<>>, question.second, FALSE)
    IN /\ IF carets
          THEN /\ AmountsTo(one, TRUE) =
                    K!ComposeCaretDeltas(AmountsTo(first, TRUE), AmountsTo(second, TRUE))
               /\ O!IsThrown(inOne) = ~ K!Applicable(old.map, AmountsTo(one, TRUE))
               /\ ~ O!IsThrown(inOne) =>
                    new.map = K!ComposeCarets(old.map, AmountsTo(one, TRUE))
               /\ AmountsTo(diff, TRUE) = K!DiffCarets(old.map, new.map)
               /\ \A id \in DOMAIN old.map \cap DOMAIN new.map :
                    LET before == [id |-> id, fields |-> old.map[id]]
                        after  == [id |-> id, fields |-> new.map[id]]
                    IN O!ComposeCaret(before, O!DiffCaret(before, after)) = after
          ELSE /\ ~ O!IsThrown(inOne)
               /\ new.map = P!ComposeProperties(old.map, AmountsTo(one, FALSE))
               /\ AmountsTo(diff, FALSE) = P!DiffProperties(old.map, new.map)
       /\ inTwo # O!NotADocument =>
            /\ ~ O!IsThrown(inOne)
            /\ O!KeyedEquals(O!KeyedSnapshot(1, inTwo), inOne)
       /\ O!IsKeyedDocument(new.contents) /\ O!Size(new) = Cardinality(DOMAIN new.map)
       /\ O!KeyedEquals(O!ComposeKeyedSnapshot(old, new.revNum, diff), new)
       /\ O!Get(with, "a") = value /\ Without(with.map, {"a"}) = Without(new.map, {"a"})
       /\ O!Size(with) = O!Size(O!WithoutEntry(with, "a")) + 1
       /\ O!UnusedIds(O!WithoutEntry(with, "a"), {"a", "b"}) =
            {"a"} \cup O!UnusedIds(new, {"a", "b"})
       /\ ToSet(O!EntriesOf(new)) = {<<id, new.map[id]>> : id \in DOMAIN new.map}

\* The ops that the clients and the server exchange mean to either what they
\* mean to the other, and to the contents they are for.  (doc-common/)
OpLaws == QuillGivesBack /\ KeysAgree

-----------------------------------------------------------------------------
Init == question = Nothing /\ Lines!Init /\ Tests!Init

NoTests == runner.phase = "between" /\ runner.begun = {} /\ happened = <<>> /\ logs = 0
Begun == where = "server" /\ NoTests   \* one of the initial states

AskOf(questions) ==
  /\ question = Nothing /\ logged = <<>> /\ Begun
  /\ question' \in questions
  /\ UNCHANGED <<lineVars, testVars>>

AskFile  == AskOf(FileQuestions)
AskData  == AskOf(DataQuestions)
AskCodec == AskOf(CodecQuestions)
AskTime  == AskOf(TimeQuestions)
AskColor == AskOf(ColorQuestions)
AskCheck == AskOf(CheckQuestions)
AskLog   == AskOf(TextQuestions \cup RedactQuestions \cup CallQuestions)
AskObject == AskOf(ChainQuestions \cup TreeQuestions \cup SharedQuestions \cup TraceQuestions
                     \cup PathQuestions \cup BufferQuestions \cup AccessQuestions)
AskBundle == AskOf(BundleQuestions \cup ProppyQuestions \cup QuotedQuestions)
AskStart == AskOf(StartQuestions \cup EnvQuestions)
AskOps   == AskOf(QuillQuestions \cup BodyQuestions \cup KeyedQuestions)

\* A line is logged instead.
LogLine == question = Nothing /\ Begun /\ Lines!Next /\ UNCHANGED <<question, testVars>>

\* Tests are run instead.
RunTests ==
  question = Nothing /\ logged = <<>> /\ Tests!Next /\ UNCHANGED <<question, lineVars>>

Next == AskFile \/ AskData \/ AskCodec \/ AskTime \/ AskColor \/ AskCheck \/ AskLog
          \/ AskObject \/ AskBundle \/ AskStart \/ AskOps \/ LogLine \/ RunTests

vars == <<question, lineVars, testVars>>
Spec == Init /\ [][Next]_vars
=============================================================================
