-------------------------------- MODULE Objects --------------------------------
(***************************************************************************)
(* What the program finds out about objects, errors and bytes:             *)
(* PropertyIterable, IterableUtil, DeferredLoader, MethodCacheProxyHandler *)
(* and ErrorUtil (util-common/); CommonBase, ObjectUtil, Errors and        *)
(* FrozenBuffer (util-core/); and the schema of a target of the API.       *)
(*                                                                         *)
(* An object is the sequence of its prototypes, itself first; each of them *)
(* has its own properties: a function from names to "method", "class",     *)
(* "getter" or "data".                                                     *)
(***************************************************************************)
EXTENDS Integers, Sequences, SequencesExt, FiniteSets, Functions, TLC

CONSTANTS
  Symbols,        \* the names that are symbols
  Privates,       \* the names that begin with `_`
  MaxPath         \* MAX_PATH, of stackLines()

\* In place of a value, of an object, and of bytes
Thrown == "thrown"
ThrownObject == [thrown |-> TRUE]
ThrownBytes == <<"thrown">>

-----------------------------------------------------------------------------
(* PropertyIterable.  A filter is the set of the descriptors it lets pass. *)

\* Every property of every prototype, hidden ones too
Descriptors(object) ==
  UNION {{[name |-> n, target |-> at, what |-> object[at][n]] : n \in DOMAIN object[at]} :
           at \in DOMAIN object}

OnlyMethods(filter) == {d \in filter : d.what = "method"}
OnlyNames(filter) == {d \in filter : d.name \notin Symbols}
SkipNames(filter, names) == {d \in filter : d.name \in Symbols \/ d.name \notin names}
OnlyPublic(filter) == SkipNames(OnlyNames(filter), Privates \cup {"constructor"})
OnlyPublicMethods(filter) == OnlyMethods(OnlyPublic(filter))
SkipMethods(filter) == {d \in filter : d.what \notin {"method", "class"}}
SkipSynthetic(filter) == {d \in filter : d.what # "getter"}
\* The class has the last prototypes, from one on.
SkipTarget(filter, from) == {d \in filter : d.target < from}

\* Mutant: what is filtered does not hide what is below it.
IteratorUnhidden(object, filter) ==
  LET Visit(sofar, at) ==
        LET new == {d \in filter : d.target = at /\ d.name \notin sofar.covered}
        IN [covered |-> sofar.covered \cup {d.name : d \in new}, found |-> sofar.found \cup new]
  IN FoldLeft(Visit, [covered |-> {}, found |-> {}], [i \in DOMAIN object |-> i]).found

Iterator(object, filter) ==
  LET Visit(sofar, at) ==
        [covered |-> sofar.covered \cup DOMAIN object[at],
         found |-> sofar.found
           \cup {d \in filter : d.target = at /\ d.name \notin sofar.covered}]
  IN FoldLeft(Visit, [covered |-> {}, found |-> {}], [i \in DOMAIN object |-> i]).found

\* Schema._makeSchemaFor(): the prototypes of CommonBase (or Object) begin at from.
MethodsOf(object, from) ==
  LET all == SkipTarget(Descriptors(object), from)
  IN {d.name : d \in Iterator(object, SkipNames(OnlyPublicMethods(all), {"then", "catch"}))}

-----------------------------------------------------------------------------
(* CommonBase                                                              *)

\* mixInto(): what the class has it keeps.
MixInto(class, base) == class @@ base

\* A value is "instance" or "other"; implResult is what _impl_coerce() gives.
Coerce(value, implResult) ==
  IF value = "instance" THEN value
  ELSE IF implResult = "instance" THEN implResult ELSE Thrown

\* _impl_coerceOrNull() makes null of all that _impl_coerce() throws.
CoerceOrNull(value, implResult) ==
  LET result == IF implResult = Thrown THEN "null" ELSE implResult
  IN IF value = "instance" THEN value
     ELSE IF result \in {"instance", "null"} THEN result ELSE Thrown

\* The names that _inspectLikeMap() shows; CommonBase.prototype is at from.
KeysToInspect(object, from) ==
  {n \in UNION {DOMAIN object[at] : at \in 1..(from - 1)} :
     /\ n \notin Symbols \cup Privates
     /\ \E at \in 1..(from - 1) : n \in DOMAIN object[at] /\ object[at][n] = "getter"}

\* [inspect.custom](): a value is a leaf, or of a class that has parts; what has none is shown.
Leaf == [class |-> "none", like |-> "leaf", parts |-> <<>>]
Unlimited == 99
\* _inspectLikeConstructor() (and the other) at this depth
IsElided(value, depth) == depth < 0 /\ ~ (value.like = "constructor" /\ value.parts = <<>>)
RECURSIVE InspectCustom(_, _)
InspectCustom(value, depth) ==
  IF value = Leaf THEN [shown |-> "leaf", parts |-> <<>>]
  ELSE IF IsElided(value, depth) THEN [shown |-> "...", parts |-> <<>>]
  ELSE [shown |-> "all",
        parts |-> [i \in DOMAIN value.parts |->
                     InspectCustom(value.parts[i], IF depth = Unlimited THEN depth ELSE depth - 1)]]

-----------------------------------------------------------------------------
(* ObjectUtil                                                              *)

Extract(object, keys) ==
  IF keys \subseteq DOMAIN object THEN Restrict(object, keys) ELSE ThrownObject

\* A key of a map is [kind, name]; a number has the name of its digits.
FromMap(entries) ==
  IF \E e \in ToSet(entries) : e.key.kind \notin {"string", "symbol", "natural"} THEN ThrownObject
  ELSE FoldLeft(LAMBDA object, e : (e.key.name :> e.value) @@ object, <<>>, entries)

-----------------------------------------------------------------------------
(* IterableUtil.multiUseSafe(): one iterator of `source` for many users.   *)
(* What was taken from it is in `elements`; each user is `at` one of them. *)

NewIterable(users) ==
  [elements |-> <<>>, taken |-> 0, done |-> FALSE,
   at |-> [u \in users |-> 0], got |-> [u \in users |-> <<>>], ended |-> {}]

\* Mutant: a user goes on where the iterator is.
NextShared(it, user, source) ==
  IF it.taken < Len(source)
    THEN [it EXCEPT !.taken = @ + 1, !.elements = Append(@, source[it.taken + 1]),
                    !.at[user] = it.taken + 1, !.got[user] = Append(@, source[it.taken + 1])]
    ELSE [it EXCEPT !.done = TRUE, !.ended = @ \cup {user}]

\* A user asks for the next: one that was taken before, or a new one.
NextOf(it, user, source) ==
  LET more == ~ it.done /\ it.taken < Len(source)
      elements == IF more /\ it.at[user] = Len(it.elements)
                    THEN Append(it.elements, source[it.taken + 1]) ELSE it.elements
  IN IF it.at[user] < Len(elements)
       THEN [it EXCEPT !.elements = elements, !.taken = Len(elements),
                       !.at[user] = @ + 1, !.got[user] = Append(@, elements[it.at[user] + 1])]
       ELSE [it EXCEPT !.done = TRUE, !.ended = @ \cup {user}]

-----------------------------------------------------------------------------
(* DeferredLoader, MethodCacheProxyHandler                                 *)

\* get(): the loader runs at the first access; a value that is no object, and
\* what it throws, is thrown from then on.
LoaderGet(loader, property) ==
  LET loaded == IF loader.target # "null" THEN loader
                ELSE [target |-> IF loader.outcome = "object" THEN "object" ELSE "error",
                      outcome |-> loader.outcome, properties |-> loader.properties,
                      runs |-> loader.runs + 1, last |-> "none"]
  IN [loaded EXCEPT !.last =
        IF loaded.target = "object" /\ property \in loader.properties THEN property
        ELSE Thrown]

Verboten == {"constructor", "then", "catch"}

\* get(): made once for each name, but for those that the system itself asks
\* for, which it must not take for methods.
ProxyGet(methods, property, makes) ==
  IF property \in DOMAIN methods THEN [methods |-> methods, result |-> methods[property]]
  ELSE IF property \in Verboten THEN [methods |-> methods, result |-> "undefined"]
  ELSE IF property = "inspect" THEN [methods |-> methods, result |-> "[object Proxy]"]
  ELSE [methods |-> (property :> makes) @@ methods, result |-> makes]

-----------------------------------------------------------------------------
(* Errors and their traces.  An error and its causes are a sequence of      *)
(* [message, stack, header, extra]: the lines of each, and whether the      *)
(* stack begins with the message ("full"), with the name and another        *)
(* message ("name"), or with neither ("none").                              *)

Indented(depth, lines) == [i \in DOMAIN lines |-> [indent |-> depth, text |-> lines[i]]]

\* Errors._make(): the causes of an error follow it.
Make(name, causes, message) ==
  <<[message |-> <<name, message>>, stack |-> <<>>, header |-> "full", extra |-> <<>>]>>
    \o causes

\* What _oneTrace() shows besides: Object.prototype is at from.
ExtraNames(object, from) ==
  LET shown == SkipMethods(SkipSynthetic(OnlyPublic(SkipTarget(Descriptors(object), from))))
  IN {d.name : d \in Iterator(object, shown)} \ {"name", "message", "stack", "cause"}

\* _rawStackLines(): a header that is not the message stays.
RawStackLines(error) ==
  IF error.header = "full" THEN error.stack
  ELSE IF error.header = "name" THEN <<"header">> \o error.stack ELSE error.stack

OneTrace(error, indent) ==
  Indented(indent, error.message) \o Indented(indent + 1, RawStackLines(error))
    \o Indented(indent + 1, error.extra)

\* Mutant: the causes are not told apart from the error.
FullTraceFlat(causes) ==
  FoldLeft(LAMBDA lines, error : lines \o OneTrace(error, 0), <<>>, causes)

FullTraceLines(causes) ==
  OneTrace(causes[1], 0)
    \o FoldLeft(LAMBDA lines, error : lines \o Indented(1, <<"caused by:">>) \o OneTrace(error, 1),
                <<>>, Tail(causes))

\* stackLines(): as many of the last names of a path as fit; a name is its
\* length, and 0 stands for the dots of a path under node_modules.
ShortPath(names) ==
  LET Width(i) == IF names[i] = 0 THEN 3 ELSE names[i]
      Length(from) ==
        FoldLeft(LAMBDA sum, i : sum + Width(i), Len(names) - from,
                 [i \in 1..(Len(names) + 1 - from) |-> from + i - 1])
      rest(i) == IF i = Len(names) THEN 0 ELSE Length(i + 1)
      fits == {from \in DOMAIN names : \A i \in from..Len(names) :
                 names[i] # 0 /\ names[i] + rest(i) + 1 <= MaxPath}
  IN IF Length(1) <= MaxPath THEN names
     ELSE IF fits = {} THEN <<0>>
     ELSE <<0>> \o SubSeq(names, CHOOSE f \in fits : \A g \in fits : f <= g, Len(names))

-----------------------------------------------------------------------------
(* FrozenBuffer: a text is a sequence of characters, bytes a sequence of   *)
(* bytes.  The text of "~" has no bytes, and the byte "!" has no text.     *)

Replacement == "?"
BytesOf(text) == [i \in DOMAIN text |-> IF text[i] = "~" THEN Replacement ELSE text[i]]
TextOf(bytes) == [i \in DOMAIN bytes |-> IF bytes[i] = "!" THEN Replacement ELSE bytes[i]]
None == <<"none">>

NewBuffer(value, encoding) ==
  IF encoding = "utf8" THEN [string |-> value, buffer |-> None, hash |-> None]
  ELSE IF encoding \in {"base64", "Buffer"} THEN [string |-> None, buffer |-> value, hash |-> None]
  ELSE ThrownObject

EnsureBuffer(b) == IF b.buffer = None THEN [b EXCEPT !.buffer = BytesOf(b.string)] ELSE b
GetHash(b) ==
  IF b.hash # None THEN b
  ELSE LET c == EnsureBuffer(b)
       IN [c EXCEPT !.hash = <<"=", Len(c.buffer), c.buffer>>]
GetString(b) == IF b.string = None THEN [b EXCEPT !.string = TextOf(b.buffer)] ELSE b
SameBytes(b, other) == EnsureBuffer(b).buffer = EnsureBuffer(other).buffer

\* copy(): some of the bytes over some of those of a target
CopyBytes(b, target, targetStart, from, to) ==
  LET bytes == EnsureBuffer(b).buffer
      n == IF to - from < Len(target) - targetStart THEN to - from ELSE Len(target) - targetStart
  IN IF targetStart < 0 \/ from < 0 \/ to < from \/ to > Len(bytes) THEN ThrownBytes
     ELSE [i \in DOMAIN target |->
             IF i > targetStart /\ i <= targetStart + n THEN bytes[from + i - targetStart]
             ELSE target[i]]
=============================================================================
