-------------------------------- MODULE Checks --------------------------------
(***************************************************************************)
(* The checks of arguments (typecheck/, util-core/CoreTypecheck.js): which *)
(* values each lets pass.  Any other value throws `badValue`.              *)
(*                                                                         *)
(* A number is [type |-> "number", is |-> "int" | "fraction" | "NaN",      *)
(* n |-> its whole part]; a string has its characters; an array, a map, a  *)
(* set or another object its entries; a function the way it was written.   *)
(***************************************************************************)
EXTENDS Integers, Sequences, FiniteSets

MaxSafe == 3    \* bound: Number.MAX_SAFE_INTEGER

Nil == [type |-> "object", class |-> "null"]
Num(is, n) == [type |-> "number", is |-> is, n |-> n]
Whole(n) == Num("int", n)
Text(chars) == [type |-> "string", chars |-> chars]
Thing(class, entries) == [type |-> "object", class |-> class, entries |-> entries]
Func(written) == [type |-> "function", written |-> written]

IsString(v) == v.type = "string"
IsNumber(v) == v.type = "number"
IsObjectType(v, class) == v.type = "object" /\ v.class = class
OrNull(v, Check(_)) == v = Nil \/ Check(v)

-----------------------------------------------------------------------------
(* Numbers.  A bound that is not a safe integer is itself refused.          *)

NoBound == Nil

IsSafe(v) == IsNumber(v) /\ v.is = "int" /\ v.n \in -MaxSafe..MaxSafe

CheckInt(v, minInc, maxExc) ==
  /\ minInc = NoBound \/ IsSafe(minInc)
  /\ maxExc = NoBound \/ IsSafe(maxExc)
  /\ IsSafe(v)
  /\ minInc # NoBound => v.n >= minInc.n
  /\ maxExc # NoBound => v.n < maxExc.n

IntMaxExc(v, maxExc) == CheckInt(v, NoBound, maxExc)
IntMaxInc(v, maxInc) == IsSafe(v) /\ IsSafe(maxInc) /\ v.n <= maxInc.n
IntMin(v, minInc) == CheckInt(v, minInc, NoBound)
NonNegative(v) == CheckInt(v, Whole(0), NoBound)
IntRange(v, minInc, maxExc) == CheckInt(v, minInc, maxExc)
IntRangeInc(v, minInc, maxInc) ==
  /\ IsSafe(v) /\ IsSafe(minInc) /\ IsSafe(maxInc)
  /\ v.n \in minInc.n..maxInc.n

\* TNumber: NaN is neither less than a bound nor greater.  (The bounds here
\* are integers.)
Less(v, w) == v.is # "NaN" /\ v.n < w.n
NumberRange(v, minInc, maxExc) ==
  IsNumber(v) /\ IsNumber(minInc) /\ IsNumber(maxExc)
    /\ ~ Less(v, minInc) /\ (v.is = "NaN" \/ Less(v, maxExc))
NumberRangeInc(v, minInc, maxInc) ==
  IsNumber(v) /\ IsNumber(minInc) /\ IsNumber(maxInc)
    /\ ~ Less(v, minInc)
    /\ (v.is = "NaN" \/ v.n < maxInc.n \/ (v.n = maxInc.n /\ v.is = "int"))

-----------------------------------------------------------------------------
(* Strings                                                                  *)

Digits == {"0"}
HexLetters == {"a"}
Letters == HexLetters \cup {"z", "_"}     \* that identifiers may begin with
LabelMarks == {"-", "."}

AllIn(chars, set) == \A i \in DOMAIN chars : chars[i] \in set

Identifier(v) ==
  IsString(v) /\ v.chars # <<>>
    /\ v.chars[1] \in Letters /\ AllIn(v.chars, Letters \cup Digits)
Label(v) ==
  IsString(v) /\ v.chars # <<>>
    /\ v.chars[1] \in Letters \cup LabelMarks
    /\ AllIn(v.chars, Letters \cup LabelMarks \cup Digits)
HexBytes(v, minBytes, maxBytes) ==
  /\ IsString(v) /\ AllIn(v.chars, Digits \cup HexLetters) /\ Len(v.chars) % 2 = 0
  /\ Len(v.chars) >= minBytes * 2 /\ Len(v.chars) <= maxBytes * 2
MaxLen(v, n) == IsString(v) /\ Len(v.chars) <= n
MinLen(v, n) == IsString(v) /\ Len(v.chars) >= n
NonEmpty(v) == IsString(v) /\ v.chars # <<>>
StringOrNull(v) == OrNull(v, IsString)

\* A text that parses as a URL has an origin ("null" for some schemes), and it
\* may lack the path and have a user, a query or a fragment.  What the parser
\* finds always has a path.  The text must be the same as origin and path, or
\* as the origin.
ParsedPath(url) == IF url.path = "" THEN "/" ELSE url.path
UrlAbsolute(url) ==
  url.origin \notin {"none", "null"} /\ ~ url.more /\ url.path = ParsedPath(url)
UrlOrigin(url) == url.origin \notin {"none", "null"} /\ ~ url.more /\ url.path = ""

-----------------------------------------------------------------------------
(* Objects                                                                  *)

\* `passed' is the set of values that the check of the elements lets pass.
AllPass(v, passed) == \A k \in DOMAIN v.entries : v.entries[k] \in passed

ArrayCheck(v, passed) == IsObjectType(v, "Array") /\ AllPass(v, passed)
MapCheck(v, keysPassed, passed) ==
  IsObjectType(v, "Map") /\ DOMAIN v.entries \subseteq keysPassed /\ AllPass(v, passed)
SetCheck(v, passed) == IsObjectType(v, "Set") /\ AllPass(v, passed)
\* What a map gives are arrays of a key and a value.
MapEntry(key, value) == Thing("Array", <<Text(<<key>>), value>>)
IterableCheck(v, passed) ==
  /\ v.type = "object" /\ v.class \in {"Array", "Map", "Set"}
  /\ IF v.class = "Map" THEN \A k \in DOMAIN v.entries : MapEntry(k, v.entries[k]) \in passed
     ELSE AllPass(v, passed)

\* checkObject(): functions are objects; a class is asked for by instanceof.
CheckObject(v) == v # Nil /\ v.type \in {"object", "function"}
CheckInstance(v, class) == IsObjectType(v, class)
ObjectOrNull(v) == OrNull(v, CheckObject)

Plain(v) == IsObjectType(v, "Object")
PlainOrNull(v) == OrNull(v, Plain)
PlainWith(v, passed) == Plain(v) /\ AllPass(v, passed)

\* Mutant: what remains is not looked at.
ExactKeysAtLeast(v, keys) == Plain(v) /\ \A i \in DOMAIN keys : keys[i] \in DOMAIN v.entries

\* withExactKeys(): each key is taken out of a copy, and none may remain; a
\* key that is named twice is not there the second time.
WithExactKeys(v, keys) ==
  /\ Plain(v)
  /\ LET left[i \in 0..Len(keys)] ==
           IF i = 0 THEN DOMAIN v.entries ELSE left[i - 1] \ {keys[i]}
     IN /\ \A i \in DOMAIN keys : keys[i] \in left[i - 1]
        /\ left[Len(keys)] = {}

-----------------------------------------------------------------------------
(* Functions, by how they were written: the checks look for the word        *)
(* `class` or `function` with a space after it.                             *)

HowWritten == {"class", "class{", "function", "function(",
               "builtin class", "builtin function", "arrow", "async", "generator", "method"}

Constructs == {"class", "class{", "function", "function(", "builtin class"}

IsCallable(v) == v.type = "function" /\ v.written # "class"
IsClass(v) ==
  v.type = "function" /\ v.written \in Constructs \ {"class{", "function("}

IsSubclass(v, ancestor, extends) ==
  IsClass(v) /\ (v = ancestor \/ <<v, ancestor>> \in extends)
=============================================================================
