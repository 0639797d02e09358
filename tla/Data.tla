-------------------------------- MODULE Data --------------------------------
(***************************************************************************)
(* The values that the program calls data (util-core/DataUtil.js,          *)
(* Functor.js, ObjectUtil.js), as trees.  A leaf is its type and what it   *)
(* is.  An array or an object is frozen or not, and may be odd: an array   *)
(* may have a hole or a named property, each may have a property that a    *)
(* getter computes.  An instance is its class and its fields.              *)
(***************************************************************************)
EXTENDS Naturals, Sequences, FiniteSets

ThrownValue == [kind |-> "thrown"]

Leaf(type, is) == [kind |-> type, is |-> is]
Null == Leaf("null", "null")
String(is) == Leaf("string", is)
Array(frozen, elems) == [kind |-> "array", frozen |-> frozen, odd |-> "no", elems |-> elems]
Object(frozen, props) == [kind |-> "object", frozen |-> frozen, odd |-> "no", props |-> props]
Buffer(is) == Leaf("buffer", is)
\* The array of the arguments is frozen by the constructor.
Functor(name, args) == [kind |-> "functor", name |-> name, args |-> args]
Instance(class, fields) == [kind |-> "instance", class |-> class, fields |-> fields]

LeafKinds == {"boolean", "number", "string", "symbol", "undefined", "null"}

\* What of a value may hold other values, as a function.
Parts(v) ==
  CASE v.kind = "array"   -> v.elems
    [] v.kind = "object"  -> v.props
    [] v.kind = "functor" -> v.args
    [] OTHER              -> <<>>

\* v with other parts.  A clone has the odd properties of its original.
WithParts(v, parts) ==
  CASE v.kind = "array"   -> [v EXCEPT !.elems = parts, !.frozen = TRUE]
    [] v.kind = "object"  -> [v EXCEPT !.props = parts, !.frozen = TRUE]
    [] v.kind = "functor" -> [v EXCEPT !.args = parts]

IsContainer(v) == v.kind \in {"array", "object", "functor"}
HasGetter(v) == v.kind \in {"array", "object"} /\ v.odd = "getter"

AllParts(v, Test(_)) == \A k \in DOMAIN Parts(v) : Test(Parts(v)[k])

\* isData()
RECURSIVE IsData(_)
IsData(v) ==
  \/ v.kind \in LeafKinds \cup {"buffer"}
  \/ IsContainer(v) /\ ~ HasGetter(v) /\ AllParts(v, IsData)

\* isDeepFrozen()
RECURSIVE IsDeepFrozen(_)
IsDeepFrozen(v) ==
  \/ v.kind \in LeafKinds \cup {"buffer"}
  \/ /\ IsContainer(v) /\ ~ HasGetter(v)
     /\ v.kind = "functor" \/ v.frozen
     /\ AllParts(v, IsDeepFrozen)

\* Mutant: a frozen container is taken to be frozen all the way.
RECURSIVE ShallowFreeze(_, _)
ShallowFreeze(v, convert) ==
  LET NonData == IF convert THEN String("converted") ELSE ThrownValue
      parts   == [k \in DOMAIN Parts(v) |-> ShallowFreeze(Parts(v)[k], convert)]
  IN IF v.kind \in LeafKinds \cup {"buffer"} THEN v
     ELSE IF ~ IsContainer(v) \/ HasGetter(v) THEN NonData
     ELSE IF v.kind # "functor" /\ v.frozen THEN v
     ELSE IF \E k \in DOMAIN parts : parts[k] = ThrownValue THEN ThrownValue
     ELSE WithParts(v, parts)

\* deepFreeze(), with a converter of what is not data or without: a clone
\* that is frozen all the way, or the value itself if that is so already.
RECURSIVE DeepFreeze(_, _)
DeepFreeze(v, convert) ==
  LET NonData == IF convert THEN String("converted") ELSE ThrownValue
      parts   == [k \in DOMAIN Parts(v) |-> DeepFreeze(Parts(v)[k], convert)]
  IN IF v.kind \in LeafKinds \cup {"buffer"} THEN v
     ELSE IF ~ IsContainer(v) \/ HasGetter(v) THEN NonData
     ELSE IF \E k \in DOMAIN parts : parts[k] = ThrownValue THEN ThrownValue
     ELSE WithParts(v, parts)

\* equalData(): whether frozen or not makes no difference, and what is not
\* data is equal to nothing.
RECURSIVE EqualData(_, _)
EqualData(v, w) ==
  /\ v.kind = w.kind
  /\ \/ v.kind \in LeafKinds \cup {"buffer"} /\ v = w
     \/ /\ IsContainer(v) /\ ~ HasGetter(v) /\ ~ HasGetter(w)
        /\ v.kind = "functor" => v.name = w.name
        /\ v.kind # "functor" => v.odd = w.odd
        /\ DOMAIN Parts(v) = DOMAIN Parts(w)
        /\ \A k \in DOMAIN Parts(v) : EqualData(Parts(v)[k], Parts(w)[k])

\* Functor.equals(): an argument that is not data may say itself what it
\* equals, as instances do; an array of instances equals no other one.
EqualFunctors(f, g) ==
  /\ f.name = g.name /\ Len(f.args) = Len(g.args)
  /\ \A i \in DOMAIN f.args :
       \/ EqualData(f.args[i], g.args[i])
       \/ f.args[i].kind = "instance" /\ f.args[i] = g.args[i]

\* Functor.withFrozenArgs(): instances are frozen by their constructors.
WithFrozenArgs(f) ==
  LET arg(a) == IF a.kind \in {"array", "object"} THEN DeepFreeze(a, FALSE)
                ELSE IF a.kind = "function" THEN ThrownValue ELSE a
  IN IF \E i \in DOMAIN f.args : arg(f.args[i]) = ThrownValue THEN ThrownValue
     ELSE [f EXCEPT !.args = [i \in DOMAIN f.args |-> arg(f.args[i])]]

\* ObjectUtil.isPlain()
IsPlain(v) == v.kind = "object" /\ v.odd = "no"
=============================================================================
