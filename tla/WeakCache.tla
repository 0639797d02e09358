------------------------------ MODULE WeakCache ------------------------------
(***************************************************************************)
(* The entries of a cache of weakly referenced objects, BaseCache of       *)
(* weak-lru-cache, for one ID.  An entry is a weak reference to an object, *)
(* a promise for an object that is being made, or the error that making    *)
(* one ended with.  `live' is the set of objects that the garbage          *)
(* collector has not taken.  The cache also keeps the ten objects used     *)
(* last alive: that list is a set here, and other IDs push an object out   *)
(* of it at any time (a step of the modules that use the cache).           *)
(***************************************************************************)

NoEntry == [kind |-> "none"]
Weak(o) == [kind |-> "weak", of |-> o]
Promised(maker) == [kind |-> "promise", of |-> maker]
Rejected(age) == [kind |-> "error", age |-> age]

Entries(Objects) ==
  {NoEntry} \cup {Weak(o) : o \in Objects} \cup {Promised(o) : o \in Objects}
    \cup {Rejected(age) : age \in {"fresh", "old"}}

IsAlive(entry, live) == entry.kind = "weak" /\ entry.of \in live

(* _getWeakCacheEntry() removes a rejection that has aged out, but still   *)
(* hands it to the lookup that finds it.                                   *)
AfterLookup(entry) == IF entry = Rejected("old") THEN NoEntry ELSE entry

\* mutant: a dead reference counts as no entry
LookupDeadIsNull(entry, live, takesPromise) ==
  CASE IsAlive(entry, live) -> "object"
    [] entry.kind \in {"none", "weak"} /\ ~ IsAlive(entry, live) -> "null"
    [] entry.kind = "promise" /\ takesPromise -> "promise"
    [] OTHER -> "throw"

(* What _getOrNull() comes to: the object, the promise if the caller takes *)
(* one, null, or an exception.  A dead reference is none of the cases that *)
(* the code tells apart and is taken for an impossible one.                *)
Lookup(entry, live, takesPromise) ==
  CASE IsAlive(entry, live) -> "object"
    [] entry = NoEntry -> "null"
    [] entry.kind = "promise" /\ takesPromise -> "promise"
    [] entry.kind = "weak" /\ ~ IsAlive(entry, live) -> "weird"
    [] OTHER -> "throw"

(* add() refuses an object whose ID is taken by a living one.  In          *)
(* resolveOrAdd() the entry is deleted first, so that add() cannot refuse. *)
Added(entry, live, o) == IF IsAlive(entry, live) THEN entry ELSE Weak(o)
Resolved(entry, o) == Added(NoEntry, {}, o)

(* The callback for a collected object leaves a living successor alone.    *)
AfterReaping(entry, live) == IF IsAlive(entry, live) THEN entry ELSE NoEntry
=============================================================================
