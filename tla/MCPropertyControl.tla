-------------------------- MODULE MCPropertyControl --------------------------
(* BaseControl over property data, for TLC. *)
EXTENDS TLC, BaseControl, PropertyDelta

\* Right after FileBootstrap the properties are at revision 0, with none set.
MCBootDelta == <<>>
MCBootContents == [r \in 0..0 |-> NoProperties]

\* One that sets or deletes a single property, or sets none.
OneProperty(c, old) == {d \in PropertyDeltas : Cardinality(DOMAIN d) <= 1}

\* One call deletes a property, the others set one or none.
Deleter == CHOOSE c \in Calls : TRUE

OneEdit(c, old) ==
  {d \in OneProperty(c, old) :
     IF c = Deleter THEN \E name \in Names : d = [n \in {name} |-> Deleted]
     ELSE \A name \in DOMAIN d : d[name] # Deleted}

=============================================================================
