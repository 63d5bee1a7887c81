---------------------------- MODULE MCSchemaStore ----------------------------
(***************************************************************************)
(* Schemas and updates for the runs of SchemaStore.  The same two words    *)
(* serve as names, keys and values.                                        *)
(***************************************************************************)
EXTENDS SchemaStore

CONSTANTS a, b, c

Field(key, type) == [key |-> key, type |-> type]

\* An element of a fits in one chunk, one of b takes two; c has no fields.
MCDefinitions ==
  {[name |-> a, fields |-> <<Field(a, "int")>>],
   [name |-> b, fields |-> <<Field(a, "int"), Field(b, "str")>>],
   [name |-> c, fields |-> <<>>]}

\* A column of the same name and place, of another type.
MixedDefinitions ==
  {[name |-> a, fields |-> <<Field(a, "int"), Field(b, "int")>>],
   [name |-> b, fields |-> <<Field(a, "int"), Field(b, "str")>>]}

SetB == {[name |-> b, if |-> a, is |-> 0, set |-> b, to |-> b]}
SetA == {[name |-> a, if |-> a, is |-> 0, set |-> b, to |-> 0]}
NoUpdates == {}
=============================================================================
