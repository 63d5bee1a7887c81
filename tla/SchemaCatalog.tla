---------------------------- MODULE SchemaCatalog ----------------------------
(***************************************************************************)
(* What the schema calls of the Database promise: a list of schemas with   *)
(* distinct names, the newest first, from which a schema goes only when no *)
(* element uses it.                                                        *)
(***************************************************************************)
EXTENDS Integers, Sequences

CONSTANTS
  Definitions,  \* the schemas that may be created: [name, fields]
  Names         \* their names

VARIABLES
  list,   \* the schemas, newest first
  uses    \* name -> how many elements are of that schema

vars == <<list, uses>>

Listed(n) == \E k \in DOMAIN list : list[k].name = n

Init == list = <<>> /\ uses = [n \in Names |-> 0]

Create(d) ==
  /\ ~Listed(d.name)
  /\ list' = <<d>> \o list
  /\ UNCHANGED uses

Delete(n) ==
  /\ uses[n] = 0
  /\ \E k \in DOMAIN list :
       list[k].name = n /\ list' = SubSeq(list, 1, k - 1) \o SubSeq(list, k + 1, Len(list))
  /\ UNCHANGED uses

AddElement(n) ==
  /\ Listed(n)
  /\ uses' = [uses EXCEPT ![n] = @ + 1]
  /\ UNCHANGED list

RemoveElement(n) ==
  /\ uses[n] > 0
  /\ uses' = [uses EXCEPT ![n] = @ - 1]
  /\ UNCHANGED list

Next ==
  \/ \E d \in Definitions : Create(d)
  \/ \E n \in Names : Delete(n) \/ AddElement(n) \/ RemoveElement(n)

Spec == Init /\ [][Next]_vars
=============================================================================
