--------------------------- MODULE MCQueryPipeline ---------------------------
(***************************************************************************)
(* A schema of two fields and the commands typed in the runs of            *)
(* QueryPipeline.                                                          *)
(***************************************************************************)
EXTENDS QueryPipeline

MCSchema == [n |-> "int", b |-> "bool"]

Lit(type, val) == [type |-> type, val |-> val]
Least == Lit("int", -8)
Most == Lit("int", 7)
No == Lit("bool", 0)
Yes == Lit("bool", 1)

\* Conditions.
Key(field, value) == [is |-> "key", field |-> field, value |-> value]
Keys == {Key("n", Least), Key("n", Most), Key("b", No), Key("b", Yes)}
Few == {Key("n", Most), Key("b", Yes)}

Joined(S, n) == [is : {"AND", "OR"}, list : [1 .. n -> S]]
Top(S, n) == [is : {"AND"}, list : [1 .. n -> S]]

\* Equalities joined by lists of two or three, nested once.
Equalities ==
  Top(Keys, 1) \cup Top(Keys, 2) \cup Top(Keys, 3)
  \cup Top(Joined(Keys, 2), 1) \cup Top(Joined(Keys, 3), 1)
  \cup Top(Joined(Joined(Few, 2), 2), 1) \cup Top(Few \cup Joined(Few, 2), 2)

\* $or[a] and $or[$and[a, b]]: lists of one.
Singles ==
  Top(Joined(Few, 1), 1) \cup Top(Joined(Joined(Few, 2), 1), 1)
  \cup Top(Joined(Few \cup Joined(Few, 1), 2), 1)

\* A value of another type, a field of no schema.
Misfits == Top({Key("b", Most), Key("other", Yes)} \cup Few, 2)

\* field: {$ne: value}, as in the examples of the parser.
Inequalities ==
  {[is |-> "AND", list |-> <<[is |-> "comp", field |-> k.field, rel |-> "ne", value |-> k.value]>>] :
     k \in Keys}

\* Lists of fields.
Field(key, value) == [key |-> key, value |-> value]

Full2 == {<<Field("b", v), Field("n", w)>> : v \in {No, Yes}, w \in {Least, Most}}

\* A field left out, typed twice, of another name, of another type.
Odd ==
  {<<Field("n", Least)>>, <<Field("n", Least), Field("b", Yes), Field("n", Most)>>,
   <<Field("n", Most), Field("other", Yes)>>, <<Field("n", Yes), Field("b", Yes)>>}

\* The conditions of t behind those of done, in the order of the parser; the
\* list of positions of a list of conditions.
RECURSIVE Listed(_, _), ListedAll(_, _, _)
Listed(done, t) ==
  IF t.is = "key" \/ t.is = "comp" THEN Append(done, t) ELSE ListedAll(done, [t EXCEPT !.list = <<>>], t.list)

ListedAll(done, t, list) ==
  IF list = <<>> THEN Append(done, t)
  ELSE LET more == Listed(done, Head(list))
       IN ListedAll(more, [t EXCEPT !.list = Append(@, Len(more))], Tail(list))

\* Commands.
Text(verb, schema, parent, list, cond) ==
  [verb |-> verb, schema |-> schema, parent |-> parent, list |-> list, cond |-> cond]

Inserts(schemas, lists) ==
  {Text("insert", s, p, l, <<>>) :
     s \in schemas, p \in {0} \cup {IdStep * n : n \in 1 .. MaxRows}, l \in lists}

Finds(conds) == {Text("find", "SCHEMA", 0, <<>>, Listed(<<>>, c)) : c \in conds}

MCTexts ==
  Inserts({"SCHEMA"}, Full2 \cup Odd) \cup Inserts({"OTHER"}, Full2)
    \cup Finds(Equalities \cup Singles \cup Misfits)
    \cup {Text("update", "SCHEMA", 0, l, Listed(<<>>, c)) :
             l \in Full2 \cup Odd, c \in Top(Keys, 1) \cup Singles \cup Misfits}
    \cup {Text("delete", s, 0, <<>>, Listed(<<>>, c)) :
             s \in {"SCHEMA", "OTHER"}, c \in Top(Keys, 1) \cup Singles \cup Misfits}

NeTexts == Inserts({"SCHEMA"}, Full2) \cup Finds(Inequalities)

SingleTexts == Inserts({"SCHEMA"}, Full2) \cup Finds(Singles)

FarTexts == Inserts({"SCHEMA"}, Full2)
=============================================================================
