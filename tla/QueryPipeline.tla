---------------------------- MODULE QueryPipeline ----------------------------
(***************************************************************************)
(* The way of a command between the prompt and the elements: the lexer     *)
(* cuts numbers, the grammar of src/parser builds a tree of the condition  *)
(* and lists of typed fields, the client writes both on the wire, where    *)
(* conditions name each other by position, the server makes maps and       *)
(* fields_conditionals of them, the Database evaluates those on every      *)
(* element, and its answer is printed.  One command after the other.       *)
(*                                                                         *)
(* A command as it is typed is a record                                    *)
(*   [verb, schema, parent, list, cond]                                    *)
(* where list is a sequence of [key, value], and cond the sequence of its  *)
(* conditions in the order in which the parser is done with them: those of *)
(* a list come before the list, the list between the braces is the last.   *)
(*   [is |-> "key",  field, value]           field: value                  *)
(*   [is |-> "comp", field, rel, value]      field: {$rel: value}          *)
(*   [is |-> "AND",  list], [is |-> "OR", list]   $and[...], $or[...]      *)
(* A list holds the positions of its conditions.  A value is [type, val]:  *)
(* val is a number also for a string, a double or a Boolean,               *)
(* of which nothing but the order matters.                                 *)
(***************************************************************************)
EXTENDS Integers, Sequences, FiniteSets, SequencesExt

CONSTANTS
  Schema,     \* the schema "SCHEMA" the server creates: field -> type
  Texts,      \* the commands
  IdStep,     \* ids are multiples
  MaxRows,    \* bound on the elements, 1 or 2
  Half        \* half of the numbers of an int: 2^31

IsList(c) == c.is \in {"AND", "OR"}

\* What can be typed: the conditions of a list are there before it, no list is
\* empty, and but for the last every condition is in one.
Conditions(cond) ==
  /\ cond \in Seq(ToSet(cond)) \ {<<>>} /\ cond[Len(cond)].is = "AND"
  /\ \A k \in DOMAIN cond :
       /\ cond[k].is \in {"key", "comp", "AND", "OR"}
       /\ IF IsList(cond[k]) THEN cond[k].list \in Seq(1 .. k - 1) \ {<<>>}
          ELSE cond[k].value \in [type : STRING, val : Int]
       /\ k # Len(cond) =>
            \E j \in k + 1 .. Len(cond) : IsList(cond[j]) /\ k \in ToSet(cond[j].list)

\* With two elements there are no brothers: what DeleteElements does to those
\* is in ElementTree.  All elements are of one schema: no command names the
\* other one of the server, and UpdateElements never meets an element without
\* the fields of a condition.
ASSUME PipelineAssumption ==
  /\ IdStep \in Nat \ {0} /\ MaxRows \in 1 .. 2 /\ Half \in Nat \ {0}
  /\ \A t \in Texts :
       /\ t.schema # "MainSchema"
       /\ t.verb \in {"insert", "find", "update", "delete"} /\ t.parent \in Int
       /\ t.list \in Seq([key : STRING, value : [type : STRING, val : Int]])
       /\ t.verb # "insert" => Conditions(t.cond)

VARIABLES
  stage,     \* "prompt", "parsed", "sent", "received" or "answered"
  text,      \* what was typed
  query,     \* struct query of the client; cond is a position in nodes
  request,   \* proto_query::Query
  args,      \* the query the Database gets
  rows,      \* id -> [parent, fields]
  response   \* proto_query::QueryResponse: [ok, id, elements]

pathVars == <<stage, text, query, request, args, rows, response>>

Fields == DOMAIN Schema

NoResponse == [ok |-> FALSE, id |-> 0, elements |-> {}]

-----------------------------------------------------------------------------
(* lexer.l and parser.y: literals and lists of fields.                     *)

\* atoi: the low bits of the number.
Atoi(n) == ((n + Half) % (2 * Half)) - Half

Literal(l) == IF l.type = "int" THEN [l EXCEPT !.val = Atoi(l.val)] ELSE l

NewVal(p) == [p EXCEPT !.value = Literal(p.value)]

\* The list that new_vals links: the first pair is its head.
NewVals(list) == [i \in DOMAIN list |-> NewVal(list[i])]

-----------------------------------------------------------------------------
(* parser.y: filters, or_filters and filter.  nodes are the filters of     *)
(* list_alloc in the order in which they are made, and tops the node of    *)
(* each condition.                                                         *)

Unset == [type |-> "int", val |-> 0]
NoField == ""

Leaf(op, c) == [op |-> op, field |-> c.field, value |-> Literal(c.value), left |-> 0, right |-> 0]

\* Mutant of Pair: the list is joined with the connective of the other rule.
PairAnd(op, l, r) == [op |-> "AND", field |-> NoField, value |-> Unset, left |-> l, right |-> r]

Pair(op, l, r) == [op |-> op, field |-> NoField, value |-> Unset, left |-> l, right |-> r]

Made(h, n) == [nodes |-> Append(h.nodes, n), tops |-> Append(h.tops, Len(h.nodes) + 1)]

\* The pairs of a list are made from its end; a list of one has none.
Filters(h, op, list) ==
  LET n == Len(list)
      size == Len(h.nodes)
      pairs == [j \in 1 .. n - 1 |->
                  Pair(op, h.tops[list[n - j]], IF j = 1 THEN h.tops[list[n]] ELSE size + j - 1)]
  IN [nodes |-> h.nodes \o pairs,
      tops |-> Append(h.tops, IF n = 1 THEN h.tops[list[1]] ELSE size + n - 1)]

\* $$ = $4; $$->op = ...: the node of the list gets the operator, whether it
\* is the pair of several filters or the only filter itself.
Renamed(h, op) == [h EXCEPT !.nodes[Last(h.tops)].op = op]

Filter(h, c) ==
  CASE c.is = "key"  -> Made(h, Leaf("KEY_VALUE", c))
    [] c.is = "comp" -> Made(h, Leaf("COMP", c))
    [] IsList(c)     -> Renamed(Filters(h, c.is, c.list), c.is)

\* The braces around the conditions of a command are a list no rule renames.
Parsed(cond) ==
  LET done[k \in 0 .. Len(cond) - 1] ==
        IF k = 0 THEN [nodes |-> <<>>, tops |-> <<>>] ELSE Filter(done[k - 1], cond[k])
  IN Filters(done[Len(cond) - 1], "AND", cond[Len(cond)].list)

\* q of a command.
Command(t) ==
  LET h == IF t.verb = "insert" THEN [nodes |-> <<>>, tops |-> <<0>>] ELSE Parsed(t.cond) IN
  [verb |-> t.verb, schema |-> t.schema,
   parent |-> IF t.verb = "insert" THEN Atoi(t.parent) ELSE 0,
   list |-> IF t.verb \in {"insert", "update"} THEN NewVals(t.list) ELSE <<>>,
   nodes |-> h.nodes, cond |-> Last(h.tops)]

-----------------------------------------------------------------------------
(* client/src/main.cpp.  In node_to_proto_filter positions count from 0,   *)
(* and 0 says "none".  The comparator of a node is not written.            *)

\* A field with value_type and the member of the oneof that belongs to it.
set_key_value(p) == p

Put(n, left, right) ==
  IF n.op \in {"AND", "OR"}
  THEN [op |-> n.op, field |-> NoField, value |-> Unset, left |-> left, right |-> right]
  ELSE [op |-> n.op, field |-> n.field, value |-> set_key_value(n.value), left |-> left, right |-> right]

\* Mutant of Write: a position is taken after the condition is added.
WriteAhead(nodes, top) ==
  LET wire[k \in DOMAIN nodes] == [size \in Nat |->
        LET n == nodes[k] IN
        IF n.left = 0 THEN <<Put(n, 0, 0)>>
        ELSE LET l == wire[n.left][size + 1]
                 r == wire[n.right][size + Len(l) + 1]
             IN <<Put(n, size + 1, size + Len(l) + 1)>> \o l \o r]
  IN wire[top][1]

\* wire[k][size] is what node k becomes when the list has size conditions, the
\* one added for k as the last: this and those added for the nodes below.
Write(nodes, top) ==
  LET wire[k \in DOMAIN nodes] == [size \in Nat |->
        LET n == nodes[k] IN
        IF n.left = 0 THEN <<Put(n, 0, 0)>>
        ELSE LET l == wire[n.left][size + 1]
                 r == wire[n.right][size + Len(l) + 1]
             IN <<Put(n, size, size + Len(l))>> \o l \o r]
  IN wire[top][1]

Request ==
  [verb |-> query.verb, schema |-> query.schema, parent |-> query.parent,
   list |-> [i \in DOMAIN query.list |-> set_key_value(query.list[i])],
   cond |-> IF query.verb = "insert" THEN <<>> ELSE Write(query.nodes, query.cond)]

-----------------------------------------------------------------------------
(* server/src/main.cpp.                                                    *)

\* Mutant of MapOf: a key that is there is not assigned again.
MapOfFirst(list) ==
  [k \in {list[i].key : i \in DOMAIN list} |->
     list[CHOOSE i \in DOMAIN list : list[i].key = k /\ \A j \in 1 .. i - 1 : list[j].key # k].value]

\* proto_new_fields_to_db_new_fields: the last of the pairs with a key stays.
MapOf(list) ==
  [k \in {list[i].key : i \in DOMAIN list} |->
     list[CHOOSE i \in DOMAIN list : list[i].key = k /\ \A j \in i + 1 .. Len(list) : list[j].key # k].value]

\* proto_new_fields_to_db_conds: only AND and OR are mapped; the operator of
\* the rest is value-initialized.
DbCond(c) == [c EXCEPT !.op = IF c.op \in {"AND", "OR"} THEN c.op ELSE "EQUAL"]

DbConds(w) == [k \in DOMAIN w |-> DbCond(w[k])]

-----------------------------------------------------------------------------
(* The Database: a command is compared with the schema, and the conditions *)
(* are evaluated by select_query::CheckConditionals.                       *)

OfSchema(k, l) == k \in Fields /\ l.type = Schema[k]

\* An element of the schema, no field more or less.
Whole(fields) == DOMAIN fields = Fields /\ \A k \in Fields : OfSchema(k, fields[k])

\* A parent that is no element is refused.  ValidateElementByPtr lets some of
\* those pass, and the insertion below them is not modelled: PageLayout shows
\* that they are the chunks behind the first of an element and the last free
\* chunk, besides positions inside chunks.  So the parents that are typed are
\* those of elements, 0, or numbers it refuses.
Accepted ==
  /\ args.schema = "SCHEMA"
  /\ args.verb = "insert" =>
       /\ Whole(args.fields)
       /\ IF args.parent = 0 THEN DOMAIN rows = {} ELSE args.parent \in DOMAIN rows
  /\ \A k \in DOMAIN args.conds :
       args.conds[k].op \in {"AND", "OR"} \/ OfSchema(args.conds[k].field, args.conds[k].value)
  /\ args.verb = "update" => \A k \in DOMAIN args.fields : OfSchema(k, args.fields[k])

\* fields_.at() throws on a name that is not a field.
CheckLeaf(c, row) ==
  IF c.field \notin Fields THEN "throw"
  ELSE IF row[c.field] = c.value THEN "yes" ELSE "no"

Check(cs, row) ==
  LET check[k \in DOMAIN cs] ==
        LET c == cs[k] IN
        IF c.left = 0 /\ c.right = 0 THEN CheckLeaf(c, row)
        ELSE LET l == check[c.left + 1] IN
             IF c.right = 0 THEN l
             ELSE IF l = (IF c.op = "AND" THEN "yes" ELSE "no") THEN check[c.right + 1]
             ELSE l
  IN check[1]

Said(answer) == {id \in DOMAIN rows : Check(args.conds, rows[id].fields) = answer}

Updated(row) ==
  [row EXCEPT !.fields = [k \in Fields |->
     IF k \in DOMAIN args.fields THEN args.fields[k] ELSE row.fields[k]]]

\* An element that is not selected keeps those above it.
Stay(selected) ==
  DOMAIN rows \ UNION {S \in SUBSET selected :
                         \A id \in DOMAIN rows : rows[id].parent \in S => id \in S}

-----------------------------------------------------------------------------
(* The loop of the client's main and the server's GetQuery.                *)

\* The server has just created its schemas in a new file; "MainSchema" stays
\* without elements.
PathInit ==
  /\ stage = "prompt" /\ text = <<>> /\ query = <<>> /\ request = <<>> /\ args = <<>>
  /\ rows = <<>> /\ response = NoResponse

Parse ==
  /\ stage = "prompt" /\ stage' = "parsed"
  /\ \E t \in Texts : text' = t /\ query' = Command(t)
  /\ UNCHANGED <<request, args, rows, response>>

\* free_all when the request is written.
Send ==
  /\ stage = "parsed" /\ stage' = "sent"
  /\ request' = Request /\ query' = <<>>
  /\ UNCHANGED <<text, args, rows, response>>

Receive ==
  /\ stage = "sent" /\ stage' = "received"
  /\ args' = [verb |-> request.verb, schema |-> request.schema, parent |-> request.parent,
              fields |-> MapOf(request.list), conds |-> DbConds(request.cond)]
  /\ request' = <<>>
  /\ UNCHANGED <<text, query, rows, response>>

\* The call of the Database and the response made of its result.
Call(verb) ==
  /\ stage = "received" /\ args.verb = verb /\ Accepted
  /\ stage' = "answered"
  /\ UNCHANGED <<text, query, request, args>>

AnswerInsert ==
  /\ Call("insert")
  /\ \E id \in {IdStep * n : n \in 1 .. MaxRows} \ DOMAIN rows :
       /\ rows' = [k \in DOMAIN rows \cup {id} |->
                     IF k = id THEN [parent |-> args.parent, fields |-> args.fields] ELSE rows[k]]
       /\ response' = [ok |-> TRUE, id |-> id, elements |-> {}]

AnswerFind ==
  /\ Call("find") /\ Said("throw") = {}
  /\ response' = [ok |-> TRUE, id |-> 0,
                  elements |-> {[id |-> id, fields |-> rows[id].fields] : id \in Said("yes")}]
  /\ UNCHANGED rows

AnswerUpdate ==
  /\ Call("update") /\ Said("throw") = {}
  /\ rows' = [id \in DOMAIN rows |-> IF id \in Said("yes") THEN Updated(rows[id]) ELSE rows[id]]
  /\ response' = [ok |-> TRUE, id |-> 0, elements |-> {}]

AnswerDelete ==
  /\ Call("delete") /\ Said("throw") = {}
  /\ rows' = [id \in Stay(Said("yes")) |-> rows[id]]
  /\ response' = [ok |-> TRUE, id |-> 0, elements |-> {}]

\* ok is false.
AnswerNot ==
  /\ stage = "received" /\ ~Accepted
  /\ stage' = "answered"
  /\ response' = NoResponse
  /\ UNCHANGED <<text, query, request, args, rows>>

\* An element on which a condition throws ends the call, and the handler with
\* it; any of the others may have been changed before.
AnswerThrow ==
  /\ \E verb \in {"find", "update", "delete"} : Call(verb)
  /\ Said("throw") # {}
  /\ \E seen \in SUBSET Said("yes") :
       rows' = CASE args.verb = "find" -> rows
                 [] args.verb = "update" ->
                      [id \in DOMAIN rows |-> IF id \in seen THEN Updated(rows[id]) ELSE rows[id]]
                 [] args.verb = "delete" -> [id \in Stay(seen) |-> rows[id]]
  /\ response' = NoResponse

\* The response is printed.
Prompt ==
  /\ stage = "answered" /\ stage' = "prompt"
  /\ text' = <<>> /\ args' = <<>> /\ response' = NoResponse
  /\ UNCHANGED <<query, request, rows>>

\* The bound is reached.
Full ==
  /\ stage = "received" /\ Accepted /\ args.verb = "insert" /\ Cardinality(DOMAIN rows) = MaxRows
  /\ UNCHANGED pathVars

Answer ==
  \/ AnswerInsert \/ AnswerFind \/ AnswerUpdate \/ AnswerDelete
  \/ AnswerNot \/ AnswerThrow

PathNext == Parse \/ Send \/ Receive \/ Answer \/ Prompt \/ Full

PathSpec == PathInit /\ [][PathNext]_pathVars

-----------------------------------------------------------------------------
(* What a typed command says.                                              *)

Compare(rel, a, b) ==
  CASE rel = "lt"  -> a < b
    [] rel = "lte" -> a <= b
    [] rel = "gt"  -> a > b
    [] rel = "gte" -> a >= b
    [] rel = "ne"  -> a # b

Says(cond, row) ==
  LET says[k \in DOMAIN cond] ==
        LET c == cond[k] IN
        \/ c.is = "key" /\ row[c.field] = c.value
        \/ c.is = "comp" /\ Compare(c.rel, row[c.field].val, c.value.val)
        \/ c.is = "AND" /\ \A i \in DOMAIN c.list : says[c.list[i]]
        \/ c.is = "OR" /\ \E i \in DOMAIN c.list : says[c.list[i]]
  IN says[Len(cond)]

\* Every field of a condition is one of the schema, with a value of its type.
Fits(cond) == \A k \in DOMAIN cond : IsList(cond[k]) \/ OfSchema(cond[k].field, cond[k].value)

\* Every list but the braces joins two or more: the rules for $or and $and
\* give their operator to the condition itself when it is the only one.
Plain ==
  text.verb # "insert" =>
    \A k \in 1 .. Len(text.cond) - 1 : IsList(text.cond[k]) => Len(text.cond[k].list) > 1

Meant == {id \in DOMAIN rows : Says(text.cond, rows[id].fields)}

TypedKeys == {text.list[i].key : i \in DOMAIN text.list}

\* Of two values typed for a field the last counts.
TypedLast(k) ==
  LET places == {i \in DOMAIN text.list : text.list[i].key = k}
  IN text.list[CHOOSE i \in places : \A j \in places : j <= i].value

\* The command can be carried out.
Sensible ==
  /\ text.schema = "SCHEMA"
  /\ text.verb \in {"insert", "update"} =>
       \A k \in TypedKeys : k \in Fields /\ TypedLast(k).type = Schema[k]
  /\ IF text.verb = "insert"
     THEN TypedKeys = Fields /\ text.parent \in IF DOMAIN rows = {} THEN {0} ELSE DOMAIN rows
     ELSE Fits(text.cond)

-----------------------------------------------------------------------------
(* What must hold.                                                         *)

PathTypeOK ==
  /\ stage \in {"prompt", "parsed", "sent", "received", "answered"}
  /\ \A id \in DOMAIN rows :
       /\ id \in Int /\ rows[id].parent \in {0} \cup DOMAIN rows
       /\ DOMAIN rows[id].fields = Fields
       /\ \A k \in Fields :
            /\ rows[id].fields[k].type = Schema[k]
            /\ Schema[k] = "int" => rows[id].fields[k].val \in -Half .. Half - 1
  /\ response.ok \in BOOLEAN

\* The list on the wire is a tree rooted at its first node: every other node
\* is named once, by a node before it, so that CheckConditionals ends, and 0
\* is never the position of an operand.
WireIsTree ==
  stage = "sent" =>
    LET wire == request.cond IN
    \A k \in DOMAIN wire \ {1} :
      LET named == {j \in DOMAIN wire : k - 1 \in {wire[j].left, wire[j].right}} IN
      /\ Cardinality(named) = 1
      /\ \A j \in named : j < k /\ wire[j].left # wire[j].right

Right ==
  /\ response'.ok = Sensible
  /\ text.verb = "find" /\ Sensible =>
       response'.elements = {[id |-> id, fields |-> rows[id].fields] : id \in Meant}

\* What is printed is what was asked for: True for a command that could be
\* carried out, and the elements that the typed condition describes, each with
\* its id (parser/README.md: "equality and inequality").
AnswerRight == [][stage' = "answered" /\ Plain => Right]_pathVars

\* The same whatever the lists hold (parser/README.md: "a logical combination of
\* an arbitrary number of conditions").  The code breaks it.
AnyListRight == [][stage' = "answered" => Right]_pathVars

\* A command changes the elements as it was typed, or not at all when it does
\* not fit the schema or the tree: an insertion adds one element with the typed
\* values below the typed parent, an update sets the typed fields of the
\* elements the condition describes, a deletion removes those of them that have
\* no other element below, and nothing else changes.
DoneAsTyped ==
  [][stage' = "answered" /\ Plain =>
       CASE ~Sensible \/ text.verb = "find" -> rows' = rows
         [] Sensible /\ text.verb = "update" ->
              rows' = [id \in DOMAIN rows |->
                [parent |-> rows[id].parent,
                 fields |-> [k \in Fields |->
                   IF id \in Meant /\ k \in TypedKeys THEN TypedLast(k) ELSE rows[id].fields[k]]]]
         [] Sensible /\ text.verb = "insert" ->
              /\ response'.id \notin DOMAIN rows
              /\ rows' = [id \in DOMAIN rows \cup {response'.id} |->
                   IF id # response'.id THEN rows[id]
                   ELSE [parent |-> text.parent, fields |-> [k \in Fields |-> TypedLast(k)]]]
         [] Sensible /\ text.verb = "delete" ->
              /\ DOMAIN rows' \subseteq DOMAIN rows
              /\ \A id \in DOMAIN rows' : rows'[id] = rows[id]
              /\ \A id \in DOMAIN rows :
                   id \notin DOMAIN rows' <=>
                     id \in Meant /\ \A k \in DOMAIN rows : rows[k].parent = id => k \notin DOMAIN rows']_pathVars
=============================================================================
