----------------------------- MODULE SchemaStore -----------------------------
(***************************************************************************)
(* The list of schemas of src/llp/include/Database.h, the strings that     *)
(* schemas and elements own, and the calls that create and delete schemas  *)
(* and insert, update and delete elements, as far as they touch either.    *)
(*                                                                         *)
(* A string, a schema box or an element is named by the pointer its first  *)
(* chunk gives it; that a live pointer leads to what was written there is  *)
(* what ChunkHeap promises.  Which free pointer a new structure gets makes *)
(* no difference to what follows, so it is the lowest.  Of the links       *)
(* between elements the parent is kept and the previous brother; the       *)
(* others, and the ids a client makes up, are ElementTree's.               *)
(***************************************************************************)
EXTENDS Integers, FiniteSets, Sequences

CONSTANTS
  Definitions,     \* the schemas created: [name, fields]; a field is [key, type]
  Words,           \* contents of strings
  Values,          \* those that are inserted as the value of a field
  Numbers,         \* contents of the other fields (DB_INT_32 stands for all three types)
  Updates,         \* the update_queries: [name, if, is, set, to]
  FieldsPerChunk,  \* fields in an element of one chunk
  Boxes, Elements, Strings   \* bounds: the pointers of the three lists

Types == {"str", "int"}

ASSUME PointersAssumption ==
  /\ Boxes \subseteq Nat \ {0} /\ Elements \subseteq Nat \ {0} /\ Strings \subseteq Nat \ {0}
  /\ IsFiniteSet(Elements)

ASSUME DefinitionsAssumption ==
  /\ Values \subseteq Words
  /\ Definitions \subseteq [name : Words, fields : Seq([key : Words, type : Types])]

VARIABLES
  first,    \* master_header_.schemas.first_element
  count,    \* master_header_.schemas.count
  box,      \* pointer -> SchemaBox [name, keys, types, cnt, nxt]
  text,     \* pointer -> content of the string there
  el,       \* pointer -> ElementBox [schema, parent, keys, types, data]
  order,    \* the elements, the youngest first: brothers are linked in this order
  prev,     \* element -> prev_brother_link_
  \* history, read by no step
  lost,     \* strings saved for an element that was then refused
  damaged   \* an update has treated a number as a string or a string as a number,
            \* or a removal has followed a stale link

vars == <<first, count, box, text, el, order, prev, lost, damaged>>

Contents(type) == IF type = "str" THEN Words ELSE Numbers

-----------------------------------------------------------------------------
(* SchemasListIterator.  GetSchemas, GetSchemaByName and DeleteSchema read *)
(* count schemas and never look for the end of the list.                   *)

Walk ==
  LET at[k \in 1 .. count] == IF k = 1 THEN first ELSE box[at[k - 1]].nxt IN at

\* Mutant of Find: the last schema of the list is not read.
FindButLast(name) ==
  LET ks == {k \in 1 .. count - 1 : text[box[Walk[k]].name] = name}
  IN IF ks = {} THEN 0 ELSE Walk[CHOOSE k \in ks : \A j \in ks : k <= j]

\* GetSchemaByName; 0 when there is none.
Find(name) ==
  LET ks == {k \in 1 .. count : text[box[Walk[k]].name] = name}
  IN IF ks = {} THEN 0 ELSE Walk[CHOOSE k \in ks : \A j \in ks : k <= j]

Name(s) == text[box[s].name]

\* ReadSchema.
ReadSchema(s) ==
  [name |-> Name(s),
   fields |-> [j \in DOMAIN box[s].keys |->
                 [key |-> text[box[s].keys[j]], type |-> box[s].types[j]]]]

\* prev_ptr_ of the iterator when it stands on s.
Previous(s) ==
  LET k == CHOOSE k \in 1 .. count : Walk[k] = s IN IF k = 1 THEN 0 ELSE Walk[k - 1]

-----------------------------------------------------------------------------
(* SaveString and RemoveString.                                            *)

\* The pointers that n strings saved now get.
Picks(n) ==
  LET unused == Strings \ DOMAIN text IN
  {ps \in [1 .. n -> unused] :
     /\ \A j, k \in 1 .. n : j < k => ps[j] < ps[k]
     /\ \A q \in unused : (\A j \in 1 .. n : ps[j] # q) => \A j \in 1 .. n : ps[j] < q}

Saved(ps, words) ==
  [p \in DOMAIN text \cup {ps[j] : j \in DOMAIN ps} |->
     IF p \in DOMAIN text THEN text[p] ELSE words[CHOOSE j \in DOMAIN ps : ps[j] = p]]

Removed(ps) == [p \in DOMAIN text \ ps |-> text[p]]

Lowest(s, used, all) == s \in all \ used /\ \A t \in all \ used : s <= t

\* The model ends with the call that damages the file.
Ready == ~damaged

-----------------------------------------------------------------------------
Init ==
  /\ first = 0 /\ count = 0
  /\ box = [s \in {} |-> 0] /\ text = [p \in {} |-> 0] /\ el = [e \in {} |-> 0]
  /\ order = <<>> /\ prev = [e \in {} |-> 0]
  /\ lost = {} /\ damaged = FALSE

\* A schema gets its name and keys saved and becomes the head of the list.
CreateSchema(d, s, ps) ==
  /\ Ready /\ Find(d.name) = 0
  /\ Lowest(s, DOMAIN box, Boxes) /\ ps \in Picks(1 + Len(d.fields))
  /\ text' = Saved(ps, <<d.name>> \o [j \in DOMAIN d.fields |-> d.fields[j].key])
  /\ box' = [t \in DOMAIN box \cup {s} |->
               IF t # s THEN box[t]
               ELSE [name |-> ps[1], keys |-> Tail(ps), cnt |-> 0, nxt |-> first,
                     types |-> [j \in DOMAIN d.fields |-> d.fields[j].type]]]
  /\ first' = s /\ count' = count + 1
  /\ UNCHANGED <<el, order, prev, lost, damaged>>

StringsOf(s) == {box[s].name} \cup {box[s].keys[j] : j \in DOMAIN box[s].keys}

\* Mutants of Unlinked: the schema before s is not written back; it becomes the
\* end of the list.
UnlinkedNot(s) == [t \in DOMAIN box \ {s} |-> box[t]]
UnlinkedEnd(s) ==
  [t \in DOMAIN box \ {s} |->
     IF t = Previous(s) THEN [box[t] EXCEPT !.nxt = 0] ELSE box[t]]

\* The list without s: the link to it skips it.
Unlinked(s) ==
  [t \in DOMAIN box \ {s} |->
     IF t = Previous(s) THEN [box[t] EXCEPT !.nxt = box[s].nxt] ELSE box[t]]

\* Mutant of InUse: cnt_elements_ is not looked at.
InUseNever(s) == FALSE

InUse(s) == box[s].cnt # 0

\* Only a schema without elements goes, with its name and keys.
DeleteSchema(s) ==
  /\ Ready /\ Find(Name(s)) = s
  /\ ~InUse(s)
  /\ text' = Removed(StringsOf(s))
  /\ box' = Unlinked(s)
  /\ first' = IF Previous(s) = 0 THEN box[s].nxt ELSE first
  /\ count' = count - 1
  /\ UNCHANGED <<el, order, prev, lost, damaged>>

-----------------------------------------------------------------------------
(* InsertElement of a row of schema s below p; p = 0 makes the root.       *)

Rows(types) ==
  {row \in [DOMAIN types -> Values \cup Numbers] :
     \A j \in DOMAIN types : row[j] \in IF types[j] = "str" THEN Values ELSE Numbers}

StrColumns(types) == {j \in DOMAIN types : types[j] = "str"}

\* The rank of column j among the string columns.
Rank(types, j) == Cardinality({i \in StrColumns(types) : i <= j})

\* The strings of row in the order they are saved.
RowWords(types, row) ==
  [k \in 1 .. Cardinality(StrColumns(types)) |->
     row[CHOOSE j \in StrColumns(types) : Rank(types, j) = k]]

Chunks(types) == IF Len(types) <= FieldsPerChunk THEN 1 ELSE 2

\* The structure of the parent must be as long as an element of schema s.
Fits(p, s) == \A q \in DOMAIN el \cap {p} : Chunks(el[q].types) >= Chunks(box[s].types)

\* An element in the tree and the strings saved for it, known to the caller.
Asked(p, s, row, ps) ==
  /\ Ready /\ Find(Name(s)) = s
  /\ IF p = 0 THEN DOMAIN el = {} ELSE p \in DOMAIN el
  /\ ps \in Picks(Cardinality(StrColumns(box[s].types)))
  /\ text' = Saved(ps, RowWords(box[s].types, row))

\* The children of p in the order of their links.
Children(p) == SelectSeq(order, LAMBDA f : el[f].parent = p)

\* The new element becomes the first child of its parent, and the link of the
\* child that was the first leads to it.
Insert(e, p, s, row, ps) ==
  /\ Asked(p, s, row, ps) /\ Fits(p, s)
  /\ Lowest(e, DOMAIN el, Elements)
  /\ el' = [f \in DOMAIN el \cup {e} |->
              IF f # e THEN el[f]
              ELSE [schema |-> s, parent |-> p, keys |-> box[s].keys, types |-> box[s].types,
                    data |-> [j \in DOMAIN row |->
                                IF box[s].types[j] = "str" THEN ps[Rank(box[s].types, j)]
                                ELSE row[j]]]]
  /\ box' = [box EXCEPT ![s].cnt = @ + 1]
  /\ order' = <<e>> \o order
  /\ prev' = [f \in DOMAIN el \cup {e} |->
                IF f = e THEN 0 ELSE IF Children(p) # <<>> /\ f = Head(Children(p)) THEN e
                ELSE prev[f]]
  /\ UNCHANGED <<first, count, lost, damaged>>

\* "Invalid parent id", when the strings are already saved.
Refuse(p, s, row, ps) ==
  /\ Asked(p, s, row, ps) /\ ~Fits(p, s)
  /\ lost' = lost \cup {ps[k] : k \in DOMAIN ps}
  /\ UNCHANGED <<first, count, box, el, order, prev, damaged>>

-----------------------------------------------------------------------------
(* ElementsTreeIterator::Remove of a leaf.                                 *)

\* Mutant of DataStrings: the strings of the values stay.
DataStringsKept(e) == {}

DataStrings(e) == {el[e].data[j] : j \in StrColumns(el[e].types)}

Without(e) ==
  /\ el' = [f \in DOMAIN el \ {e} |-> el[f]]
  /\ box' = [box EXCEPT ![el[e].schema].cnt = @ - 1]

\* The link of e to its previous brother is right.  That of the brother behind an
\* element that is removed is not written.
LinkedBack(e) ==
  LET cs == Children(el[e].parent) IN
  \E k \in DOMAIN cs : cs[k] = e /\ prev[e] = IF k = 1 THEN 0 ELSE cs[k - 1]

Leaf(e) == \A f \in DOMAIN el : el[f].parent # e

Delete(e) ==
  /\ Ready /\ Leaf(e) /\ LinkedBack(e)
  /\ text' = Removed(DataStrings(e))
  /\ Without(e)
  /\ \E k \in DOMAIN order :
       order[k] = e /\ order' = SubSeq(order, 1, k - 1) \o SubSeq(order, k + 1, Len(order))
  /\ prev' = [f \in DOMAIN el \ {e} |-> prev[f]]
  /\ UNCHANGED <<first, count, lost, damaged>>

\* The strings are freed, then the element a stale link leads to is read as the
\* previous brother.  The read throws and e stays, without its strings, or e
\* goes, and what is written there damages the file.  ElementTree says which.
DeleteStale(e) ==
  /\ Ready /\ Leaf(e) /\ ~LinkedBack(e)
  /\ text' = Removed(DataStrings(e))
  /\ Without(e) \/ UNCHANGED <<el, box>>
  /\ damaged' = TRUE
  /\ UNCHANGED <<first, count, order, prev, lost>>

-----------------------------------------------------------------------------
(* UpdateElements with one new value: the column it has in the query's     *)
(* schema is written in every element, of whatever schema, that satisfies  *)
(* the condition.  Freeing a string and saving another puts the second     *)
(* where the first was: the free list is last in, first out.               *)

Column(keys, word) == {j \in DOMAIN keys : text[keys[j]] = word}

Value(e, j) == IF el[e].types[j] = "str" THEN text[el[e].data[j]] ELSE el[e].data[j]

\* CheckConditional does not throw: e has the field, with the type of the value.
Evaluates(e, u, type) == \E j \in Column(el[e].keys, u.if) : el[e].types[j] = type

Hit(e, u) == \E j \in Column(el[e].keys, u.if) : Value(e, j) = u.is

\* Column c of type t takes the value of u in the elements es.
Written(es, u, c, t) ==
  /\ damaged' = \E e \in es : c \notin DOMAIN el[e].types \/ el[e].types[c] # t
  /\ el' = [e \in DOMAIN el |->
              IF e \in es /\ t = "int" /\ c \in DOMAIN el[e].data
              THEN [el[e] EXCEPT !.data[c] = u.to] ELSE el[e]]
  /\ text' = IF t = "int" \/ damaged' THEN text
             ELSE [p \in DOMAIN text |->
                     IF \E e \in es : el[e].data[c] = p THEN u.to ELSE text[p]]

\* The loop ends with an exception at an element whose condition cannot be
\* evaluated; any of the others may have been visited before it.
Update(u, s, seen) ==
  /\ Ready /\ Find(u.name) = s
  /\ \E c \in Column(box[s].keys, u.set), d \in Column(box[s].keys, u.if) :
       LET fine == {e \in DOMAIN el : Evaluates(e, u, box[s].types[d])} IN
       /\ u.is \in Contents(box[s].types[d]) /\ u.to \in Contents(box[s].types[c])
       /\ seen \subseteq fine /\ (fine = DOMAIN el => seen = fine)
       /\ Written({e \in seen : Hit(e, u)}, u, c, box[s].types[c])
  /\ UNCHANGED <<first, count, box, order, prev, lost>>

-----------------------------------------------------------------------------
Next ==
  \/ \E d \in Definitions, s \in Boxes :
       \E ps \in Picks(1 + Len(d.fields)) : CreateSchema(d, s, ps)
  \/ \E s \in DOMAIN box :
       \/ DeleteSchema(s)
       \/ \E p \in {0} \cup DOMAIN el, row \in Rows(box[s].types),
             ps \in Picks(Cardinality(StrColumns(box[s].types))) :
            \/ \E e \in Elements : Insert(e, p, s, row, ps)
            \/ Refuse(p, s, row, ps)
       \/ \E u \in Updates, seen \in SUBSET DOMAIN el : Update(u, s, seen)
  \/ \E e \in DOMAIN el : Delete(e) \/ DeleteStale(e)
  \/ damaged /\ UNCHANGED vars

Spec == Init /\ [][Next]_vars

-----------------------------------------------------------------------------
(* What must hold as long as nothing has damaged the file.                 *)

TypeOK ==
  /\ first \in {0} \cup DOMAIN box
  /\ count \in Nat
  /\ DOMAIN box \subseteq Boxes
  /\ \A s \in DOMAIN box :
       /\ box[s].name \in Strings
       /\ box[s].types \in Seq(Types)
       /\ box[s].keys \in [DOMAIN box[s].types -> Strings]
       /\ box[s].cnt \in Nat
       /\ box[s].nxt \in {0} \cup DOMAIN box
  /\ DOMAIN text \subseteq Strings /\ \A p \in DOMAIN text : text[p] \in Words
  /\ DOMAIN el \subseteq Elements
  /\ \A e \in DOMAIN el :
       /\ el[e].schema \in Boxes
       /\ el[e].parent \in {0} \cup Elements
       /\ el[e].types \in Seq(Types)
       /\ el[e].keys \in [DOMAIN el[e].types -> Strings]
       /\ DOMAIN el[e].data = DOMAIN el[e].types
  /\ order \in Seq(Elements)
  /\ \A e \in DOMAIN el : prev[e] \in {0} \cup Elements
  /\ lost \subseteq Strings
  /\ damaged \in BOOLEAN

\* The places in schemas and elements that hold the pointer of a string of
\* their own.
Owners ==
  {<<"name", s, 0>> : s \in DOMAIN box}
    \cup (UNION {{<<"key", s, j>> : j \in DOMAIN box[s].keys} : s \in DOMAIN box})
    \cup (UNION {{<<"data", e, j>> : j \in StrColumns(el[e].types)} : e \in DOMAIN el})

Owned(o) ==
  CASE o[1] = "name" -> box[o[2]].name
    [] o[1] = "key"  -> box[o[2]].keys[o[3]]
    [] o[1] = "data" -> el[o[2]].data[o[3]]

\* No string is freed under its owner or freed twice: the owners hold different
\* strings, and, but for those of refused insertions, all there are.
OneOwner ==
  ~damaged =>
    /\ {Owned(o) : o \in Owners} = DOMAIN text \ lost
    /\ \A o1, o2 \in Owners : Owned(o1) = Owned(o2) => o1 = o2

\* An element can be read as long as it is there: its schema is still listed,
\* and the key strings it shares with the schema are the schema's.
ElementsReadable ==
  ~damaged =>
    /\ \A e \in DOMAIN el :
         /\ el[e].schema \in DOMAIN box
         /\ el[e].keys = box[el[e].schema].keys /\ el[e].types = box[el[e].schema].types
    /\ \A s \in DOMAIN box : box[s].cnt = Cardinality({e \in DOMAIN el : el[e].schema = s})

\* The walk that trusts count meets every schema once and ends behind the last;
\* the names are different, so a schema can be found and deleted by name.
ListComplete ==
  ~damaged =>
    /\ {Walk[k] : k \in 1 .. count} = DOMAIN box /\ count = Cardinality(DOMAIN box)
    /\ IF count = 0 THEN first = 0 ELSE box[Walk[count]].nxt = 0
    /\ \A s, t \in DOMAIN box : Name(s) = Name(t) => s = t

\* What the callers see: the definitions in the order of the list, and how many
\* elements of each there are.
List == [k \in 1 .. count |-> ReadSchema(Walk[k])]

Uses == [n \in {d.name : d \in Definitions} |->
           Cardinality({e \in DOMAIN el : Name(el[e].schema) = n})]

Catalog == INSTANCE SchemaCatalog WITH
  Names <- {d.name : d \in Definitions}, list <- List, uses <- Uses

\* Every step is one of SchemaCatalog: what the callers see is a list of
\* definitions with distinct names, and only those without elements go.
ImplementsCatalog == Catalog!Init /\ [][~damaged' => [Catalog!Next]_<<List, Uses>>]_vars

-----------------------------------------------------------------------------
(* What the project asks for and the code does not do.                     *)

\* RULES.md: no resource leaks, whatever errors occur: every string in the file
\* belongs to a schema or an element.
NoStringLeaks == ~damaged => {Owned(o) : o \in Owners} = DOMAIN text

\* ReadString asserts that it gets a pointer: a string column of an element
\* holds one.
StringColumnsPoint ==
  \A e \in DOMAIN el : \A j \in StrColumns(el[e].types) : el[e].data[j] > 0
=============================================================================
