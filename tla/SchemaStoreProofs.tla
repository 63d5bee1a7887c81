-------------------------- MODULE SchemaStoreProofs --------------------------
(***************************************************************************)
(* The list of schemas, elements and the schemas they are of, strings and  *)
(* their owners, and the refinement of SchemaCatalog, proved for all       *)
(* definitions, words, updates and pointers.                               *)
(***************************************************************************)
EXTENDS SchemaStore, WalkProofs, SequenceTheorems

-----------------------------------------------------------------------------
(* Shapes of the records.                                                  *)

Shapes ==
  /\ DOMAIN text \subseteq Strings /\ lost \subseteq DOMAIN text
  /\ \A s \in DOMAIN box :
       /\ DOMAIN box[s] = {"name", "keys", "types", "cnt", "nxt"}
       /\ box[s].types \in Seq(Types) /\ DOMAIN box[s].keys = DOMAIN box[s].types
  /\ \A e \in DOMAIN el :
       /\ DOMAIN el[e] = {"schema", "parent", "keys", "types", "data"}
       /\ DOMAIN el[e].data = DOMAIN el[e].types

-----------------------------------------------------------------------------
(* The elements of a schema.                                               *)

Of(s) == {e \in DOMAIN el : el[e].schema = s}

\* ElementsReadable, also once the file is damaged: no call changes the schema,
\* the keys or the types of an element.
Readable ==
  /\ DOMAIN el \subseteq Elements
  /\ \A e \in DOMAIN el :
       /\ el[e].schema \in DOMAIN box
       /\ el[e].keys = box[el[e].schema].keys /\ el[e].types = box[el[e].schema].types
  /\ \A s \in DOMAIN box : box[s].cnt = Cardinality(Of(s))

\* Of a schema there are finitely many elements.
LEMMA OfFinite ==
  ASSUME Readable, NEW s
  PROVE  IsFiniteSet(Of(s))
  BY PointersAssumption, FS_Subset DEF Readable, Of

\* A new schema has no elements yet.
LEMMA CreateReadable ==
  ASSUME Readable, Shapes, NEW d \in Definitions, NEW s \in Boxes, NEW ps, CreateSchema(d, s, ps)
  PROVE  Readable'
<1>1. s \notin DOMAIN box /\ UNCHANGED el /\ DOMAIN box' = DOMAIN box \cup {s}
    BY DEF CreateSchema, Lowest
<1>2. \A t \in DOMAIN box : box'[t] = box[t]
    BY <1>1 DEF CreateSchema
<1>3. box'[s].cnt = 0
    BY DEF CreateSchema
<1>4. \A t : Of(t)' = Of(t)
    BY <1>1 DEF Of
<1>5. Of(s) = {}
    BY <1>1 DEF Of, Readable
<1> QED
    BY <1>1, <1>2, <1>3, <1>4, <1>5, FS_EmptySet DEF Readable

\* Only a schema without elements is deleted.
LEMMA DeleteSchemaReadable ==
  ASSUME Readable, Shapes, NEW s \in DOMAIN box, DeleteSchema(s)
  PROVE  Readable'
<1>1. UNCHANGED el /\ DOMAIN box' = DOMAIN box \ {s}
    BY DEF DeleteSchema, Unlinked
<1>2. Of(s) = {}
    BY OfFinite, FS_EmptySet DEF DeleteSchema, InUse, Readable
<1>3. \A t \in DOMAIN box' :
        box'[t].cnt = box[t].cnt /\ box'[t].keys = box[t].keys /\ box'[t].types = box[t].types
    BY DEF DeleteSchema, Unlinked, Shapes
<1>4. \A t : Of(t)' = Of(t)
    BY <1>1 DEF Of
<1> QED
    BY <1>1, <1>2, <1>3, <1>4 DEF Readable, Of

\* An insertion counts its element.
LEMMA InsertReadable ==
  ASSUME Readable, Shapes, NEW e \in Elements, NEW p, NEW s \in DOMAIN box, NEW row, NEW ps,
         Insert(e, p, s, row, ps)
  PROVE  Readable'
<1>1. e \notin DOMAIN el /\ DOMAIN el' = DOMAIN el \cup {e} /\ DOMAIN box' = DOMAIN box
    BY DEF Insert, Lowest
<1>2. /\ \A f \in DOMAIN el : el'[f] = el[f]
      /\ el'[e].schema = s /\ el'[e].keys = box[s].keys /\ el'[e].types = box[s].types
    BY <1>1 DEF Insert
<1>3. \A t \in DOMAIN box :
        /\ box'[t].keys = box[t].keys /\ box'[t].types = box[t].types
        /\ box'[t].cnt = IF t = s THEN box[t].cnt + 1 ELSE box[t].cnt
    BY DEF Insert, Shapes
<1>4. Of(s)' = Of(s) \cup {e} /\ e \notin Of(s) /\ \A t : t # s => Of(t)' = Of(t)
    BY <1>1, <1>2 DEF Of
<1>5. Cardinality(Of(s)') = Cardinality(Of(s)) + 1
    BY <1>4, OfFinite, FS_AddElement
<1>6. \A f \in DOMAIN el' :
        /\ el'[f].schema \in DOMAIN box'
        /\ el'[f].keys = box'[el'[f].schema].keys /\ el'[f].types = box'[el'[f].schema].types
    BY <1>1, <1>2, <1>3 DEF Readable
<1>7. ASSUME NEW t \in DOMAIN box' PROVE box'[t].cnt = Cardinality(Of(t)')
    <2>1. CASE t = s
        BY <1>1, <1>3, <1>5, <2>1 DEF Readable, Of
    <2>2. CASE t # s
        BY <1>1, <1>3, <1>4, <2>2 DEF Readable
    <2> QED
        BY <2>1, <2>2
<1> QED
    BY <1>1, <1>6, <1>7 DEF Readable, Of

\* A deletion counts its element off.
LEMMA DeleteReadable ==
  ASSUME Readable, Shapes, NEW e \in DOMAIN el, Without(e)
  PROVE  Readable'
<1> SUFFICES ASSUME NEW s, s = el[e].schema PROVE Readable'
    OBVIOUS
<1>1. s \in DOMAIN box /\ DOMAIN el' = DOMAIN el \ {e} /\ DOMAIN box' = DOMAIN box
    BY DEF Without, Readable
<1>2. \A f \in DOMAIN el' : el'[f] = el[f]
    BY DEF Without
<1>3. \A t \in DOMAIN box :
        /\ box'[t].keys = box[t].keys /\ box'[t].types = box[t].types
        /\ box'[t].cnt = IF t = s THEN box[t].cnt - 1 ELSE box[t].cnt
    BY DEF Without, Shapes
<1>4. Of(s)' = Of(s) \ {e} /\ e \in Of(s) /\ \A t : t # s => Of(t)' = Of(t)
    BY <1>1, <1>2 DEF Of
<1>5. Cardinality(Of(s)') = Cardinality(Of(s)) - 1
    BY <1>4, OfFinite, FS_RemoveElement
<1>6. \A f \in DOMAIN el' :
        /\ el'[f].schema \in DOMAIN box'
        /\ el'[f].keys = box'[el'[f].schema].keys /\ el'[f].types = box'[el'[f].schema].types
    BY <1>1, <1>2, <1>3 DEF Readable
<1>7. ASSUME NEW t \in DOMAIN box' PROVE box'[t].cnt = Cardinality(Of(t)')
    <2>1. CASE t = s
        BY <1>1, <1>3, <1>5, <2>1 DEF Readable, Of
    <2>2. CASE t # s
        BY <1>1, <1>3, <1>4, <2>2 DEF Readable
    <2> QED
        BY <2>1, <2>2
<1> QED
    BY <1>1, <1>6, <1>7 DEF Readable, Of

\* An update changes nothing but data.
LEMMA UpdateKeeps ==
  ASSUME Shapes, NEW u \in Updates, NEW s \in DOMAIN box, NEW seen, Update(u, s, seen)
  PROVE  /\ UNCHANGED <<box, lost>> /\ DOMAIN text' = DOMAIN text /\ DOMAIN el' = DOMAIN el
         /\ \A e \in DOMAIN el :
              /\ el'[e].schema = el[e].schema /\ el'[e].keys = el[e].keys
              /\ el'[e].types = el[e].types
              /\ DOMAIN el'[e] = DOMAIN el[e] /\ DOMAIN el'[e].data = DOMAIN el[e].data
<1>1. PICK c, es : Written(es, u, c, box[s].types[c])
    BY DEF Update
<1>2. UNCHANGED <<box, lost>>
    BY DEF Update
<1>3. DOMAIN text' = DOMAIN text /\ DOMAIN el' = DOMAIN el
    BY <1>1 DEF Written
<1>4. \A e \in DOMAIN el : el'[e] = el[e] \/ \E x : el'[e] = [el[e] EXCEPT !.data[c] = x]
    BY <1>1 DEF Written
<1> QED
    BY <1>2, <1>3, <1>4 DEF Shapes

-----------------------------------------------------------------------------
(* The owners of the strings.                                              *)

\* The map w gives every owner a string of T, each another one, and leaves none out.
Held(w, T) ==
  /\ {w[o] : o \in DOMAIN w} = T
  /\ \A o1, o2 \in DOMAIN w : w[o1] = w[o2] => o1 = o2

OwnedBy == [o \in Owners |-> Owned(o)]

\* OneOwner, and more: a string that was lost is still there, so that it is not
\* saved again under an owner.
OwnedOnce == ~damaged => Held(OwnedBy, DOMAIN text \ lost)

\* New owners get new strings.
LEMMA HeldMore ==
  ASSUME NEW w, NEW x, NEW v, NEW T, NEW U, Held(w, T), Held(x, U), T \cap U = {},
         DOMAIN v = DOMAIN w \cup DOMAIN x,
         \A o \in DOMAIN w : v[o] = w[o], \A o \in DOMAIN x : v[o] = x[o]
  PROVE  Held(v, T \cup U)
<1>1. {v[o] : o \in DOMAIN v} = T \cup U
    BY DEF Held
<1>2. ASSUME NEW o1 \in DOMAIN v, NEW o2 \in DOMAIN v, v[o1] = v[o2] PROVE o1 = o2
    <2>1. CASE o1 \in DOMAIN w /\ o2 \in DOMAIN w
        BY <1>2, <2>1 DEF Held
    <2>2. CASE o1 \in DOMAIN x /\ o2 \in DOMAIN x
        BY <1>2, <2>2 DEF Held
    <2>3. \A a \in DOMAIN w, b \in DOMAIN x : v[a] # v[b]
        BY DEF Held
    <2> QED
        BY <1>2, <2>1, <2>2, <2>3
<1> QED
    BY <1>1, <1>2 DEF Held

\* Owners that go take their strings with them.
LEMMA HeldLess ==
  ASSUME NEW w, NEW v, NEW T, NEW U, Held(w, T), DOMAIN v \subseteq DOMAIN w,
         \A o \in DOMAIN v : v[o] = w[o], U = {w[o] : o \in DOMAIN w \ DOMAIN v}
  PROVE  Held(v, T \ U)
<1>1. {v[o] : o \in DOMAIN v} = T \ U
    BY DEF Held
<1> QED
    BY <1>1 DEF Held

\* The three kinds of owners and what each of them owns.
LEMMA OwnedIs ==
  /\ \A s : Owned(<<"name", s, 0>>) = box[s].name
  /\ \A s, j : Owned(<<"key", s, j>>) = box[s].keys[j]
  /\ \A e, j : Owned(<<"data", e, j>>) = el[e].data[j]
  BY DEF Owned

\* Owners, as a condition.
OwnersForm ==
  \A o : o \in Owners <=>
    \/ \E s \in DOMAIN box : o = <<"name", s, 0>>
    \/ \E s \in DOMAIN box : \E j \in DOMAIN box[s].keys : o = <<"key", s, j>>
    \/ \E e \in DOMAIN el : \E j \in StrColumns(el[e].types) : o = <<"data", e, j>>

\* Owners are the names and keys of schemas and the string columns of elements.
LEMMA OwnersAre == OwnersForm
<1> USE DEF OwnersForm
<1>1. ASSUME NEW o
      PROVE  o \in UNION {{<<"key", s, j>> : j \in DOMAIN box[s].keys} : s \in DOMAIN box}
               <=> \E s \in DOMAIN box : \E j \in DOMAIN box[s].keys : o = <<"key", s, j>>
    <2> DEFINE K(s) == {<<"key", s, j>> : j \in DOMAIN box[s].keys}
    <2>1. o \in UNION {K(s) : s \in DOMAIN box} <=> \E s \in DOMAIN box : o \in K(s)
        <3> HIDE DEF K
        <3> QED
            OBVIOUS
    <2>2. \A s : o \in K(s) <=> \E j \in DOMAIN box[s].keys : o = <<"key", s, j>>
        OBVIOUS
    <2> QED
        BY <2>1, <2>2
<1>2. ASSUME NEW o
      PROVE  o \in UNION {{<<"data", e, j>> : j \in StrColumns(el[e].types)} : e \in DOMAIN el}
               <=> \E e \in DOMAIN el : \E j \in StrColumns(el[e].types) : o = <<"data", e, j>>
    <2> DEFINE D(e) == {<<"data", e, j>> : j \in StrColumns(el[e].types)}
    <2>1. o \in UNION {D(e) : e \in DOMAIN el} <=> \E e \in DOMAIN el : o \in D(e)
        <3> HIDE DEF D
        <3> QED
            OBVIOUS
    <2>2. \A e : o \in D(e) <=> \E j \in StrColumns(el[e].types) : o = <<"data", e, j>>
        OBVIOUS
    <2> QED
        BY <2>1, <2>2
<1>3. \A o : o \in {<<"name", s, 0>> : s \in DOMAIN box} <=> \E s \in DOMAIN box : o = <<"name", s, 0>>
    OBVIOUS
<1> DEFINE Ns == {<<"name", s, 0>> : s \in DOMAIN box}
           Ks == UNION {{<<"key", s, j>> : j \in DOMAIN box[s].keys} : s \in DOMAIN box}
           Ds == UNION {{<<"data", e, j>> : j \in StrColumns(el[e].types)} : e \in DOMAIN el}
<1>4. Owners = Ns \cup Ks \cup Ds
    BY DEF Owners
<1> SUFFICES ASSUME NEW o
             PROVE  o \in Owners <=>
                      \/ \E s \in DOMAIN box : o = <<"name", s, 0>>
                      \/ \E s \in DOMAIN box : \E j \in DOMAIN box[s].keys : o = <<"key", s, j>>
                      \/ \E e \in DOMAIN el : \E j \in StrColumns(el[e].types) : o = <<"data", e, j>>
    OBVIOUS
<1>5. /\ o \in Ns <=> \E s \in DOMAIN box : o = <<"name", s, 0>>
      /\ o \in Ks <=> \E s \in DOMAIN box : \E j \in DOMAIN box[s].keys : o = <<"key", s, j>>
      /\ o \in Ds <=> \E e \in DOMAIN el : \E j \in StrColumns(el[e].types) : o = <<"data", e, j>>
    BY <1>1, <1>2, <1>3
<1> HIDE DEF Ns, Ks, Ds
<1> QED
    BY <1>4, <1>5

\* What a call leaves of schemas and elements keeps its strings.
Persists ==
  /\ \A s \in DOMAIN box \cap DOMAIN box' :
       box'[s].name = box[s].name /\ box'[s].keys = box[s].keys
  /\ \A e \in DOMAIN el \cap DOMAIN el' :
       /\ el'[e].types = el[e].types
       /\ \A j \in StrColumns(el[e].types) : el'[e].data[j] = el[e].data[j]

\* An owner that stays owns what it owned.
LEMMA OwnedPersists ==
  ASSUME Persists, NEW o, o \in Owners, o \in Owners'
  PROVE  OwnedBy'[o] = OwnedBy[o]
<1>0. OwnedBy[o] = Owned(o) /\ OwnedBy'[o] = Owned(o)'
    BY DEF OwnedBy
<1>a. \/ \E s \in DOMAIN box' : o = <<"name", s, 0>>
      \/ \E s \in DOMAIN box' : \E j \in DOMAIN box'[s].keys : o = <<"key", s, j>>
      \/ \E e \in DOMAIN el' : \E j \in StrColumns(el[e].types)' : o = <<"data", e, j>>
    <2>1. OwnersForm'
        BY OwnersAre, PTL
    <2> QED
        BY <2>1 DEF OwnersForm
<1>1. CASE \E s \in DOMAIN box : o = <<"name", s, 0>>
    <2>1. PICK s \in DOMAIN box : o = <<"name", s, 0>>
        BY <1>1
    <2>2. s \in DOMAIN box'
        BY <1>a, <2>1
    <2> QED
        BY <1>0, <2>1, <2>2 DEF Owned, Persists
<1>2. CASE \E s \in DOMAIN box : \E j \in DOMAIN box[s].keys : o = <<"key", s, j>>
    <2>0. PICK s \in DOMAIN box : \E j \in DOMAIN box[s].keys : o = <<"key", s, j>>
        BY <1>2
    <2>1. PICK j \in DOMAIN box[s].keys : o = <<"key", s, j>>
        BY <2>0
    <2>2. s \in DOMAIN box'
        BY <1>a, <2>1
    <2> QED
        BY <1>0, <2>1, <2>2 DEF Owned, Persists
<1>3. CASE \E e \in DOMAIN el : \E j \in StrColumns(el[e].types) : o = <<"data", e, j>>
    <2>0. PICK e \in DOMAIN el : \E j \in StrColumns(el[e].types) : o = <<"data", e, j>>
        BY <1>3
    <2>1. PICK j \in StrColumns(el[e].types) : o = <<"data", e, j>>
        BY <2>0
    <2>2. e \in DOMAIN el'
        BY <1>a, <2>1
    <2> QED
        BY <1>0, <2>1, <2>2 DEF Owned, Persists
<1> QED
    BY <1>1, <1>2, <1>3, OwnersAre DEF OwnersForm

-----------------------------------------------------------------------------
(* Strings that are saved.                                                 *)

\* They get different pointers, none of which is in use.
LEMMA PicksFresh ==
  ASSUME NEW n \in Nat, NEW ps \in Picks(n)
  PROVE  /\ ps \in [1 .. n -> Strings \ DOMAIN text]
         /\ \A j, k \in 1 .. n : ps[j] = ps[k] => j = k
<1>1. /\ ps \in [1 .. n -> Strings \ DOMAIN text]
      /\ \A j, k \in 1 .. n : j < k => ps[j] < ps[k]
    BY DEF Picks
<1>2. \A j \in 1 .. n : ps[j] \in Nat
    BY <1>1, PointersAssumption
<1> QED
    BY <1>1, <1>2

\* SaveString adds the pointers ps and removes none.
LEMMA SavedDomain ==
  ASSUME NEW ps, NEW words
  PROVE  DOMAIN Saved(ps, words) = DOMAIN text \cup {ps[j] : j \in DOMAIN ps}
  BY DEF Saved

\* New owners whose strings were just saved.
LEMMA OwnedMore ==
  ASSUME Shapes, OwnedOnce, ~damaged, Persists, NEW x, NEW U,
         Held(x, U), U \cap DOMAIN text = {}, DOMAIN text' = DOMAIN text \cup U,
         Owners' = Owners \cup DOMAIN x, UNCHANGED lost,
         \A o \in DOMAIN x : OwnedBy'[o] = x[o]
  PROVE  OwnedOnce'
<1>1. Held(OwnedBy, DOMAIN text \ lost)
    BY DEF OwnedOnce
<1>2. DOMAIN OwnedBy = Owners /\ DOMAIN OwnedBy' = Owners'
    BY DEF OwnedBy
<1>3. \A o \in DOMAIN OwnedBy : OwnedBy'[o] = OwnedBy[o]
    BY <1>2, OwnedPersists
<1>4. (DOMAIN text \ lost) \cap U = {} /\ DOMAIN text' \ lost' = (DOMAIN text \ lost) \cup U
    BY DEF Shapes
<1>5. Held(OwnedBy', (DOMAIN text \ lost) \cup U)
    BY <1>1, <1>2, <1>3, <1>4, HeldMore
<1> QED
    BY <1>4, <1>5 DEF OwnedOnce

\* Owners that go and whose strings are removed.
LEMMA OwnedLess ==
  ASSUME OwnedOnce, ~damaged, Persists, NEW U,
         Owners' \subseteq Owners, U = {OwnedBy[o] : o \in Owners \ Owners'},
         DOMAIN text' = DOMAIN text \ U, UNCHANGED lost
  PROVE  OwnedOnce'
<1>1. Held(OwnedBy, DOMAIN text \ lost)
    BY DEF OwnedOnce
<1>2. DOMAIN OwnedBy = Owners /\ DOMAIN OwnedBy' = Owners'
    BY DEF OwnedBy
<1>3. \A o \in DOMAIN OwnedBy' : OwnedBy'[o] = OwnedBy[o]
    BY <1>2, OwnedPersists
<1>4. Held(OwnedBy', (DOMAIN text \ lost) \ U)
    <2> DEFINE w == OwnedBy
               v == OwnedBy'
    <2>1. Held(w, DOMAIN text \ lost) /\ DOMAIN v \subseteq DOMAIN w
        BY <1>1, <1>2
    <2>2. U = {w[o] : o \in DOMAIN w \ DOMAIN v}
        BY <1>2
    <2>3. \A o \in DOMAIN v : v[o] = w[o]
        BY <1>3
    <2> HIDE DEF w, v
    <2>4. Held(v, (DOMAIN text \ lost) \ U)
        BY <2>1, <2>2, <2>3, HeldLess
    <2> QED
        BY <2>4 DEF v
<1>5. DOMAIN text' \ lost' = (DOMAIN text \ lost) \ U
    OBVIOUS
<1> QED
    BY <1>4, <1>5 DEF OwnedOnce

-----------------------------------------------------------------------------
(* CreateSchema.                                                           *)

\* The columns that a definition lists.
LEMMA FieldTypes ==
  ASSUME NEW d \in Definitions
  PROVE  /\ Len(d.fields) \in Nat /\ DOMAIN d.fields = 1 .. Len(d.fields)
         /\ [j \in DOMAIN d.fields |-> d.fields[j].type] \in Seq(Types)
<1> DEFINE F == [key : Words, type : Types]
           n == Len(d.fields)
<1>1. d.fields \in Seq(F)
    BY DefinitionsAssumption
<1>2. \A x \in F : x.type \in Types
    OBVIOUS
<1> HIDE DEF F
<1>3. n \in Nat /\ DOMAIN d.fields = 1 .. n /\ \A j \in 1 .. n : d.fields[j] \in F
    BY <1>1
<1>4. [j \in DOMAIN d.fields |-> d.fields[j].type] \in [1 .. n -> Types]
    BY <1>2, <1>3
<1> QED
    BY <1>3, <1>4

\* What CreateSchema does: box s, with n columns, and the strings ps are new.
NewSchema(s, n, ps) ==
  /\ s \notin DOMAIN box /\ DOMAIN box' = DOMAIN box \cup {s}
  /\ \A t \in DOMAIN box : box'[t] = box[t]
  /\ DOMAIN box'[s] = {"name", "keys", "types", "cnt", "nxt"}
  /\ box'[s].name = ps[1]
  /\ DOMAIN box'[s].keys = 1 .. n /\ \A j \in 1 .. n : box'[s].keys[j] = ps[j + 1]
  /\ box'[s].types \in Seq(Types) /\ DOMAIN box'[s].types = 1 .. n
  /\ UNCHANGED <<el, lost, damaged>> /\ ~damaged
  /\ ps \in [1 .. 1 + n -> Strings \ DOMAIN text]
  /\ \A j, k \in 1 .. 1 + n : ps[j] = ps[k] => j = k
  /\ DOMAIN text' = DOMAIN text \cup {ps[j] : j \in 1 .. 1 + n}

\* CreateSchema(d, s, ps) adds such a box.
LEMMA NewBox ==
  ASSUME NEW d \in Definitions, NEW s \in Boxes, NEW ps \in Picks(1 + Len(d.fields)),
         CreateSchema(d, s, ps)
  PROVE  Len(d.fields) \in Nat /\ NewSchema(s, Len(d.fields), ps)
<1> DEFINE n == Len(d.fields)
<1>1. n \in Nat
    BY FieldTypes
<1>2. /\ ps \in [1 .. 1 + n -> Strings \ DOMAIN text]
      /\ \A j, k \in 1 .. 1 + n : ps[j] = ps[k] => j = k
    BY <1>1, PicksFresh
<1>3. ps \in Seq(Strings) /\ Len(ps) = 1 + n /\ ps # <<>>
    BY <1>1, <1>2
<1>4. DOMAIN Tail(ps) = 1 .. n /\ \A j \in 1 .. n : Tail(ps)[j] = ps[j + 1]
    BY <1>1, <1>3
<1> DEFINE ts == [j \in DOMAIN d.fields |-> d.fields[j].type]
<1>5. ts \in Seq(Types) /\ DOMAIN ts = 1 .. n
    BY FieldTypes
<1>6. /\ s \notin DOMAIN box /\ DOMAIN box' = DOMAIN box \cup {s}
      /\ \A t \in DOMAIN box : box'[t] = box[t]
      /\ box'[s] = [name |-> ps[1], keys |-> Tail(ps), cnt |-> 0, nxt |-> first, types |-> ts]
      /\ UNCHANGED <<el, lost, damaged>> /\ ~damaged
    BY DEF CreateSchema, Lowest, Ready
<1>7. DOMAIN text' = DOMAIN text \cup {ps[j] : j \in 1 .. 1 + n}
    <2>1. PICK words : text' = Saved(ps, words)
        BY DEF CreateSchema
    <2>2. DOMAIN text' = DOMAIN text \cup {ps[j] : j \in DOMAIN ps} /\ DOMAIN ps = 1 .. 1 + n
        BY <1>2, <2>1, SavedDomain
    <2> QED
        BY <2>2
<1> HIDE DEF ts
<1>8. /\ DOMAIN box'[s] = {"name", "keys", "types", "cnt", "nxt"}
      /\ box'[s].name = ps[1] /\ box'[s].keys = Tail(ps) /\ box'[s].types = ts
    BY <1>6
<1> HIDE DEF n
<1>9. NewSchema(s, n, ps)
    BY <1>1, <1>2, <1>4, <1>5, <1>6, <1>7, <1>8 DEF NewSchema
<1> QED
    BY <1>1, <1>9 DEF n

\* The new box is a box, and its strings are strings.
LEMMA CreateShapes ==
  ASSUME Shapes, NEW s, NEW n \in Nat, NEW ps, NewSchema(s, n, ps)
  PROVE  Shapes'
<1>1. DOMAIN text' \subseteq Strings /\ lost' \subseteq DOMAIN text'
    BY DEF Shapes, NewSchema
<1>2. \A t \in DOMAIN box' :
        /\ DOMAIN box'[t] = {"name", "keys", "types", "cnt", "nxt"}
        /\ box'[t].types \in Seq(Types) /\ DOMAIN box'[t].keys = DOMAIN box'[t].types
    BY DEF Shapes, NewSchema
<1> QED
    BY <1>1, <1>2 DEF Shapes, NewSchema

\* The schema owns the strings of its name and its keys.
LEMMA CreateOwned ==
  ASSUME Shapes, OwnedOnce, NEW s, NEW n \in Nat, NEW ps, NewSchema(s, n, ps)
  PROVE  OwnedOnce'
<1> DEFINE U == {ps[j] : j \in 1 .. 1 + n}
           N == {<<"name", s, 0>>} \cup {<<"key", s, j>> : j \in 1 .. n}
           x == [o \in N |-> IF o = <<"name", s, 0>> THEN ps[1] ELSE ps[o[3] + 1]]
<1>2. /\ ps \in [1 .. 1 + n -> Strings \ DOMAIN text]
      /\ \A j, k \in 1 .. 1 + n : ps[j] = ps[k] => j = k
    BY DEF NewSchema
<1>3. x[<<"name", s, 0>>] = ps[1] /\ \A j \in 1 .. n : x[<<"key", s, j>>] = ps[j + 1]
    OBVIOUS
<1>0. \A o \in N : o = <<"name", s, 0>> \/ \E j \in 1 .. n : o = <<"key", s, j>>
    OBVIOUS
<1>9. DOMAIN x = N /\ <<"name", s, 0>> \in N /\ \A j \in 1 .. n : <<"key", s, j>> \in N
    OBVIOUS
<1>4. Held(x, U)
    <2>1. ASSUME NEW o \in N PROVE x[o] \in U
        <3>1. CASE o = <<"name", s, 0>>
            BY <1>3, <3>1
        <3>2. CASE \E j \in 1 .. n : o = <<"key", s, j>>
            <4>1. PICK j \in 1 .. n : o = <<"key", s, j>>
                BY <3>2
            <4>2. x[o] = ps[j + 1] /\ j + 1 \in 1 .. 1 + n
                BY <1>3, <4>1
            <4> QED
                BY <4>2
        <3> QED
            BY <1>0, <3>1, <3>2
    <2>2. ASSUME NEW k \in 1 .. 1 + n PROVE \E o \in N : x[o] = ps[k]
        <3>1. CASE k = 1
            BY <1>3, <3>1
        <3>2. CASE k # 1
            <4>1. k - 1 \in 1 .. n /\ (k - 1) + 1 = k
                BY <3>2
            <4> QED
                BY <1>3, <4>1
        <3> QED
            BY <3>1, <3>2
    <2>3. ASSUME NEW o1 \in N, NEW o2 \in N, x[o1] = x[o2] PROVE o1 = o2
        BY <1>2, <1>3, <2>3
    <2> HIDE DEF N, x
    <2> QED
        BY <1>9, <2>1, <2>2, <2>3 DEF Held
<1>5. U \cap DOMAIN text = {} /\ DOMAIN text' = DOMAIN text \cup U
    BY <1>2 DEF NewSchema
<1>6. Persists
    BY DEF Persists, NewSchema
<1>7. Owners' = Owners \cup N
    <2>1. OwnersForm'
        BY OwnersAre, PTL
    <2> SUFFICES ASSUME NEW o PROVE o \in Owners' <=> o \in Owners \/ o \in N
        OBVIOUS
    <2>2. (\E t \in DOMAIN box' : o = <<"name", t, 0>>)
            <=> o = <<"name", s, 0>> \/ \E t \in DOMAIN box : o = <<"name", t, 0>>
        BY DEF NewSchema
    <2>3. (\E t \in DOMAIN box' : \E j \in DOMAIN box'[t].keys : o = <<"key", t, j>>)
            <=> \/ \E j \in 1 .. n : o = <<"key", s, j>>
                \/ \E t \in DOMAIN box : \E j \in DOMAIN box[t].keys : o = <<"key", t, j>>
        <3>1. \A t \in DOMAIN box' : t = s \/ (t \in DOMAIN box /\ box'[t] = box[t])
            BY DEF NewSchema
        <3>2. s \in DOMAIN box' /\ DOMAIN box'[s].keys = 1 .. n
              /\ \A t \in DOMAIN box : t \in DOMAIN box' /\ box'[t] = box[t]
            BY DEF NewSchema
        <3> QED
            BY <3>1, <3>2
    <2>4. UNCHANGED el
        BY DEF NewSchema
    <2>5. o \in N <=> o = <<"name", s, 0>> \/ \E j \in 1 .. n : o = <<"key", s, j>>
        OBVIOUS
    <2>6. (\E e \in DOMAIN el' : \E j \in StrColumns(el[e].types)' : o = <<"data", e, j>>)
            <=> \E e \in DOMAIN el : \E j \in StrColumns(el[e].types) : o = <<"data", e, j>>
        BY <2>4 DEF StrColumns
    <2> HIDE DEF N
    <2> QED
        BY <2>1, <2>2, <2>3, <2>5, <2>6, OwnersAre DEF OwnersForm
<1>8. \A o \in N : OwnedBy'[o] = x[o]
    <2>1. \A o \in N : OwnedBy'[o] = Owned(o)'
        BY <1>7 DEF OwnedBy
    <2>2. Owned(<<"name", s, 0>>)' = box'[s].name
        BY DEF Owned
    <2>3. ASSUME NEW j \in 1 .. n PROVE Owned(<<"key", s, j>>)' = box'[s].keys[j]
        BY DEF Owned
    <2> QED
        BY <1>0, <1>3, <2>1, <2>2, <2>3 DEF NewSchema
<1> HIDE DEF x, N, U
<1> QED
    BY <1>4, <1>5, <1>6, <1>7, <1>8, <1>9, OwnedMore DEF NewSchema

-----------------------------------------------------------------------------
(* DeleteSchema.                                                           *)

\* What DeleteSchema does to boxes and strings.
LEMMA OldBox ==
  ASSUME Shapes, NEW s \in DOMAIN box, DeleteSchema(s)
  PROVE  /\ DOMAIN box' = DOMAIN box \ {s}
         /\ \A t \in DOMAIN box' :
              /\ DOMAIN box'[t] = DOMAIN box[t] /\ box'[t].name = box[t].name
              /\ box'[t].keys = box[t].keys /\ box'[t].types = box[t].types
         /\ DOMAIN text' = DOMAIN text \ StringsOf(s)
         /\ UNCHANGED <<el, lost, damaged>> /\ ~damaged
<1>1. DOMAIN box' = DOMAIN box \ {s}
    BY DEF DeleteSchema, Unlinked
<1>2. \A t \in DOMAIN box' : box'[t] = box[t] \/ \E x : box'[t] = [box[t] EXCEPT !.nxt = x]
    BY DEF DeleteSchema, Unlinked
<1>3. \A t \in DOMAIN box' :
        /\ DOMAIN box'[t] = DOMAIN box[t] /\ box'[t].name = box[t].name
        /\ box'[t].keys = box[t].keys /\ box'[t].types = box[t].types
    BY <1>1, <1>2 DEF Shapes
<1> QED
    BY <1>1, <1>3 DEF DeleteSchema, Removed, Ready

\* The owners that go are those in the schema, and they own StringsOf(s).
LEMMA DeleteSchemaOwned ==
  ASSUME Shapes, OwnedOnce, NEW s \in DOMAIN box, DeleteSchema(s)
  PROVE  OwnedOnce' /\ Shapes'
<1> DEFINE U == {OwnedBy[o] : o \in Owners \ Owners'}
<1>1. Persists
    BY OldBox DEF Persists
<1>2. \A o : o \in Owners \ Owners' <=>
               o = <<"name", s, 0>> \/ \E j \in DOMAIN box[s].keys : o = <<"key", s, j>>
    <2>1. OwnersForm'
        BY OwnersAre, PTL
    <2> SUFFICES ASSUME NEW o
                 PROVE  o \in Owners \ Owners' <=>
                          o = <<"name", s, 0>> \/ \E j \in DOMAIN box[s].keys : o = <<"key", s, j>>
        OBVIOUS
    <2>a. DOMAIN box' = DOMAIN box \ {s} /\ \A t \in DOMAIN box' : box'[t].keys = box[t].keys
        BY OldBox
    <2>2. (\E t \in DOMAIN box' : o = <<"name", t, 0>>)
            <=> o # <<"name", s, 0>> /\ \E t \in DOMAIN box : o = <<"name", t, 0>>
        BY <2>a
    <2>3. (\E t \in DOMAIN box' : \E j \in DOMAIN box'[t].keys : o = <<"key", t, j>>)
            <=> /\ ~ \E j \in DOMAIN box[s].keys : o = <<"key", s, j>>
                /\ \E t \in DOMAIN box : \E j \in DOMAIN box[t].keys : o = <<"key", t, j>>
        BY <2>a
    <2>4. UNCHANGED el
        BY OldBox
    <2>5. (\E e \in DOMAIN el' : \E j \in StrColumns(el[e].types)' : o = <<"data", e, j>>)
            <=> \E e \in DOMAIN el : \E j \in StrColumns(el[e].types) : o = <<"data", e, j>>
        BY <2>4 DEF StrColumns
    <2>6. (\E t \in DOMAIN box : o = <<"name", t, 0>>) => o[1] = "name"
        OBVIOUS
    <2>7. (\E t \in DOMAIN box : \E j \in DOMAIN box[t].keys : o = <<"key", t, j>>) => o[1] = "key"
        OBVIOUS
    <2>8. (\E e \in DOMAIN el : \E j \in StrColumns(el[e].types) : o = <<"data", e, j>>)
            => o[1] = "data"
        OBVIOUS
    <2>9. /\ o = <<"name", s, 0>> => o[1] = "name"
          /\ (\E j \in DOMAIN box[s].keys : o = <<"key", s, j>>) => o[1] = "key"
        OBVIOUS
    <2> QED
        BY <2>1, <2>2, <2>3, <2>5, <2>6, <2>7, <2>8, <2>9, OwnersAre DEF OwnersForm
<1>3. U = StringsOf(s)
    <2>1. \A o \in Owners : OwnedBy[o] = Owned(o)
        BY DEF OwnedBy
    <2>2. Owned(<<"name", s, 0>>) = box[s].name
        BY OwnedIs
    <2>3. \A j \in DOMAIN box[s].keys : Owned(<<"key", s, j>>) = box[s].keys[j]
        BY OwnedIs
    <2>4. ASSUME NEW o \in Owners \ Owners' PROVE OwnedBy[o] \in StringsOf(s)
        BY <1>2, <2>1, <2>2, <2>3 DEF StringsOf
    <2>5. <<"name", s, 0>> \in Owners \ Owners'
          /\ \A j \in DOMAIN box[s].keys : <<"key", s, j>> \in Owners \ Owners'
        BY <1>2
    <2>6. ASSUME NEW q \in StringsOf(s) PROVE \E o \in Owners \ Owners' : OwnedBy[o] = q
        BY <2>1, <2>2, <2>3, <2>5 DEF StringsOf
    <2> QED
        BY <2>4, <2>6
<1>4. Owners' \subseteq Owners
    <2>1. OwnersForm'
        BY OwnersAre, PTL
    <2>2. DOMAIN box' \subseteq DOMAIN box /\ (\A t \in DOMAIN box' : box'[t].keys = box[t].keys)
          /\ el' = el
        BY OldBox
    <2> QED
        BY <2>1, <2>2, OwnersAre DEF OwnersForm, StrColumns
<1>5. OwnedOnce'
    BY <1>1, <1>3, <1>4, OldBox, OwnedLess
<1>6. StringsOf(s) \cap lost = {}
    <2>1. Held(OwnedBy, DOMAIN text \ lost) /\ DOMAIN OwnedBy = Owners
        BY OldBox DEF OwnedOnce, OwnedBy
    <2>2. \A o \in Owners : OwnedBy[o] \notin lost
        BY <2>1 DEF Held
    <2> QED
        BY <1>3, <2>2
<1> QED
    BY <1>5, <1>6, OldBox DEF Shapes

-----------------------------------------------------------------------------
(* InsertElement.                                                          *)

\* The string columns are numbered from 1 on without a gap.
LEMMA RankBijective ==
  ASSUME NEW ts \in Seq(Types)
  PROVE  /\ Cardinality(StrColumns(ts)) \in Nat
         /\ \A j \in StrColumns(ts) : Rank(ts, j) \in 1 .. Cardinality(StrColumns(ts))
         /\ \A i, j \in StrColumns(ts) : Rank(ts, i) = Rank(ts, j) => i = j
         /\ \A k \in 1 .. Cardinality(StrColumns(ts)) : \E j \in StrColumns(ts) : Rank(ts, j) = k
<1> DEFINE S == StrColumns(ts)
           n == Cardinality(S)
           To(j) == {i \in S : i <= j}
<1>1. S \subseteq 1 .. Len(ts) /\ Len(ts) \in Nat
    BY DEF StrColumns
<1>2. IsFiniteSet(S) /\ n \in Nat
    <2>1. IsFiniteSet(1 .. Len(ts))
        BY <1>1, FS_Interval
    <2> HIDE DEF S
    <2>2. IsFiniteSet(S)
        BY <1>1, <2>1, FS_Subset
    <2> QED
        BY <2>2, FS_CardinalityType
<1>3. \A j : Rank(ts, j) = Cardinality(To(j))
    BY DEF Rank
<1>4. ASSUME NEW j \in S PROVE Rank(ts, j) \in 1 .. n
    <2>1. IsFiniteSet(To(j)) /\ Cardinality(To(j)) \in Nat /\ Cardinality(To(j)) <= n
        BY <1>2, FS_Subset, FS_CardinalityType
    <2>2. j \in To(j)
        BY <1>1
    <2>3. Cardinality(To(j)) # 0
        BY <2>1, <2>2, FS_EmptySet
    <2> QED
        BY <1>2, <1>3, <2>1, <2>3
<1>5. ASSUME NEW i \in S, NEW j \in S, i < j PROVE Rank(ts, i) # Rank(ts, j)
    <2>1. IsFiniteSet(To(j))
        BY <1>2, FS_Subset
    <2>2. To(i) \in SUBSET To(j) /\ j \in To(j) /\ j \notin To(i)
        BY <1>1, <1>5
    <2>3. Cardinality(To(i)) # Cardinality(To(j))
        BY <2>1, <2>2, FS_Subset
    <2> QED
        BY <1>3, <2>3
<1>6. \A i, j \in S : Rank(ts, i) = Rank(ts, j) => i = j
    BY <1>1, <1>5
<1> DEFINE f == [j \in S |-> Rank(ts, j)]
<1>7. f \in Injection(S, 1 .. n)
    BY <1>4, <1>6 DEF Injection, IsInjective
<1>8. f \in Surjection(S, 1 .. n)
    <2>1. IsFiniteSet(1 .. n) /\ Cardinality(1 .. n) = n
        BY <1>2, FS_Interval
    <2> HIDE DEF f, S, n
    <2> QED
        BY <1>7, <2>1, FS_Injection DEF n
<1> QED
    BY <1>2, <1>4, <1>6, <1>8 DEF Surjection

\* What saving the strings ps for an element of s does to the list of strings.
NewStrings(s, ps) ==
  /\ ps \in [1 .. Cardinality(StrColumns(box[s].types)) -> Strings \ DOMAIN text]
  /\ \A j, k \in 1 .. Cardinality(StrColumns(box[s].types)) : ps[j] = ps[k] => j = k
  /\ DOMAIN text' =
       DOMAIN text \cup {ps[j] : j \in 1 .. Cardinality(StrColumns(box[s].types))}

\* InsertElement saves fresh strings, whether the element is then refused or not.
LEMMA AskedSaves ==
  ASSUME Shapes, NEW s \in DOMAIN box, NEW p, NEW row, NEW ps, Asked(p, s, row, ps)
  PROVE  NewStrings(s, ps) /\ ~damaged
<1> DEFINE n == Cardinality(StrColumns(box[s].types))
<1>1. box[s].types \in Seq(Types)
    BY DEF Shapes
<1>2. n \in Nat
    BY <1>1, RankBijective
<1>3. ps \in Picks(n) /\ ~damaged
    BY DEF Asked, Ready
<1> HIDE DEF n
<1>4. /\ ps \in [1 .. n -> Strings \ DOMAIN text]
      /\ \A j, k \in 1 .. n : ps[j] = ps[k] => j = k
    BY <1>2, <1>3, PicksFresh
<1>5. PICK words : text' = Saved(ps, words)
    BY DEF Asked
<1>6. DOMAIN text' = DOMAIN text \cup {ps[j] : j \in DOMAIN ps} /\ DOMAIN ps = 1 .. n
    BY <1>4, <1>5, SavedDomain
<1>7. DOMAIN text' = DOMAIN text \cup {ps[j] : j \in 1 .. n}
    BY <1>6
<1> QED
    BY <1>3, <1>4, <1>7 DEF NewStrings, n

\* Strings saved for an element that is then refused are lost.
LEMMA RefuseOwned ==
  ASSUME Shapes, OwnedOnce, NEW s \in DOMAIN box, NEW p, NEW row, NEW ps, Refuse(p, s, row, ps)
  PROVE  OwnedOnce' /\ Shapes'
<1> DEFINE U == {ps[j] : j \in 1 .. Cardinality(StrColumns(box[s].types))}
<1>1. NewStrings(s, ps) /\ ~damaged
    BY AskedSaves DEF Refuse
<1>2. lost' = lost \cup U /\ U \cap DOMAIN text = {} /\ DOMAIN text' = DOMAIN text \cup U
      /\ U \subseteq Strings
    BY <1>1 DEF NewStrings, Refuse
<1>3. UNCHANGED <<box, el, damaged>>
    BY DEF Refuse
<1>4. DOMAIN text' \ lost' = DOMAIN text \ lost
    BY <1>2 DEF Shapes
<1>5. OwnedBy' = OwnedBy
    BY <1>3 DEF OwnedBy, Owners, Owned, StrColumns
<1>6. OwnedOnce'
    BY <1>3, <1>4, <1>5 DEF OwnedOnce
<1> QED
    BY <1>2, <1>3, <1>6 DEF Shapes
\* An element owns the strings of its string columns.
LEMMA InsertOwned ==
  ASSUME Shapes, OwnedOnce, NEW s \in DOMAIN box, NEW e \in Elements, NEW p,
         NEW row \in Rows(box[s].types), NEW ps, Insert(e, p, s, row, ps)
  PROVE  OwnedOnce' /\ Shapes'
<1> DEFINE ts == box[s].types
           C == StrColumns(ts)
           n == Cardinality(C)
           U == {ps[j] : j \in 1 .. n}
           N == {<<"data", e, j>> : j \in C}
           x == [o \in N |-> ps[Rank(ts, o[3])]]
<1>1. NewStrings(s, ps) /\ ~damaged
    BY AskedSaves DEF Insert
<1>2. ts \in Seq(Types) /\ DOMAIN row = DOMAIN ts
    BY DEF Shapes, Rows
<1>3. /\ e \notin DOMAIN el /\ DOMAIN el' = DOMAIN el \cup {e}
      /\ \A f \in DOMAIN el : el'[f] = el[f]
      /\ DOMAIN el'[e] = {"schema", "parent", "keys", "types", "data"}
      /\ el'[e].types = ts /\ DOMAIN el'[e].data = DOMAIN row
    BY DEF Insert, Lowest
<1>4. \A j \in C : el'[e].data[j] = ps[Rank(ts, j)]
    BY <1>2 DEF Insert, StrColumns
<1>5. /\ DOMAIN box' = DOMAIN box
      /\ \A t \in DOMAIN box :
           /\ DOMAIN box'[t] = DOMAIN box[t] /\ box'[t].name = box[t].name
           /\ box'[t].keys = box[t].keys /\ box'[t].types = box[t].types
    BY DEF Insert, Shapes
<1>6. UNCHANGED <<lost, damaged>>
    BY DEF Insert
<1>7. /\ ps \in [1 .. n -> Strings \ DOMAIN text]
      /\ \A j, k \in 1 .. n : ps[j] = ps[k] => j = k
      /\ DOMAIN text' = DOMAIN text \cup U
    BY <1>1 DEF NewStrings
<1>8. Shapes'
    <2>1. DOMAIN text' \subseteq Strings /\ lost' \subseteq DOMAIN text'
        BY <1>6, <1>7 DEF Shapes
    <2>2. \A f \in DOMAIN el' :
            /\ DOMAIN el'[f] = {"schema", "parent", "keys", "types", "data"}
            /\ DOMAIN el'[f].data = DOMAIN el'[f].types
        BY <1>2, <1>3 DEF Shapes
    <2> QED
        BY <1>5, <2>1, <2>2 DEF Shapes
<1>9. /\ \A j \in C : Rank(ts, j) \in 1 .. n
      /\ \A i, j \in C : Rank(ts, i) = Rank(ts, j) => i = j
      /\ \A k \in 1 .. n : \E j \in C : Rank(ts, j) = k
    BY <1>2, RankBijective
<1> HIDE DEF n, C
<1>10. DOMAIN x = N /\ \A j \in C : <<"data", e, j>> \in N /\ x[<<"data", e, j>>] = ps[Rank(ts, j)]
    OBVIOUS
<1>11. \A o \in N : \E j \in C : o = <<"data", e, j>>
    OBVIOUS
<1> HIDE DEF N, x, ts
<1>12. Held(x, U)
    <2>1. ASSUME NEW o \in N PROVE x[o] \in U
        BY <1>9, <1>10, <1>11
    <2>2. ASSUME NEW k \in 1 .. n PROVE \E o \in N : x[o] = ps[k]
        BY <1>9, <1>10
    <2>3. ASSUME NEW o1 \in N, NEW o2 \in N, x[o1] = x[o2] PROVE o1 = o2
        <3>1. PICK i \in C : o1 = <<"data", e, i>>
            BY <1>11
        <3>2. PICK j \in C : o2 = <<"data", e, j>>
            BY <1>11
        <3>3. ps[Rank(ts, i)] = ps[Rank(ts, j)]
            BY <1>10, <2>3, <3>1, <3>2
        <3> QED
            BY <1>7, <1>9, <3>1, <3>2, <3>3
    <2> QED
        BY <1>10, <2>1, <2>2, <2>3 DEF Held
<1>13. U \cap DOMAIN text = {}
    BY <1>7
<1>14. Persists
    BY <1>3, <1>5 DEF Persists
<1>15. Owners' = Owners \cup N
    <2>1. OwnersForm'
        BY OwnersAre, PTL
    <2> SUFFICES ASSUME NEW o PROVE o \in Owners' <=> o \in Owners \/ o \in N
        OBVIOUS
    <2>2. /\ (\E t \in DOMAIN box' : o = <<"name", t, 0>>) <=> \E t \in DOMAIN box : o = <<"name", t, 0>>
          /\ (\E t \in DOMAIN box' : \E j \in DOMAIN box'[t].keys : o = <<"key", t, j>>)
               <=> \E t \in DOMAIN box : \E j \in DOMAIN box[t].keys : o = <<"key", t, j>>
        BY <1>5
    <2>3. o \in N <=> \E j \in C : o = <<"data", e, j>>
        BY <1>10, <1>11
    <2>4. \A f : StrColumns(el[f].types)' = StrColumns(el'[f].types)
        BY DEF StrColumns
    <2>5. StrColumns(el'[e].types) = C
        BY <1>3 DEF C
    <2>6. (\E f \in DOMAIN el' : \E j \in StrColumns(el'[f].types) : o = <<"data", f, j>>)
            <=> \/ o \in N
                \/ \E f \in DOMAIN el : \E j \in StrColumns(el[f].types) : o = <<"data", f, j>>
        BY <1>3, <2>3, <2>5
    <2> QED
        BY <2>1, <2>2, <2>4, <2>6, OwnersAre DEF OwnersForm
<1>16. \A o \in N : OwnedBy'[o] = x[o]
    <2>1. \A o \in N : OwnedBy'[o] = Owned(o)'
        BY <1>15 DEF OwnedBy
    <2>2. ASSUME NEW j \in C PROVE Owned(<<"data", e, j>>)' = el'[e].data[j]
        BY DEF Owned
    <2> QED
        BY <1>4, <1>10, <1>11, <2>1, <2>2
<1> HIDE DEF U
<1>17. OwnedOnce'
    BY <1>1, <1>6, <1>7, <1>10, <1>12, <1>13, <1>14, <1>15, <1>16, OwnedMore
<1> QED
    BY <1>8, <1>17

-----------------------------------------------------------------------------
(* Removal of an element.                                                  *)

\* The strings in an element are no strings that were lost and no schema's.
LEMMA DataAlone ==
  ASSUME OwnedOnce, ~damaged, NEW e \in DOMAIN el
  PROVE  /\ DataStrings(e) \cap lost = {}
         /\ \A t \in DOMAIN box : StringsOf(t) \cap DataStrings(e) = {}
<1>1. /\ {OwnedBy[o] : o \in DOMAIN OwnedBy} = DOMAIN text \ lost /\ DOMAIN OwnedBy = Owners
      /\ \A o1, o2 \in DOMAIN OwnedBy : OwnedBy[o1] = OwnedBy[o2] => o1 = o2
    BY DEF OwnedOnce, Held, OwnedBy
<1>2. /\ \A o \in Owners : Owned(o) \notin lost
      /\ \A o1, o2 \in Owners : Owned(o1) = Owned(o2) => o1 = o2
    BY <1>1 DEF OwnedBy
<1>3. ASSUME NEW q \in DataStrings(e)
      PROVE  \E j : <<"data", e, j>> \in Owners /\ Owned(<<"data", e, j>>) = q
    <2>1. PICK j \in StrColumns(el[e].types) : q = el[e].data[j]
        BY DEF DataStrings
    <2>2. <<"data", e, j>> \in Owners
        BY OwnersAre DEF OwnersForm
    <2>3. Owned(<<"data", e, j>>) = q
        BY <2>1, OwnedIs
    <2> QED
        BY <2>2, <2>3
<1>4. ASSUME NEW t \in DOMAIN box, NEW q \in StringsOf(t)
      PROVE  \E o \in Owners : Owned(o) = q /\ o[1] # "data"
    <2>1. CASE q = box[t].name
        <3>1. <<"name", t, 0>> \in Owners /\ Owned(<<"name", t, 0>>) = q
            BY <2>1, OwnersAre, OwnedIs DEF OwnersForm
        <3> QED
            BY <3>1
    <2>2. ASSUME NEW j \in DOMAIN box[t].keys, q = box[t].keys[j]
          PROVE  \E o \in Owners : Owned(o) = q /\ o[1] # "data"
        <3>1. <<"key", t, j>> \in Owners /\ Owned(<<"key", t, j>>) = q
            BY <2>2, OwnersAre, OwnedIs DEF OwnersForm
        <3> QED
            BY <3>1
    <2> QED
        BY <2>1, <2>2 DEF StringsOf
<1>5. \A q \in DataStrings(e) : \A t \in DOMAIN box : q \notin StringsOf(t)
    <2> SUFFICES ASSUME NEW q \in DataStrings(e), NEW t \in DOMAIN box, q \in StringsOf(t)
                 PROVE  FALSE
        OBVIOUS
    <2>1. PICK j : <<"data", e, j>> \in Owners /\ Owned(<<"data", e, j>>) = q
        BY <1>3
    <2>2. PICK o \in Owners : Owned(o) = q /\ o[1] # "data"
        BY <1>4
    <2>3. o = <<"data", e, j>>
        BY <1>2, <2>1, <2>2
    <2> QED
        BY <2>2, <2>3
<1>6. ASSUME NEW q \in DataStrings(e) PROVE q \notin lost
    BY <1>2, <1>3
<1> QED
    BY <1>5, <1>6

\* The owners that go are those in the element, and they own DataStrings(e).
LEMMA DeleteOwned ==
  ASSUME Shapes, OwnedOnce, NEW e \in DOMAIN el, Delete(e)
  PROVE  OwnedOnce' /\ Shapes'
<1> DEFINE U == {OwnedBy[o] : o \in Owners \ Owners'}
<1>1. /\ DOMAIN el' = DOMAIN el \ {e} /\ \A f \in DOMAIN el' : el'[f] = el[f]
      /\ UNCHANGED <<lost, damaged>> /\ ~damaged
      /\ DOMAIN text' = DOMAIN text \ DataStrings(e)
    BY DEF Delete, Without, Removed, Ready
<1>2. /\ DOMAIN box' = DOMAIN box
      /\ \A t \in DOMAIN box :
           /\ DOMAIN box'[t] = DOMAIN box[t] /\ box'[t].name = box[t].name
           /\ box'[t].keys = box[t].keys /\ box'[t].types = box[t].types
    BY DEF Delete, Without, Shapes
<1>3. Persists
    BY <1>1, <1>2 DEF Persists
<1>4. OwnersForm'
    BY OwnersAre, PTL
<1>5. \A f : StrColumns(el[f].types)' = StrColumns(el'[f].types)
    BY DEF StrColumns
<1>6. \A o : o \in Owners \ Owners' <=> \E j \in StrColumns(el[e].types) : o = <<"data", e, j>>
    <2> SUFFICES ASSUME NEW o
                 PROVE  o \in Owners \ Owners' <=>
                          \E j \in StrColumns(el[e].types) : o = <<"data", e, j>>
        OBVIOUS
    <2>1. /\ (\E t \in DOMAIN box' : o = <<"name", t, 0>>) <=> \E t \in DOMAIN box : o = <<"name", t, 0>>
          /\ (\E t \in DOMAIN box' : \E j \in DOMAIN box'[t].keys : o = <<"key", t, j>>)
               <=> \E t \in DOMAIN box : \E j \in DOMAIN box[t].keys : o = <<"key", t, j>>
        BY <1>2
    <2>2. (\E f \in DOMAIN el' : \E j \in StrColumns(el'[f].types) : o = <<"data", f, j>>)
            <=> /\ ~ \E j \in StrColumns(el[e].types) : o = <<"data", e, j>>
                /\ \E f \in DOMAIN el : \E j \in StrColumns(el[f].types) : o = <<"data", f, j>>
        BY <1>1
    <2>3. (\E j \in StrColumns(el[e].types) : o = <<"data", e, j>>) => o[1] = "data"
        OBVIOUS
    <2>4. (\E t \in DOMAIN box : o = <<"name", t, 0>>) => o[1] = "name"
        OBVIOUS
    <2>5. (\E t \in DOMAIN box : \E j \in DOMAIN box[t].keys : o = <<"key", t, j>>) => o[1] = "key"
        OBVIOUS
    <2> QED
        BY <1>4, <1>5, <2>1, <2>2, <2>3, <2>4, <2>5, OwnersAre DEF OwnersForm
<1>7. U = DataStrings(e)
    <2>1. \A o \in Owners : OwnedBy[o] = Owned(o)
        BY DEF OwnedBy
    <2>2. \A j \in StrColumns(el[e].types) : Owned(<<"data", e, j>>) = el[e].data[j]
        BY OwnedIs
    <2>3. ASSUME NEW o \in Owners \ Owners' PROVE OwnedBy[o] \in DataStrings(e)
        BY <1>6, <2>1, <2>2 DEF DataStrings
    <2>4. ASSUME NEW q \in DataStrings(e) PROVE \E o \in Owners \ Owners' : OwnedBy[o] = q
        <3>1. PICK j \in StrColumns(el[e].types) : q = el[e].data[j]
            BY DEF DataStrings
        <3>2. <<"data", e, j>> \in Owners \ Owners'
            BY <1>6, <3>1
        <3>3. OwnedBy[<<"data", e, j>>] = q
            BY <2>1, <2>2, <3>1, <3>2
        <3> QED
            BY <3>2, <3>3
    <2> QED
        BY <2>3, <2>4
<1>8. Owners' \subseteq Owners
    <2>1. \A f \in DOMAIN el' : f \in DOMAIN el /\ el'[f].types = el[f].types
        BY <1>1
    <2> QED
        BY <1>2, <1>4, <1>5, <2>1, OwnersAre DEF OwnersForm
<1>9. OwnedOnce'
    BY <1>1, <1>3, <1>7, <1>8, OwnedLess
<1>10. DataStrings(e) \cap lost = {}
    BY <1>1, DataAlone
<1> QED
    BY <1>1, <1>2, <1>9, <1>10 DEF Shapes

\* A removal along a stale link frees the strings and keeps the shapes.
LEMMA DeleteStaleShapes ==
  ASSUME Shapes, Readable, OwnedOnce, NEW e \in DOMAIN el, DeleteStale(e)
  PROVE  Shapes' /\ Readable' /\ OwnedOnce' /\ ~damaged /\ damaged' = TRUE
<1>1. ~damaged /\ damaged' = TRUE /\ UNCHANGED lost /\ DOMAIN text' = DOMAIN text \ DataStrings(e)
    BY DEF DeleteStale, Removed, Ready
<1>2. lost' \subseteq DOMAIN text' /\ DOMAIN text' \subseteq Strings
    BY <1>1, DataAlone DEF Shapes
<1>3. CASE Without(e)
    <2>1. Readable'
        BY <1>3, DeleteReadable
    <2>2. DOMAIN el' \subseteq DOMAIN el /\ \A f \in DOMAIN el' : el'[f] = el[f]
        BY <1>3 DEF Without
    <2>3. /\ DOMAIN box' = DOMAIN box
          /\ \A t \in DOMAIN box :
               /\ DOMAIN box'[t] = DOMAIN box[t]
               /\ box'[t].keys = box[t].keys /\ box'[t].types = box[t].types
        BY <1>3 DEF Without, Shapes
    <2> QED
        BY <1>1, <1>2, <2>1, <2>2, <2>3 DEF Shapes, OwnedOnce
<1>4. CASE UNCHANGED <<el, box>>
    BY <1>1, <1>2, <1>4 DEF Shapes, Readable, Of, OwnedOnce
<1> QED
    BY <1>3, <1>4 DEF DeleteStale

-----------------------------------------------------------------------------
(* UpdateElements.                                                         *)

\* An update that damages nothing leaves every owner its string.
LEMMA UpdateOwned ==
  ASSUME Shapes, OwnedOnce, NEW u \in Updates, NEW s \in DOMAIN box, NEW seen,
         Update(u, s, seen)
  PROVE  OwnedOnce' /\ Shapes'
<1>1. /\ UNCHANGED <<box, lost>> /\ DOMAIN text' = DOMAIN text /\ DOMAIN el' = DOMAIN el
      /\ \A e \in DOMAIN el :
           /\ el'[e].schema = el[e].schema /\ el'[e].keys = el[e].keys
           /\ el'[e].types = el[e].types
           /\ DOMAIN el'[e] = DOMAIN el[e] /\ DOMAIN el'[e].data = DOMAIN el[e].data
    BY UpdateKeeps
<1>2. Shapes'
    BY <1>1 DEF Shapes
<1>3. ASSUME ~damaged' PROVE OwnedOnce'
    <2>1. PICK c, es : Written(es, u, c, box[s].types[c]) /\ ~damaged
        BY DEF Update, Ready
    <2>2. \A e \in es : c \in DOMAIN el[e].types => el[e].types[c] = box[s].types[c]
        BY <1>3, <2>1 DEF Written
    <2>3. ASSUME NEW e \in DOMAIN el, NEW j \in StrColumns(el[e].types)
          PROVE  el'[e].data[j] = el[e].data[j]
        <3>1. CASE e \in es /\ box[s].types[c] = "int" /\ c \in DOMAIN el[e].data
            <4>1. el[e].types[j] = "str" /\ el[e].types[c] = "int" /\ c # j
                BY <2>2, <3>1 DEF StrColumns, Shapes
            <4>2. el'[e] = [el[e] EXCEPT !.data[c] = u.to]
                BY <2>1, <3>1 DEF Written
            <4>3. el'[e].data = [el[e].data EXCEPT ![c] = u.to]
                BY <4>2 DEF Shapes
            <4> QED
                BY <4>1, <4>3 DEF StrColumns, Shapes
        <3>2. CASE ~(e \in es /\ box[s].types[c] = "int" /\ c \in DOMAIN el[e].data)
            BY <2>1, <3>2 DEF Written
        <3> QED
            BY <3>1, <3>2
    <2>4. Persists
        BY <1>1, <2>3 DEF Persists
    <2>5. Owners' = Owners
        <3>1. OwnersForm'
            BY OwnersAre, PTL
        <3>2. \A f : StrColumns(el[f].types)' = StrColumns(el'[f].types)
            BY DEF StrColumns
        <3>3. \A o : o \in Owners' <=> o \in Owners
            BY <1>1, <3>1, <3>2, OwnersAre DEF OwnersForm
        <3> QED
            BY <3>3
    <2>6. DOMAIN OwnedBy = Owners /\ DOMAIN OwnedBy' = Owners'
        BY DEF OwnedBy
    <2>7. \A o \in Owners : OwnedBy'[o] = OwnedBy[o]
        BY <2>4, <2>5, OwnedPersists
    <2>8. Held(OwnedBy', DOMAIN text' \ lost')
        BY <1>1, <2>1, <2>5, <2>6, <2>7 DEF Held, OwnedOnce
    <2> QED
        BY <2>8 DEF OwnedOnce
<1> QED
    BY <1>2, <1>3 DEF OwnedOnce

-----------------------------------------------------------------------------
(* The theorems.                                                           *)

\* The inductive invariant.
IInv == Shapes /\ Readable /\ OwnedOnce

\* An empty database has it.
LEMMA InitIInv == Init => IInv
<1> SUFFICES ASSUME Init PROVE IInv
    OBVIOUS
<1>1. DOMAIN box = {} /\ DOMAIN el = {} /\ DOMAIN text = {} /\ lost = {}
    BY DEF Init
<1>2. Owners = {}
    BY <1>1, OwnersAre DEF OwnersForm
<1> QED
    BY <1>1, <1>2 DEF IInv, Shapes, Readable, OwnedOnce, Held, OwnedBy

\* Every call keeps it.
LEMMA StepIInv == IInv /\ [Next]_vars => IInv'
<1> SUFFICES ASSUME IInv, [Next]_vars PROVE IInv'
    OBVIOUS
<1> USE DEF IInv
<1>1. ASSUME NEW d \in Definitions, NEW s \in Boxes, NEW ps \in Picks(1 + Len(d.fields)),
             CreateSchema(d, s, ps)
      PROVE  IInv'
    <2>1. Len(d.fields) \in Nat /\ NewSchema(s, Len(d.fields), ps)
        BY <1>1, NewBox
    <2>2. Readable'
        BY <1>1, CreateReadable
    <2> QED
        BY <2>1, <2>2, CreateShapes, CreateOwned
<1>2. ASSUME NEW s \in DOMAIN box, DeleteSchema(s) PROVE IInv'
    BY <1>2, DeleteSchemaReadable, DeleteSchemaOwned
<1>3. ASSUME NEW s \in DOMAIN box, NEW p, NEW row \in Rows(box[s].types), NEW ps,
             NEW e \in Elements, Insert(e, p, s, row, ps)
      PROVE  IInv'
    BY <1>3, InsertReadable, InsertOwned
<1>4. ASSUME NEW s \in DOMAIN box, NEW p, NEW row, NEW ps, Refuse(p, s, row, ps) PROVE IInv'
    <2>1. Readable'
        BY <1>4 DEF Refuse, Readable, Of
    <2> QED
        BY <1>4, <2>1, RefuseOwned
<1>5. ASSUME NEW s \in DOMAIN box, NEW u \in Updates, NEW seen, Update(u, s, seen) PROVE IInv'
    <2>1. /\ UNCHANGED box /\ DOMAIN el' = DOMAIN el
          /\ \A e \in DOMAIN el :
               /\ el'[e].schema = el[e].schema /\ el'[e].keys = el[e].keys
               /\ el'[e].types = el[e].types
        BY <1>5, UpdateKeeps
    <2>2. \A s2 : Of(s2)' = Of(s2)
        BY <2>1 DEF Of
    <2>3. Readable'
        BY <2>1, <2>2 DEF Readable
    <2> QED
        BY <1>5, <2>3, UpdateOwned
<1>6. ASSUME NEW e \in DOMAIN el, Delete(e) PROVE IInv'
    BY <1>6, DeleteReadable, DeleteOwned DEF Delete
<1>8. ASSUME NEW e \in DOMAIN el, DeleteStale(e) PROVE IInv'
    BY <1>8, DeleteStaleShapes
<1>7. CASE UNCHANGED vars
    <2>1. UNCHANGED <<box, text, el, lost, damaged>>
        BY <1>7 DEF vars
    <2>2. Shapes' /\ Readable'
        BY <2>1 DEF Shapes, Readable, Of
    <2>3. OwnedBy' = OwnedBy
        BY <2>1 DEF OwnedBy, Owners, Owned, StrColumns
    <2> QED
        BY <2>1, <2>2, <2>3 DEF OwnedOnce
<1> QED
    BY <1>1, <1>2, <1>3, <1>4, <1>5, <1>6, <1>7, <1>8 DEF Next

\* The invariant in the form in which the others follow from it.
LEMMA Invariant == Spec => []IInv
  BY InitIInv, StepIInv, PTL DEF Spec

\* DeleteSchema, InsertElement, the removal of elements and UpdateElements never
\* leave an element whose schema, names or types cannot be read, nor a schema
\* whose counter of elements is wrong.
THEOREM SchemasKept == Spec => []ElementsReadable
<1>1. IInv => ElementsReadable
    BY DEF IInv, Readable, Of, ElementsReadable
<1> QED
    BY <1>1, Invariant, PTL

\* SaveString and RemoveString are called so that no string is ever freed under
\* its owner or freed twice, and only refused insertions leave strings behind.
THEOREM StringsOwned == Spec => []OneOwner
<1>1. IInv => OneOwner
    <2> SUFFICES ASSUME IInv, ~damaged
                 PROVE  /\ {Owned(o) : o \in Owners} = DOMAIN text \ lost
                        /\ \A o1, o2 \in Owners : Owned(o1) = Owned(o2) => o1 = o2
        BY DEF OneOwner
    <2>1. Held(OwnedBy, DOMAIN text \ lost)
        BY DEF IInv, OwnedOnce
    <2>2. DOMAIN OwnedBy = Owners /\ \A o \in Owners : OwnedBy[o] = Owned(o)
        BY DEF OwnedBy
    <2> QED
        BY <2>1, <2>2 DEF Held
<1> QED
    BY <1>1, Invariant, PTL
-----------------------------------------------------------------------------
(* The list of schemas.                                                    *)

\* s are the schemas in the order of the list: from first along nxt to a schema
\* whose nxt is 0, each once.
Lists(s) ==
  /\ count \in Nat /\ s \in [1 .. count -> DOMAIN box]
  /\ \A j, k \in 1 .. count : s[j] = s[k] => j = k
  /\ \A t \in DOMAIN box : \E k \in 1 .. count : s[k] = t
  /\ count = 0 => first = 0
  /\ count # 0 => s[1] = first /\ box[s[count]].nxt = 0
  /\ \A k \in 1 .. count - 1 : box[s[k]].nxt = s[k + 1]

Linked == \E s : Lists(s)

\* SchemasListIterator, trusting count, reads the schemas in this order.
LEMMA WalkIs ==
  ASSUME NEW s, Lists(s)
  PROVE  Walk = s
<1> DEFINE at[k \in 1 .. count] == IF k = 1 THEN first ELSE box[at[k - 1]].nxt
<1>1. count \in Nat /\ DOMAIN s = 1 .. count /\ s = [k \in 1 .. count |-> s[k]]
  BY DEF Lists
<1>2. ASSUME NEW k \in 1 .. count PROVE s[k] = IF k = 1 THEN first ELSE box[s[k - 1]].nxt
  <2>1. CASE k = 1
    BY <1>1, <2>1 DEF Lists
  <2>2. CASE k # 1
    <3>1. k - 1 \in 1 .. count - 1 /\ (k - 1) + 1 = k
      BY <1>1, <2>2
    <3> QED
      BY <2>2, <3>1 DEF Lists
  <2> QED
    BY <2>1, <2>2
<1>3. \E f : f = [k \in 1 .. count |-> IF k = 1 THEN first ELSE box[f[k - 1]].nxt]
  <2>1. s = [k \in 1 .. count |-> IF k = 1 THEN first ELSE box[s[k - 1]].nxt]
    BY <1>1, <1>2
  <2> QED
    BY <2>1
<1>4. at = [k \in 1 .. count |-> IF k = 1 THEN first ELSE box[at[k - 1]].nxt]
  BY <1>3, Zenon
<1>5. Walk = at
  BY DEF Walk
<1> HIDE DEF at
<1>6. CASE count = 0
  BY <1>1, <1>4, <1>5, <1>6
<1>7. CASE count # 0
  <2> DEFINE N == count - 1
             T == {k \in 0 .. N : at[k + 1] = s[k + 1]}
  <2>1. N \in Nat /\ count = N + 1
    BY <1>1, <1>7
  <2>2. \A k \in 0 .. N : k + 1 \in 1 .. count
    BY <1>1
  <2>3. 0 \in 0 .. N /\ 0 + 1 = 1
    BY <2>1
  <2>4. 0 \in T
    BY <1>2, <1>4, <2>2, <2>3
  <2>5. ASSUME NEW k \in 0 .. N - 1, k \in T PROVE k + 1 \in T
    <3>1. PICK i : i = k + 1
      OBVIOUS
    <3>2. i \in 0 .. N /\ i + 1 \in 1 .. count /\ (i + 1) - 1 = i /\ i + 1 # 1
      BY <2>1, <3>1
    <3>3. at[i] = s[i]
      BY <2>5, <3>1
    <3>4. at[i + 1] = box[at[i]].nxt
      BY <1>4, <3>2
    <3>5. s[i + 1] = box[s[i]].nxt
      BY <1>2, <3>2
    <3>6. i \in T
      BY <3>2, <3>3, <3>4, <3>5
    <3> QED
      BY <3>1, <3>6
  <2> HIDE DEF T, N
  <2>6. \A k \in 0 .. N : k \in T
    BY <2>1, <2>4, <2>5, UpTo
  <2>7. \A k \in 1 .. count : k - 1 \in 0 .. N /\ (k - 1) + 1 = k
    BY <2>1
  <2>8. \A k \in 1 .. count : at[k] = s[k]
    BY <2>6, <2>7 DEF T
  <2> QED
    BY <1>1, <1>4, <1>5, <2>8
<1> QED
  BY <1>6, <1>7

\* A schema put before the first one.
LEMMA ListPut ==
  ASSUME NEW s, Lists(s), NEW t, t \notin DOMAIN box, DOMAIN box' = DOMAIN box \cup {t},
         \A u \in DOMAIN box : box'[u].nxt = box[u].nxt,
         box'[t].nxt = first, first' = t, count' = count + 1
  PROVE  \E r : Lists(r)' /\ r[1] = t /\ \A k \in 1 .. count : r[k + 1] = s[k]
<1>1. /\ count \in Nat /\ s \in [1 .. count -> DOMAIN box]
      /\ \A k \in 1 .. count + 1 : k # 1 => k - 1 \in 1 .. count
  BY DEF Lists
<1>2. PICK r : r = [k \in 1 .. count + 1 |-> IF k = 1 THEN t ELSE s[k - 1]]
  OBVIOUS
<1>3. /\ r \in [1 .. count' -> DOMAIN box'] /\ 1 \in 1 .. count + 1 /\ r[1] = t
      /\ \A k \in 1 .. count + 1 : k # 1 => r[k] = s[k - 1]
  BY <1>1, <1>2
<1>4. \A k \in 1 .. count : k + 1 \in 1 .. count + 1 /\ k + 1 # 1 /\ (k + 1) - 1 = k
  BY <1>1
<1>5. \A k \in 1 .. count : r[k + 1] = s[k]
  BY <1>3, <1>4
<1>6. ASSUME NEW j \in 1 .. count', NEW k \in 1 .. count', r[j] = r[k] PROVE j = k
  <2>1. CASE j = 1 \/ k = 1
    BY <1>1, <1>3, <1>6, <2>1
  <2>2. CASE j # 1 /\ k # 1
    <3>1. s[j - 1] = s[k - 1] /\ j - 1 \in 1 .. count /\ k - 1 \in 1 .. count
      BY <1>1, <1>3, <1>6, <2>2
    <3>2. j - 1 = k - 1
      BY <3>1 DEF Lists
    <3> QED
      BY <1>1, <3>2
  <2> QED
    BY <2>1, <2>2
<1>7. \A u \in DOMAIN box' : \E k \in 1 .. count' : r[k] = u
  BY <1>3, <1>4, <1>5 DEF Lists
<1>8. r[1] = first' /\ box'[r[count']].nxt = 0
  <2>1. CASE count = 0
    BY <1>3, <2>1 DEF Lists
  <2>2. CASE count # 0
    <3>1. count \in 1 .. count /\ r[count'] = s[count] /\ s[count] \in DOMAIN box
      BY <1>1, <1>5, <2>2
    <3> QED
      BY <1>3, <2>2, <3>1 DEF Lists
  <2> QED
    BY <2>1, <2>2
<1>9. ASSUME NEW k \in 1 .. count' - 1 PROVE box'[r[k]].nxt = r[k + 1]
  <2>1. k \in 1 .. count /\ r[k + 1] = s[k]
    BY <1>1, <1>5
  <2>2. CASE k = 1
    BY <1>3, <2>1, <2>2 DEF Lists
  <2>3. CASE k # 1
    <3>1. k - 1 \in 1 .. count - 1 /\ k - 1 \in 1 .. count /\ (k - 1) + 1 = k /\ k \in 1 .. count + 1
      BY <1>1, <2>1, <2>3
    <3>2. r[k] = s[k - 1] /\ s[k - 1] \in DOMAIN box /\ box[s[k - 1]].nxt = s[k]
      BY <1>1, <1>3, <2>3, <3>1 DEF Lists
    <3> QED
      BY <2>1, <3>2
  <2> QED
    BY <2>2, <2>3
<1>10. count' \in Nat /\ count' # 0
  BY <1>1
<1>11. Lists(r)'
  BY <1>3, <1>6, <1>7, <1>8, <1>9, <1>10 DEF Lists
<1> QED
  BY <1>3, <1>5, <1>11

\* The schema at place m taken out.
LEMMA ListTake ==
  ASSUME NEW s, Lists(s), NEW m \in 1 .. count, DOMAIN box' = DOMAIN box \ {s[m]},
         \A k \in 1 .. count : k # m =>
           box'[s[k]].nxt = IF k = m - 1 THEN box[s[m]].nxt ELSE box[s[k]].nxt,
         first' = IF m = 1 THEN box[s[m]].nxt ELSE first, count' = count - 1
  PROVE  \E r : Lists(r)' /\ \A k \in 1 .. count - 1 : r[k] = IF k < m THEN s[k] ELSE s[k + 1]
<1>1. /\ count \in Nat /\ count # 0 /\ m \in Nat /\ s \in [1 .. count -> DOMAIN box]
      /\ count - 1 \in Nat /\ m >= 1 /\ m <= count
  BY DEF Lists
<1>2. PICK r : r = [k \in 1 .. count - 1 |-> IF k < m THEN s[k] ELSE s[k + 1]]
  OBVIOUS
<1>3. ASSUME NEW k \in 1 .. count - 1
      PROVE  /\ k \in 1 .. count /\ k + 1 \in 1 .. count /\ (k < m => k # m) /\ (~(k < m) => k + 1 # m)
             /\ r[k] = IF k < m THEN s[k] ELSE s[k + 1]
  BY <1>1, <1>2
<1>4. \A k \in 1 .. count : k # m => s[k] \in DOMAIN box'
  BY <1>1 DEF Lists
<1>5. r \in [1 .. count' -> DOMAIN box']
  BY <1>2, <1>3, <1>4
<1>6. ASSUME NEW j \in 1 .. count', NEW k \in 1 .. count', r[j] = r[k] PROVE j = k
  <2>1. /\ (IF j < m THEN j ELSE j + 1) \in 1 .. count
        /\ (IF k < m THEN k ELSE k + 1) \in 1 .. count
        /\ s[IF j < m THEN j ELSE j + 1] = s[IF k < m THEN k ELSE k + 1]
    BY <1>3, <1>6
  <2>2. (IF j < m THEN j ELSE j + 1) = (IF k < m THEN k ELSE k + 1)
    BY <2>1 DEF Lists
  <2> QED
    BY <1>1, <2>2
<1>7. ASSUME NEW u \in DOMAIN box' PROVE \E k \in 1 .. count' : r[k] = u
  <2>1. PICK k \in 1 .. count : s[k] = u
    BY DEF Lists
  <2>2. k # m
    BY <2>1
  <2>3. CASE k < m
    <3>1. k \in 1 .. count - 1
      BY <1>1, <2>3
    <3> QED
      BY <1>3, <2>1, <2>3, <3>1
  <2>4. CASE ~(k < m)
    <3>1. k - 1 \in 1 .. count - 1 /\ ~(k - 1 < m) /\ (k - 1) + 1 = k
      BY <1>1, <2>2, <2>4
    <3> QED
      BY <1>3, <2>1, <3>1
  <2> QED
    BY <2>3, <2>4
<1>8. count' = 0 => first' = 0
  <2> SUFFICES ASSUME count' = 0 PROVE first' = 0
    OBVIOUS
  <2>1. count = 1 /\ m = 1
    BY <1>1
  <2> QED
    BY <2>1 DEF Lists
<1>9. ASSUME count' # 0 PROVE r[1] = first' /\ box'[r[count']].nxt = 0
  <2>1. 1 \in 1 .. count - 1 /\ count - 1 \in 1 .. count - 1 /\ count \in 1 .. count /\ (count - 1) + 1 = count
    BY <1>1, <1>9
  <2>2. r[1] = first'
    <3>1. CASE m = 1
      BY <1>3, <2>1, <3>1 DEF Lists
    <3>2. CASE m # 1
      BY <1>1, <1>3, <2>1, <3>2 DEF Lists
    <3> QED
      BY <3>1, <3>2
  <2>3. CASE m = count
    <3>1. r[count'] = s[count - 1] /\ count - 1 # m /\ count - 1 = m - 1 /\ count - 1 \in 1 .. count
      BY <1>1, <1>3, <2>1, <2>3
    <3> QED
      BY <1>1, <2>2, <2>3, <3>1 DEF Lists
  <2>4. CASE m # count
    <3>1. r[count'] = s[count] /\ count # m - 1
      BY <1>1, <1>3, <2>1, <2>4
    <3> QED
      BY <1>1, <2>1, <2>2, <2>4, <3>1 DEF Lists
  <2> QED
    BY <2>3, <2>4
<1>10. ASSUME NEW k \in 1 .. count' - 1 PROVE box'[r[k]].nxt = r[k + 1]
  <2>1. k \in 1 .. count - 1 /\ k + 1 \in 1 .. count - 1 /\ k \in 1 .. count /\ k + 1 \in 1 .. count
    BY <1>1
  <2>2. CASE k + 1 < m
    <3>1. r[k] = s[k] /\ r[k + 1] = s[k + 1] /\ k # m /\ k # m - 1
      BY <1>1, <1>3, <2>1, <2>2
    <3> QED
      BY <2>1, <3>1 DEF Lists
  <2>3. CASE k + 1 = m
    <3>1. r[k] = s[k] /\ r[k + 1] = s[m + 1] /\ k # m /\ k = m - 1 /\ m \in 1 .. count - 1
      BY <1>1, <1>3, <2>1, <2>3
    <3> QED
      BY <2>1, <3>1 DEF Lists
  <2>4. CASE k + 1 > m
    <3>1. r[k] = s[k + 1] /\ r[k + 1] = s[(k + 1) + 1] /\ k + 1 # m /\ k + 1 # m - 1
      BY <1>1, <1>3, <2>1, <2>4
    <3> QED
      BY <2>1, <3>1 DEF Lists
  <2> QED
    BY <1>1, <2>1, <2>2, <2>3, <2>4
<1>11. Lists(r)'
  BY <1>1, <1>5, <1>6, <1>7, <1>8, <1>9, <1>10 DEF Lists
<1> QED
  BY <1>3, <1>11
-----------------------------------------------------------------------------
(* What can be read of the schemas.                                        *)

\* A step that leaves a schema and its strings alone leaves alone what is read.
LEMMA Unread ==
  ASSUME NEW t \in DOMAIN box, t \in DOMAIN box',
         box'[t].name = box[t].name, box'[t].keys = box[t].keys, box'[t].types = box[t].types,
         \A p \in StringsOf(t) : text'[p] = text[p]
  PROVE  ReadSchema(t)' = ReadSchema(t) /\ Name(t)' = Name(t)
<1>1. text'[box[t].name] = text[box[t].name]
  BY DEF StringsOf
<1>2. \A j \in DOMAIN box[t].keys : text'[box[t].keys[j]] = text[box[t].keys[j]]
  BY DEF StringsOf
<1>3. Name(t)' = Name(t)
  BY <1>1 DEF Name
<1>4. [j \in DOMAIN box'[t].keys |-> [key |-> text'[box'[t].keys[j]], type |-> box'[t].types[j]]]
        = [j \in DOMAIN box[t].keys |-> [key |-> text[box[t].keys[j]], type |-> box[t].types[j]]]
  BY <1>2
<1> QED
  BY <1>3, <1>4 DEF ReadSchema

\* The strings of a schema are there.
LEMMA SchemaStrings ==
  ASSUME OwnedOnce, ~damaged, NEW t \in DOMAIN box
  PROVE  StringsOf(t) \subseteq DOMAIN text
<1>1. {OwnedBy[o] : o \in DOMAIN OwnedBy} = DOMAIN text \ lost /\ DOMAIN OwnedBy = Owners
  BY DEF OwnedOnce, Held, OwnedBy
<1>2. \A o \in Owners : Owned(o) \in DOMAIN text
  BY <1>1 DEF OwnedBy
<1>3. <<"name", t, 0>> \in Owners /\ \A j \in DOMAIN box[t].keys : <<"key", t, j>> \in Owners
  BY OwnersAre DEF OwnersForm
<1>4. box[t].name \in DOMAIN text /\ \A j \in DOMAIN box[t].keys : box[t].keys[j] \in DOMAIN text
  BY <1>2, <1>3, OwnedIs
<1> QED
  BY <1>4 DEF StringsOf

\* A step that changes no string but those it saves or removes.
Reads == \A p \in DOMAIN text \cap DOMAIN text' : text'[p] = text[p]

\* Such a step leaves the schemas that stay as they were.
LEMMA ReadsKept ==
  ASSUME OwnedOnce, OwnedOnce', ~damaged, ~damaged', Reads, NEW t \in DOMAIN box, t \in DOMAIN box',
         box'[t].name = box[t].name, box'[t].keys = box[t].keys, box'[t].types = box[t].types
  PROVE  ReadSchema(t)' = ReadSchema(t) /\ Name(t)' = Name(t)
<1>1. StringsOf(t) \subseteq DOMAIN text
  BY SchemaStrings
<1>2. (OwnedOnce /\ ~damaged /\ t \in DOMAIN box => StringsOf(t) \subseteq DOMAIN text)'
  BY SchemaStrings, PTL
<1>3. StringsOf(t)' = StringsOf(t)
  BY DEF StringsOf
<1>4. \A p \in StringsOf(t) : text'[p] = text[p]
  BY <1>1, <1>2, <1>3 DEF Reads
<1> QED
  BY <1>4, Unread

\* SaveString writes the words at the new pointers.
LEMMA SavedWords ==
  ASSUME NEW n \in Nat, NEW ps \in Picks(n), NEW words
  PROVE  /\ \A p \in DOMAIN text : Saved(ps, words)[p] = text[p]
         /\ \A k \in 1 .. n : Saved(ps, words)[ps[k]] = words[k]
         /\ DOMAIN Saved(ps, words) = DOMAIN text \cup {ps[k] : k \in 1 .. n}
<1>1. /\ ps \in [1 .. n -> Strings \ DOMAIN text]
      /\ \A j, k \in 1 .. n : ps[j] = ps[k] => j = k
  BY PicksFresh
<1>2. DOMAIN ps = 1 .. n
  BY <1>1
<1>3. \A p \in DOMAIN text : Saved(ps, words)[p] = text[p]
  BY DEF Saved
<1>4. ASSUME NEW k \in 1 .. n PROVE Saved(ps, words)[ps[k]] = words[k]
  <2>1. ps[k] \notin DOMAIN text
    BY <1>1
  <2>2. (CHOOSE j \in DOMAIN ps : ps[j] = ps[k]) = k
    BY <1>1, <1>2
  <2>3. Saved(ps, words)[ps[k]] = words[CHOOSE j \in DOMAIN ps : ps[j] = ps[k]]
    BY <1>2, <2>1 DEF Saved
  <2> QED
    BY <2>2, <2>3
<1>5. DOMAIN Saved(ps, words) = DOMAIN text \cup {ps[j] : j \in DOMAIN ps}
  BY SavedDomain
<1> QED
  BY <1>2, <1>3, <1>4, <1>5

\* The words of a definition: its name and its keys.
LEMMA DefinitionWords ==
  ASSUME NEW d \in Definitions
  PROVE  LET w == <<d.name>> \o [j \in DOMAIN d.fields |-> d.fields[j].key] IN
         /\ Len(d.fields) \in Nat /\ DOMAIN d.fields = 1 .. Len(d.fields)
         /\ w[1] = d.name /\ \A j \in 1 .. Len(d.fields) : w[j + 1] = d.fields[j].key
         /\ \A k \in 1 .. 1 + Len(d.fields) : w[k] \in Words
<1> DEFINE F == [key : Words, type : Types]
           n == Len(d.fields)
           g == [j \in DOMAIN d.fields |-> d.fields[j].key]
           w == <<d.name>> \o g
<1>1. d.fields \in Seq(F) /\ d.name \in Words
  BY DefinitionsAssumption
<1>2. \A x \in F : x.key \in Words
  OBVIOUS
<1> HIDE DEF F
<1>3. n \in Nat /\ DOMAIN d.fields = 1 .. n /\ \A j \in 1 .. n : d.fields[j] \in F
  BY <1>1
<1>4. g \in [1 .. n -> Words]
  BY <1>2, <1>3
<1>5. g \in Seq(Words) /\ Len(g) = n
  BY <1>3, <1>4
<1>6. \A j \in 1 .. n : g[j] = d.fields[j].key
  BY <1>3
<1> HIDE DEF g, n
<1>7. /\ w \in Seq(Words) /\ Len(w) = 1 + n
      /\ w[1] = d.name /\ \A j \in 1 .. n : w[j + 1] = g[j]
  BY <1>1, <1>3, <1>5
<1>8. \A k \in 1 .. 1 + n : w[k] \in Words
  BY <1>7
<1> QED
  BY <1>3, <1>6, <1>7, <1>8 DEF n, g

\* What CreateSchema makes of definition d can be read as d.
LEMMA CreateReads ==
  ASSUME NEW d \in Definitions, NEW s \in Boxes, NEW ps \in Picks(1 + Len(d.fields)),
         CreateSchema(d, s, ps)
  PROVE  /\ Reads /\ \A p \in DOMAIN text' \ DOMAIN text : text'[p] \in Words
         /\ ReadSchema(s)' = d /\ Name(s)' = d.name
<1> DEFINE n == Len(d.fields)
           w == <<d.name>> \o [j \in DOMAIN d.fields |-> d.fields[j].key]
<1>1. n \in Nat /\ NewSchema(s, n, ps)
  BY NewBox
<1>2. /\ DOMAIN d.fields = 1 .. n
      /\ w[1] = d.name /\ \A j \in 1 .. n : w[j + 1] = d.fields[j].key
      /\ \A k \in 1 .. 1 + n : w[k] \in Words
  BY DefinitionWords
<1>3. text' = Saved(ps, w) /\ 1 + n \in Nat /\ ps \in Picks(1 + n)
  BY <1>1 DEF CreateSchema
<1>4. box'[s].types = [j \in DOMAIN d.fields |-> d.fields[j].type]
  BY <1>1 DEF CreateSchema
<1> HIDE DEF w, n
<1>5. /\ \A p \in DOMAIN text : text'[p] = text[p]
      /\ \A k \in 1 .. 1 + n : text'[ps[k]] = w[k]
      /\ DOMAIN text' = DOMAIN text \cup {ps[k] : k \in 1 .. 1 + n}
  <2> DEFINE m == 1 + n
  <2>1. m \in Nat /\ ps \in Picks(m) /\ text' = Saved(ps, w)
    BY <1>3
  <2> HIDE DEF m
  <2>2. /\ \A p \in DOMAIN text : Saved(ps, w)[p] = text[p]
        /\ \A k \in 1 .. m : Saved(ps, w)[ps[k]] = w[k]
        /\ DOMAIN Saved(ps, w) = DOMAIN text \cup {ps[k] : k \in 1 .. m}
    BY <2>1, SavedWords
  <2> QED
    BY <2>1, <2>2 DEF m
<1>6. Reads /\ \A p \in DOMAIN text' \ DOMAIN text : text'[p] \in Words
  BY <1>2, <1>5 DEF Reads
<1>7. \A j \in 1 .. n : j + 1 \in 1 .. 1 + n /\ 1 \in 1 .. 1 + n
  BY <1>1
<1>8. /\ box'[s].name = ps[1] /\ DOMAIN box'[s].keys = 1 .. n
      /\ \A j \in 1 .. n : box'[s].keys[j] = ps[j + 1]
  BY <1>1 DEF NewSchema
<1>9. text'[box'[s].name] = d.name
  <2>1. 1 \in 1 .. 1 + n
    BY <1>1
  <2> QED
    BY <1>2, <1>5, <1>8, <2>1
<1>10. \A j \in 1 .. n : text'[box'[s].keys[j]] = d.fields[j].key /\ box'[s].types[j] = d.fields[j].type
  BY <1>2, <1>4, <1>5, <1>7, <1>8
<1>11. ReadSchema(s)' = [name |-> d.name, fields |-> [j \in 1 .. n |->
                           [key |-> d.fields[j].key, type |-> d.fields[j].type]]]
  <2>1. [j \in DOMAIN box'[s].keys |-> [key |-> text'[box'[s].keys[j]], type |-> box'[s].types[j]]]
          = [j \in 1 .. n |-> [key |-> d.fields[j].key, type |-> d.fields[j].type]]
    BY <1>8, <1>10
  <2> QED
    BY <1>9, <2>1 DEF ReadSchema, Name
<1>12. d = [name |-> d.name, fields |-> [j \in 1 .. n |->
             [key |-> d.fields[j].key, type |-> d.fields[j].type]]]
  <2> DEFINE F == [key : Words, type : Types]
  <2>1. d \in [name : Words, fields : Seq(F)]
    BY DefinitionsAssumption
  <2>2. \A x \in F : x = [key |-> x.key, type |-> x.type]
    OBVIOUS
  <2> HIDE DEF F
  <2>3. d = [name |-> d.name, fields |-> d.fields] /\ d.fields \in Seq(F)
    BY <2>1
  <2>4. d.fields \in [1 .. n -> F]
    BY <1>1, <1>2, <2>3
  <2>5. d.fields = [j \in 1 .. n |-> d.fields[j]]
    BY <2>4
  <2>6. \A j \in 1 .. n : d.fields[j] = [key |-> d.fields[j].key, type |-> d.fields[j].type]
    BY <2>2, <2>4
  <2>7. d.fields = [j \in 1 .. n |-> [key |-> d.fields[j].key, type |-> d.fields[j].type]]
    BY <2>5, <2>6
  <2> QED
    BY <2>3, <2>7
<1> QED
  BY <1>6, <1>9, <1>11, <1>12 DEF Name

\* The strings saved for an element are words, and no other string changes.
LEMMA AskedReads ==
  ASSUME Shapes, NEW s \in DOMAIN box, NEW p, NEW row \in Rows(box[s].types), NEW ps,
         Asked(p, s, row, ps)
  PROVE  Reads /\ \A q \in DOMAIN text' \ DOMAIN text : text'[q] \in Words
<1> DEFINE ts == box[s].types
           C == StrColumns(ts)
           n == Cardinality(C)
           w == RowWords(ts, row)
<1>1. ts \in Seq(Types)
  BY DEF Shapes
<1>2. /\ n \in Nat /\ \A k \in 1 .. n : \E j \in C : Rank(ts, j) = k
  BY <1>1, RankBijective
<1>3. text' = Saved(ps, w) /\ ps \in Picks(n)
  BY DEF Asked
<1>4. ASSUME NEW k \in 1 .. n PROVE w[k] \in Words
  <2>1. PICK j \in C : j = CHOOSE i \in C : Rank(ts, i) = k
    BY <1>2
  <2>2. w[k] = row[j]
    BY <2>1 DEF RowWords
  <2>3. row[j] \in Values
    BY <2>1 DEF Rows, StrColumns
  <2> QED
    BY <2>2, <2>3, DefinitionsAssumption
<1> HIDE DEF n, w, C
<1>5. /\ \A q \in DOMAIN text : text'[q] = text[q]
      /\ \A k \in 1 .. n : text'[ps[k]] = w[k]
      /\ DOMAIN text' = DOMAIN text \cup {ps[k] : k \in 1 .. n}
  <2>1. n \in Nat /\ ps \in Picks(n)
    BY <1>2, <1>3
  <2>2. /\ \A q \in DOMAIN text : Saved(ps, w)[q] = text[q]
        /\ \A k \in 1 .. n : Saved(ps, w)[ps[k]] = w[k]
        /\ DOMAIN Saved(ps, w) = DOMAIN text \cup {ps[k] : k \in 1 .. n}
    BY <2>1, SavedWords
  <2> QED
    BY <1>3, <2>2
<1> QED
  BY <1>4, <1>5 DEF Reads

\* An update writes words, and none of them over the name or a key of a schema.
LEMMA UpdateReads ==
  ASSUME Shapes, OwnedOnce, NEW u \in Updates, NEW s \in DOMAIN box, NEW seen \in SUBSET DOMAIN el,
         Update(u, s, seen)
  PROVE  /\ DOMAIN text' = DOMAIN text
         /\ \A p \in DOMAIN text : text'[p] = text[p] \/ text'[p] \in Words
         /\ \A t \in DOMAIN box : \A p \in StringsOf(t) : text'[p] = text[p]
         /\ damaged' \in BOOLEAN
<1>1. PICK c \in Column(box[s].keys, u.set) :
                  /\ u.to \in Contents(box[s].types[c])
                  /\ Written({e \in seen : Hit(e, u)}, u, c, box[s].types[c])
  BY DEF Update
<1> DEFINE es == {e \in seen : Hit(e, u)}
           ty == box[s].types[c]
<1>2. es \subseteq DOMAIN el
  OBVIOUS
<1>3. /\ Written(es, u, c, ty) /\ u.to \in Contents(ty) /\ ~damaged /\ UNCHANGED box
  BY <1>1 DEF Update, Ready
<1> HIDE DEF es, ty
<1>4. damaged' \in BOOLEAN
  BY <1>3 DEF Written
<1>5. CASE ty = "int" \/ damaged'
  <2>1. text' = text
    BY <1>3, <1>5 DEF Written
  <2> QED
    BY <1>4, <2>1
<1>6. CASE ~(ty = "int" \/ damaged')
  <2>1. text' = [p \in DOMAIN text |-> IF \E e \in es : el[e].data[c] = p THEN u.to ELSE text[p]]
    BY <1>3, <1>6 DEF Written
  <2>2. \A e \in es : c \in DOMAIN el[e].types /\ el[e].types[c] = ty
    BY <1>3, <1>6 DEF Written
  <2>3. es = {} \/ ty = "str"
    <3> SUFFICES ASSUME NEW e \in es PROVE ty = "str"
      OBVIOUS
    <3>1. box[s].types \in Seq(Types)
      BY DEF Shapes
    <3>2. el[e].types[c] = ty /\ e \in DOMAIN el /\ c \in DOMAIN el[e].types
      BY <1>2, <2>2
    <3>3. c \in DOMAIN box[s].types
      BY DEF Column, Shapes
    <3> QED
      BY <1>6, <3>1, <3>3 DEF Types, ty
  <2>4. \A p \in DOMAIN text : text'[p] = text[p] \/ text'[p] \in Words
    BY <1>3, <2>1, <2>3 DEF Contents
  <2>5. ASSUME NEW t \in DOMAIN box, NEW p \in StringsOf(t) PROVE text'[p] = text[p]
    <3>1. p \in DOMAIN text
      BY <1>3, SchemaStrings
    <3>2. ASSUME NEW e \in es, el[e].data[c] = p PROVE FALSE
      <4>1. c \in StrColumns(el[e].types) /\ e \in DOMAIN el
        BY <1>2, <2>2, <2>3, <3>2 DEF StrColumns
      <4>2. <<"data", e, c>> \in Owners /\ Owned(<<"data", e, c>>) = p
        BY <3>2, <4>1, OwnersAre, OwnedIs DEF OwnersForm
      <4>3. \A o1, o2 \in Owners : Owned(o1) = Owned(o2) => o1 = o2
        BY <1>3 DEF OwnedOnce, Held, OwnedBy
      <4>4. CASE p = box[t].name
        <5>1. <<"name", t, 0>> \in Owners /\ Owned(<<"name", t, 0>>) = p
          BY <4>4, OwnersAre, OwnedIs DEF OwnersForm
        <5>2. <<"name", t, 0>> = <<"data", e, c>>
          BY <4>2, <4>3, <5>1
        <5> QED
          BY <5>2
      <4>5. ASSUME NEW j \in DOMAIN box[t].keys, p = box[t].keys[j] PROVE FALSE
        <5>1. <<"key", t, j>> \in Owners /\ Owned(<<"key", t, j>>) = p
          BY <4>5, OwnersAre, OwnedIs DEF OwnersForm
        <5>2. <<"key", t, j>> = <<"data", e, c>>
          BY <4>2, <4>3, <5>1
        <5> QED
          BY <5>2
      <4> QED
        BY <4>4, <4>5 DEF StringsOf
    <3> QED
      BY <2>1, <3>1, <3>2
  <2> QED
    BY <1>4, <2>1, <2>4, <2>5
<1> QED
  BY <1>5, <1>6
-----------------------------------------------------------------------------
(* The list under the calls.                                               *)

\* ListComplete, whether the file is damaged or not, and the part of TypeOK that
\* the shapes leave open; the schemas can be read as definitions.
ListInv ==
  /\ Linked
  /\ DOMAIN box \subseteq Boxes
  /\ \A s \in DOMAIN box :
       /\ box[s].name \in Strings /\ box[s].keys \in [DOMAIN box[s].types -> Strings]
       /\ ReadSchema(s) \in Definitions
  /\ \A s, t \in DOMAIN box : Name(s) = Name(t) => s = t
  /\ \A p \in DOMAIN text : text[p] \in Words
  /\ \A e \in DOMAIN el : el[e].parent \in {0} \cup Elements
  /\ damaged \in BOOLEAN

\* GetSchemaByName finds nothing only when there is nothing of the name.
LEMMA FindNone ==
  ASSUME Linked, DOMAIN box \subseteq Boxes, NEW n, Find(n) = 0, NEW t \in DOMAIN box
  PROVE  Name(t) # n
<1> SUFFICES ASSUME Name(t) = n PROVE FALSE
  OBVIOUS
<1>1. PICK s : Lists(s)
  BY DEF Linked
<1>2. Walk = s /\ count \in Nat /\ s \in [1 .. count -> DOMAIN box]
  BY <1>1, WalkIs DEF Lists
<1> DEFINE ks == {k \in 1 .. count : text[box[Walk[k]].name] = n}
<1>3. PICK k \in 1 .. count : s[k] = t
  BY <1>1 DEF Lists
<1>4. k \in ks
  BY <1>2, <1>3 DEF Name
<1>5. ks \subseteq Nat /\ ks # {} /\ ks \subseteq 1 .. count
  BY <1>2, <1>4
<1>6. Find(n) = Walk[CHOOSE j \in ks : \A i \in ks : j <= i]
  BY <1>4 DEF Find
<1> HIDE DEF ks
<1>7. \E j \in ks : \A i \in ks : j <= i
  BY <1>5, Least
<1>8. (CHOOSE j \in ks : \A i \in ks : j <= i) \in ks
  BY <1>7
<1>9. Find(n) \in DOMAIN box
  BY <1>2, <1>5, <1>6, <1>8
<1> QED
  BY <1>9, PointersAssumption

\* The schema before the one at place m.
LEMMA PreviousIs ==
  ASSUME NEW s, Lists(s), NEW m \in 1 .. count
  PROVE  Previous(s[m]) = IF m = 1 THEN 0 ELSE s[m - 1]
<1>1. Walk = s
  BY WalkIs
<1>2. \A k \in 1 .. count : s[k] = s[m] => k = m
  BY DEF Lists
<1>3. (CHOOSE k \in 1 .. count : Walk[k] = s[m]) = m
  BY <1>1, <1>2
<1> QED
  BY <1>1, <1>3 DEF Previous

\* A step that changes no link leaves the list as it is.
LEMMA ListSame ==
  ASSUME NEW s, Lists(s), UNCHANGED <<first, count>>, DOMAIN box' = DOMAIN box,
         \A t \in DOMAIN box : box'[t].nxt = box[t].nxt
  PROVE  Lists(s)'
<1>1. \A k \in 1 .. count : s[k] \in DOMAIN box
  BY DEF Lists
<1>2. \A k \in 1 .. count - 1 : k \in 1 .. count
  BY DEF Lists
<1>3. count # 0 => count \in 1 .. count
  BY DEF Lists
<1> QED
  BY <1>1, <1>2, <1>3 DEF Lists

\* A schema is created only when none has its name, and it becomes the head.
LEMMA CreateList ==
  ASSUME Shapes, OwnedOnce, ListInv, NEW d \in Definitions, NEW s \in Boxes,
         NEW ps \in Picks(1 + Len(d.fields)), CreateSchema(d, s, ps), OwnedOnce'
  PROVE  ListInv'
<1> DEFINE n == Len(d.fields)
<1>1. n \in Nat /\ NewSchema(s, n, ps)
  BY NewBox
<1> HIDE DEF n
<1>2. /\ s \notin DOMAIN box /\ DOMAIN box' = DOMAIN box \cup {s}
      /\ \A t \in DOMAIN box : box'[t] = box[t]
      /\ UNCHANGED <<el, damaged>> /\ ~damaged /\ ~damaged'
  BY <1>1 DEF NewSchema
<1>3. /\ Reads /\ ReadSchema(s)' = d /\ Name(s)' = d.name
      /\ \A p \in DOMAIN text' \ DOMAIN text : text'[p] \in Words
  BY CreateReads
<1>4. \A t \in DOMAIN box : ReadSchema(t)' = ReadSchema(t) /\ Name(t)' = Name(t)
  BY <1>2, <1>3, ReadsKept
<1>5. Linked'
  <2>1. PICK r : Lists(r)
    BY DEF ListInv, Linked
  <2>2. /\ \A u \in DOMAIN box : box'[u].nxt = box[u].nxt
        /\ box'[s].nxt = first /\ first' = s /\ count' = count + 1
    BY <1>2 DEF CreateSchema
  <2>3. \E q : Lists(q)'
    BY <1>2, <2>1, <2>2, ListPut
  <2> QED
    BY <2>3 DEF Linked
<1>6. box'[s].name \in Strings /\ box'[s].keys \in [DOMAIN box'[s].types -> Strings]
  <2>1. \A k \in 1 .. 1 + n : ps[k] \in Strings
    BY <1>1 DEF NewSchema
  <2>2. 1 \in 1 .. 1 + n /\ \A j \in 1 .. n : j + 1 \in 1 .. 1 + n
    BY <1>1
  <2>3. box'[s].name \in Strings /\ \A j \in 1 .. n : box'[s].keys[j] \in Strings
    BY <1>1, <2>1, <2>2 DEF NewSchema
  <2>4. box'[s].keys = Tail(ps)
    BY DEF CreateSchema
  <2>5. Tail(ps) = [j \in DOMAIN Tail(ps) |-> Tail(ps)[j]]
    <3>1. ps \in [1 .. 1 + n -> Strings] /\ 1 + n \in Nat /\ 1 + n # 0
      BY <1>1 DEF NewSchema
    <3>2. ps \in Seq(Strings) /\ ps # <<>>
      BY <3>1
    <3>3. Tail(ps) \in Seq(Strings)
      BY <3>2
    <3>4. ASSUME NEW q \in Seq(Strings) PROVE q = [j \in DOMAIN q |-> q[j]]
      OBVIOUS
    <3> QED
      BY <3>3, <3>4, Zenon
  <2>6. DOMAIN box'[s].keys = 1 .. n /\ DOMAIN box'[s].types = 1 .. n
    BY <1>1 DEF NewSchema
  <2> QED
    BY <2>3, <2>4, <2>5, <2>6
<1>7. \A t \in DOMAIN box : Name(t) # d.name
  BY FindNone DEF ListInv, CreateSchema
<1>8. ASSUME NEW t \in DOMAIN box', NEW u \in DOMAIN box', Name(t)' = Name(u)' PROVE t = u
  BY <1>2, <1>3, <1>4, <1>7, <1>8 DEF ListInv
<1>9. \A p \in DOMAIN text' : text'[p] \in Words
  BY <1>3 DEF ListInv, Reads
<1>10. \A t \in DOMAIN box' :
         /\ box'[t].name \in Strings /\ box'[t].keys \in [DOMAIN box'[t].types -> Strings]
         /\ ReadSchema(t)' \in Definitions
  BY <1>2, <1>3, <1>4, <1>6 DEF ListInv
<1> QED
  BY <1>2, <1>5, <1>8, <1>9, <1>10 DEF ListInv

\* DeleteSchema makes the link to the schema skip it.
LEMMA UnlinkedList ==
  ASSUME Shapes, DOMAIN box \subseteq Boxes, NEW r, Lists(r), NEW m \in 1 .. count,
         DeleteSchema(r[m])
  PROVE  \E q : Lists(q)' /\ \A k \in 1 .. count - 1 : q[k] = IF k < m THEN r[k] ELSE r[k + 1]
<1> DEFINE s == r[m]
<1>1. /\ \A k \in 1 .. count : r[k] \in DOMAIN box /\ r[k] # 0
      /\ count \in Nat
  BY PointersAssumption DEF Lists
<1>2. Previous(s) = IF m = 1 THEN 0 ELSE r[m - 1]
  BY PreviousIs
<1>3. /\ DOMAIN box' = DOMAIN box \ {s} /\ count' = count - 1
      /\ first' = IF Previous(s) = 0 THEN box[s].nxt ELSE first
      /\ \A t \in DOMAIN box' :
           box'[t] = IF t = Previous(s) THEN [box[t] EXCEPT !.nxt = box[s].nxt] ELSE box[t]
  BY DEF DeleteSchema, Unlinked
<1>4. \A t \in DOMAIN box' : box'[t].nxt = IF t = Previous(s) THEN box[s].nxt ELSE box[t].nxt
  BY <1>3 DEF Shapes
<1>5. m = 1 \/ m - 1 \in 1 .. count
  BY <1>1
<1>6. Previous(s) = 0 <=> m = 1
  BY <1>1, <1>2, <1>5
<1>7. ASSUME NEW k \in 1 .. count, k # m
      PROVE  box'[r[k]].nxt = IF k = m - 1 THEN box[s].nxt ELSE box[r[k]].nxt
  <2>1. r[k] # s /\ r[k] \in DOMAIN box'
    BY <1>1, <1>3, <1>7 DEF Lists
  <2>2. r[k] = Previous(s) <=> k = m - 1
    <3>1. CASE m = 1
      BY <1>1, <1>2, <3>1
    <3>2. CASE m # 1
      <4>1. r[k] = r[m - 1] <=> k = m - 1
        BY <1>5, <3>2 DEF Lists
      <4> QED
        BY <1>2, <3>2, <4>1
    <3> QED
      BY <3>1, <3>2
  <2> QED
    BY <1>4, <2>1, <2>2
<1> QED
  BY <1>3, <1>6, <1>7, ListTake

\* The schemas that are left keep names and fields.
LEMMA DeleteSchemaList ==
  ASSUME Shapes, OwnedOnce, ListInv, NEW s \in DOMAIN box, DeleteSchema(s), OwnedOnce'
  PROVE  /\ ListInv' /\ Reads
         /\ \A t \in DOMAIN box' : ReadSchema(t)' = ReadSchema(t) /\ Name(t)' = Name(t)
<1>1. /\ DOMAIN box' = DOMAIN box \ {s}
      /\ \A t \in DOMAIN box' :
           /\ box'[t].name = box[t].name /\ box'[t].keys = box[t].keys /\ box'[t].types = box[t].types
      /\ UNCHANGED <<el, damaged>> /\ ~damaged /\ ~damaged'
  BY OldBox
<1>2. Reads /\ DOMAIN text' \subseteq DOMAIN text
  BY DEF Reads, DeleteSchema, Removed
<1>3. \A t \in DOMAIN box' : ReadSchema(t)' = ReadSchema(t) /\ Name(t)' = Name(t)
  BY <1>1, <1>2, ReadsKept
<1>4. Linked'
  <2>1. PICK r : Lists(r)
    BY DEF ListInv, Linked
  <2>2. PICK m \in 1 .. count : r[m] = s
    BY <2>1 DEF Lists
  <2>3. DeleteSchema(r[m]) /\ DOMAIN box \subseteq Boxes
    BY <2>2 DEF ListInv
  <2>4. \E q : Lists(q)'
    BY <2>1, <2>3, UnlinkedList
  <2> QED
    BY <2>4 DEF Linked
<1>5. \A t, u \in DOMAIN box' : Name(t)' = Name(u)' => t = u
  BY <1>1, <1>3 DEF ListInv
<1>6. \A t \in DOMAIN box' :
        /\ box'[t].name \in Strings /\ box'[t].keys \in [DOMAIN box'[t].types -> Strings]
        /\ ReadSchema(t)' \in Definitions
  BY <1>1, <1>3 DEF ListInv
<1>7. \A p \in DOMAIN text' : text'[p] \in Words
  BY <1>2 DEF ListInv, Reads
<1> QED
  BY <1>1, <1>2, <1>3, <1>4, <1>5, <1>6, <1>7 DEF ListInv

\* Calls on elements leave the list and what is read of it as they are.
LEMMA ElementsList ==
  ASSUME ListInv, UNCHANGED <<first, count>>, DOMAIN box' = DOMAIN box,
         \A t \in DOMAIN box :
           /\ box'[t].nxt = box[t].nxt /\ box'[t].name = box[t].name
           /\ box'[t].keys = box[t].keys /\ box'[t].types = box[t].types
           /\ ReadSchema(t)' = ReadSchema(t) /\ Name(t)' = Name(t),
         \A p \in DOMAIN text' : text'[p] \in Words,
         \A e \in DOMAIN el' : el'[e].parent \in {0} \cup Elements,
         damaged' \in BOOLEAN
  PROVE  ListInv'
<1>1. Linked'
  <2>1. PICK r : Lists(r)
    BY DEF ListInv, Linked
  <2>2. Lists(r)'
    BY <2>1, ListSame
  <2> QED
    BY <2>2 DEF Linked
<1>2. \A t, u \in DOMAIN box' : Name(t)' = Name(u)' => t = u
  BY DEF ListInv
<1> QED
  BY <1>1, <1>2 DEF ListInv

\* What an insertion leaves of the boxes and texts, accepted or not.
LEMMA InsertList ==
  ASSUME Shapes, OwnedOnce, ListInv, Readable, NEW s \in DOMAIN box, NEW e \in Elements,
         NEW p \in {0} \cup DOMAIN el, NEW row \in Rows(box[s].types), NEW ps,
         Insert(e, p, s, row, ps), OwnedOnce'
  PROVE  ListInv' /\ \A t \in DOMAIN box : ReadSchema(t)' = ReadSchema(t) /\ Name(t)' = Name(t)
<1>1. /\ Reads /\ \A q \in DOMAIN text' \ DOMAIN text : text'[q] \in Words
      /\ ~damaged
  BY AskedReads DEF Insert, Asked, Ready
<1>2. /\ DOMAIN box' = DOMAIN box /\ UNCHANGED <<first, count, damaged>>
      /\ \A t \in DOMAIN box :
           /\ box'[t].nxt = box[t].nxt /\ box'[t].name = box[t].name
           /\ box'[t].keys = box[t].keys /\ box'[t].types = box[t].types
  BY DEF Insert, Shapes
<1>3. \A t \in DOMAIN box : ReadSchema(t)' = ReadSchema(t) /\ Name(t)' = Name(t)
  BY <1>1, <1>2, ReadsKept
<1>4. \A q \in DOMAIN text' : text'[q] \in Words
  BY <1>1 DEF ListInv, Reads
<1>5. \A f \in DOMAIN el' : el'[f].parent \in {0} \cup Elements
  <2>1. DOMAIN el' = DOMAIN el \cup {e} /\ el'[e].parent = p /\ \A f \in DOMAIN el : f # e => el'[f] = el[f]
    BY DEF Insert
  <2> QED
    BY <2>1 DEF ListInv, Readable
<1>6. damaged' \in BOOLEAN
  BY <1>2 DEF ListInv
<1> QED
  BY <1>2, <1>3, <1>4, <1>5, <1>6, ElementsList

\* A refused insertion leaves strings and nothing else.
LEMMA RefuseList ==
  ASSUME Shapes, OwnedOnce, ListInv, NEW s \in DOMAIN box, NEW p,
         NEW row \in Rows(box[s].types), NEW ps, Refuse(p, s, row, ps), OwnedOnce'
  PROVE  ListInv' /\ \A t \in DOMAIN box : ReadSchema(t)' = ReadSchema(t) /\ Name(t)' = Name(t)
<1>1. /\ Reads /\ \A q \in DOMAIN text' \ DOMAIN text : text'[q] \in Words
      /\ ~damaged
  BY AskedReads DEF Refuse, Asked, Ready
<1>2. UNCHANGED <<first, count, box, el, damaged>>
  BY DEF Refuse
<1>3. \A t \in DOMAIN box : ReadSchema(t)' = ReadSchema(t) /\ Name(t)' = Name(t)
  BY <1>1, <1>2, ReadsKept
<1>4. \A q \in DOMAIN text' : text'[q] \in Words
  BY <1>1 DEF ListInv, Reads
<1>5. /\ \A f \in DOMAIN el' : el'[f].parent \in {0} \cup Elements
      /\ damaged' \in BOOLEAN
  BY <1>2 DEF ListInv
<1> QED
  BY <1>2, <1>3, <1>4, <1>5, ElementsList

\* An element goes with the strings of its values; the list stays.
LEMMA DeleteList ==
  ASSUME Shapes, OwnedOnce, ListInv, Readable, NEW e \in DOMAIN el, Delete(e), OwnedOnce'
  PROVE  ListInv' /\ \A t \in DOMAIN box : ReadSchema(t)' = ReadSchema(t) /\ Name(t)' = Name(t)
<1>1. Reads /\ DOMAIN text' \subseteq DOMAIN text /\ ~damaged
  BY DEF Reads, Delete, Removed, Ready
<1>2. /\ DOMAIN box' = DOMAIN box /\ UNCHANGED <<first, count, damaged>>
      /\ \A t \in DOMAIN box :
           /\ box'[t].nxt = box[t].nxt /\ box'[t].name = box[t].name
           /\ box'[t].keys = box[t].keys /\ box'[t].types = box[t].types
  BY DEF Delete, Without, Shapes
<1>3. \A t \in DOMAIN box : ReadSchema(t)' = ReadSchema(t) /\ Name(t)' = Name(t)
  BY <1>1, <1>2, ReadsKept
<1>4. \A q \in DOMAIN text' : text'[q] \in Words
  BY <1>1 DEF ListInv, Reads
<1>5. \A f \in DOMAIN el' : el'[f].parent \in {0} \cup Elements
  BY DEF Delete, Without, ListInv
<1>6. damaged' \in BOOLEAN
  BY <1>2 DEF ListInv
<1> QED
  BY <1>2, <1>3, <1>4, <1>5, <1>6, ElementsList

\* A removal along a stale link frees no string of a schema.
LEMMA DeleteStaleList ==
  ASSUME Shapes, OwnedOnce, ListInv, NEW e \in DOMAIN el, DeleteStale(e)
  PROVE  ListInv'
<1>1. /\ ~damaged /\ damaged' = TRUE /\ UNCHANGED <<first, count>>
      /\ DOMAIN text' = DOMAIN text \ DataStrings(e)
      /\ \A p \in DOMAIN text' : text'[p] = text[p]
  BY DEF DeleteStale, Removed, Ready
<1>2. /\ DOMAIN box' = DOMAIN box
      /\ \A t \in DOMAIN box :
           /\ box'[t].nxt = box[t].nxt /\ box'[t].name = box[t].name
           /\ box'[t].keys = box[t].keys /\ box'[t].types = box[t].types
      /\ \A f \in DOMAIN el' : f \in DOMAIN el /\ el'[f] = el[f]
  <2>1. CASE Without(e)
    BY <2>1 DEF Without, Shapes
  <2>2. CASE UNCHANGED <<el, box>>
    BY <2>2
  <2> QED
    BY <2>1, <2>2 DEF DeleteStale
<1>3. ASSUME NEW t \in DOMAIN box PROVE \A p \in StringsOf(t) : text'[p] = text[p]
  BY <1>1, DataAlone, SchemaStrings
<1>4. \A t \in DOMAIN box : ReadSchema(t)' = ReadSchema(t) /\ Name(t)' = Name(t)
  BY <1>2, <1>3, Unread
<1>5. \A q \in DOMAIN text' : text'[q] \in Words
  BY <1>1 DEF ListInv
<1>6. \A f \in DOMAIN el' : el'[f].parent \in {0} \cup Elements
  BY <1>2 DEF ListInv
<1> QED
  BY <1>1, <1>2, <1>4, <1>5, <1>6, ElementsList

\* An update writes values, never a name, a key or a link of the list.
LEMMA UpdateList ==
  ASSUME Shapes, OwnedOnce, ListInv, NEW u \in Updates, NEW s \in DOMAIN box,
         NEW seen \in SUBSET DOMAIN el, Update(u, s, seen)
  PROVE  ListInv' /\ \A t \in DOMAIN box : ReadSchema(t)' = ReadSchema(t) /\ Name(t)' = Name(t)
<1>1. /\ DOMAIN text' = DOMAIN text
      /\ \A p \in DOMAIN text : text'[p] = text[p] \/ text'[p] \in Words
      /\ \A t \in DOMAIN box : \A p \in StringsOf(t) : text'[p] = text[p]
      /\ damaged' \in BOOLEAN
  BY UpdateReads
<1>2. UNCHANGED <<first, count, box>>
  BY DEF Update
<1>3. \A t \in DOMAIN box : ReadSchema(t)' = ReadSchema(t) /\ Name(t)' = Name(t)
  BY <1>1, <1>2, Unread
<1>4. \A q \in DOMAIN text' : text'[q] \in Words
  BY <1>1 DEF ListInv
<1>5. \A f \in DOMAIN el' : el'[f].parent \in {0} \cup Elements
  <2>1. PICK c, es : Written(es, u, c, box[s].types[c])
    BY DEF Update
  <2>2. DOMAIN el' = DOMAIN el
    BY <2>1 DEF Written
  <2>3. \A f \in DOMAIN el : el'[f] = el[f] \/ \E x : el'[f] = [el[f] EXCEPT !.data[c] = x]
    BY <2>1 DEF Written
  <2> QED
    BY <2>2, <2>3 DEF ListInv, Shapes
<1> QED
  BY <1>1, <1>2, <1>3, <1>4, <1>5, ElementsList
-----------------------------------------------------------------------------
(* Theorems about the list.                                                *)

\* A new file has no schemas.
LEMMA InitListInv == Init => ListInv
<1> SUFFICES ASSUME Init PROVE ListInv
  OBVIOUS
<1>1. DOMAIN box = {} /\ DOMAIN el = {} /\ DOMAIN text = {} /\ count = 0 /\ first = 0 /\ damaged = FALSE
  BY DEF Init
<1>2. Lists([k \in 1 .. 0 |-> 0])
  BY <1>1 DEF Lists
<1>3. Linked
  BY <1>2 DEF Linked
<1> QED
  BY <1>1, <1>3 DEF ListInv

\* Every call keeps the list.
LEMMA StepListInv == IInv /\ IInv' /\ ListInv /\ [Next]_vars => ListInv'
<1> SUFFICES ASSUME IInv, IInv', ListInv, [Next]_vars PROVE ListInv'
  OBVIOUS
<1>0. Shapes /\ OwnedOnce /\ Readable /\ OwnedOnce'
  BY DEF IInv
<1>1. ASSUME NEW d \in Definitions, NEW s \in Boxes, NEW ps \in Picks(1 + Len(d.fields)),
             CreateSchema(d, s, ps)
      PROVE  ListInv'
  BY <1>0, <1>1, CreateList
<1>2. ASSUME NEW s \in DOMAIN box, DeleteSchema(s) PROVE ListInv'
  BY <1>0, <1>2, DeleteSchemaList
<1>3. ASSUME NEW s \in DOMAIN box, NEW p \in {0} \cup DOMAIN el, NEW row \in Rows(box[s].types), NEW ps,
             NEW e \in Elements, Insert(e, p, s, row, ps)
      PROVE  ListInv'
  BY <1>0, <1>3, InsertList
<1>4. ASSUME NEW s \in DOMAIN box, NEW p, NEW row \in Rows(box[s].types), NEW ps, Refuse(p, s, row, ps)
      PROVE  ListInv'
  BY <1>0, <1>4, RefuseList
<1>5. ASSUME NEW s \in DOMAIN box, NEW u \in Updates, NEW seen \in SUBSET DOMAIN el, Update(u, s, seen)
      PROVE  ListInv'
  BY <1>0, <1>5, UpdateList
<1>6. ASSUME NEW e \in DOMAIN el, Delete(e) PROVE ListInv'
  BY <1>0, <1>6, DeleteList
<1>8. ASSUME NEW e \in DOMAIN el, DeleteStale(e) PROVE ListInv'
  BY <1>0, <1>8, DeleteStaleList
<1>7. CASE UNCHANGED vars
  <2>1. UNCHANGED <<first, count, box, text, el, damaged>>
    BY <1>7 DEF vars
  <2>2. Linked'
    BY <2>1 DEF ListInv, Linked, Lists
  <2>3. \A t : ReadSchema(t)' = ReadSchema(t) /\ Name(t)' = Name(t)
    BY <2>1 DEF ReadSchema, Name
  <2> QED
    BY <2>1, <2>2, <2>3 DEF ListInv
<1> QED
  BY <1>1, <1>2, <1>3, <1>4, <1>5, <1>6, <1>7, <1>8 DEF Next

\* The list is kept in every reachable state, behind damage too.
LEMMA ListInvariant == Spec => [](IInv /\ ListInv)
<1>1. Init => ListInv
  BY InitListInv
<1>2. IInv /\ IInv' /\ ListInv /\ [Next]_vars => ListInv'
  BY StepListInv
<1> QED
  BY Invariant, <1>1, <1>2, PTL DEF Spec

\* The links between elements are elements.
Brothers == order \in Seq(Elements) /\ \A e \in DOMAIN el : prev[e] \in {0} \cup Elements

\* Every call keeps them so.
LEMMA BrothersKept == Readable /\ Brothers /\ [Next]_vars => Brothers'
<1> SUFFICES ASSUME Readable, Brothers, [Next]_vars PROVE Brothers'
  OBVIOUS
<1>1. ASSUME NEW e \in Elements, NEW p, NEW s, NEW row, NEW ps, Insert(e, p, s, row, ps)
      PROVE  Brothers'
  <2>1. order' = <<e>> \o order /\ DOMAIN el' = DOMAIN el \cup {e}
    BY <1>1 DEF Insert
  <2>2. order' \in Seq(Elements)
    <3>1. <<e>> \in Seq(Elements)
      OBVIOUS
    <3> QED
      BY <2>1, <3>1, ConcatProperties DEF Brothers
  <2>3. \A f \in DOMAIN el' : prev'[f] \in {0, e} \/ (f \in DOMAIN el /\ prev'[f] = prev[f])
    BY <1>1, <2>1 DEF Insert
  <2> QED
    BY <2>2, <2>3 DEF Brothers
<1>2. ASSUME NEW e \in DOMAIN el, Delete(e) PROVE Brothers'
  <2>1. PICK k \in DOMAIN order :
          order' = SubSeq(order, 1, k - 1) \o SubSeq(order, k + 1, Len(order))
    BY <1>2 DEF Delete
  <2>2. k \in 1 .. Len(order) /\ Len(order) \in Nat
    BY DEF Brothers
  <2>3. SubSeq(order, 1, k - 1) \in Seq(Elements) /\ SubSeq(order, k + 1, Len(order)) \in Seq(Elements)
    BY <2>2, SubSeqProperties DEF Brothers
  <2>4. order' \in Seq(Elements)
    BY <2>1, <2>3, ConcatProperties
  <2>5. \A f \in DOMAIN el' : f \in DOMAIN el /\ prev'[f] = prev[f]
    BY <1>2 DEF Delete, Without
  <2> QED
    BY <2>4, <2>5 DEF Brothers
<1>3. ASSUME NEW e \in DOMAIN el, DeleteStale(e) PROVE Brothers'
  <2>1. UNCHANGED <<order, prev>> /\ DOMAIN el' \subseteq DOMAIN el
    BY <1>3 DEF DeleteStale, Without
  <2> QED
    BY <2>1 DEF Brothers
<1>4. ASSUME UNCHANGED <<order, prev>>, DOMAIN el' = DOMAIN el PROVE Brothers'
  BY <1>4 DEF Brothers
<1>5. ASSUME NEW d, NEW s, NEW ps, CreateSchema(d, s, ps) PROVE Brothers'
  BY <1>4, <1>5 DEF CreateSchema
<1>6. ASSUME NEW s, DeleteSchema(s) PROVE Brothers'
  BY <1>4, <1>6 DEF DeleteSchema
<1>7. ASSUME NEW p, NEW s, NEW row, NEW ps, Refuse(p, s, row, ps) PROVE Brothers'
  BY <1>4, <1>7 DEF Refuse
<1>8. ASSUME NEW u, NEW s, NEW seen, Update(u, s, seen) PROVE Brothers'
  <2>1. UNCHANGED <<order, prev>> /\ DOMAIN el' = DOMAIN el
    BY <1>8 DEF Update, Written
  <2> QED
    BY <1>4, <2>1
<1>9. CASE UNCHANGED vars
  BY <1>4, <1>9 DEF vars
<1> QED
  BY <1>1, <1>2, <1>3, <1>5, <1>6, <1>7, <1>8, <1>9 DEF Next

\* The pointers of schemas and elements are pointers, the counters numbers and
\* the strings words, whatever is called and also behind a damaging update.
THEOREM StoreTypeOK == Spec => []TypeOK
<1>1. IInv /\ ListInv /\ Brothers => TypeOK
  <2> SUFFICES ASSUME IInv, ListInv, Brothers PROVE TypeOK
    OBVIOUS
  <2>0. Shapes /\ Readable
    BY DEF IInv
  <2>1. PICK r : Lists(r)
    BY DEF ListInv, Linked
  <2>2. first \in {0} \cup DOMAIN box /\ count \in Nat
    <3>1. count # 0 => 1 \in 1 .. count
      BY <2>1 DEF Lists
    <3> QED
      BY <2>1, <3>1 DEF Lists
  <2>3. ASSUME NEW s \in DOMAIN box PROVE box[s].nxt \in {0} \cup DOMAIN box
    <3>1. PICK k \in 1 .. count : r[k] = s
      BY <2>1 DEF Lists
    <3>2. k = count \/ (k \in 1 .. count - 1 /\ k + 1 \in 1 .. count)
      BY <2>2
    <3> QED
      BY <2>1, <3>1, <3>2 DEF Lists
  <2>4. ASSUME NEW s \in DOMAIN box PROVE box[s].cnt \in Nat
    <3>1. IsFiniteSet(Of(s)) /\ box[s].cnt = Cardinality(Of(s))
      BY <2>0, OfFinite DEF Readable
    <3> QED
      BY <3>1, FS_CardinalityType
  <2>5. \A s \in DOMAIN box :
          /\ box[s].name \in Strings /\ box[s].types \in Seq(Types)
          /\ box[s].keys \in [DOMAIN box[s].types -> Strings]
    BY <2>0 DEF ListInv, Shapes
  <2>6. \A e \in DOMAIN el :
          /\ el[e].schema \in Boxes /\ el[e].parent \in {0} \cup Elements
          /\ el[e].types \in Seq(Types) /\ el[e].keys \in [DOMAIN el[e].types -> Strings]
          /\ DOMAIN el[e].data = DOMAIN el[e].types
    BY <2>0, <2>5 DEF ListInv, Shapes, Readable
  <2>7. DOMAIN text \subseteq Strings /\ lost \subseteq Strings /\ DOMAIN el \subseteq Elements
    BY <2>0 DEF Shapes, Readable
  <2> QED
    BY <2>2, <2>3, <2>4, <2>5, <2>6, <2>7 DEF ListInv, TypeOK, Brothers
<1>2. Init => Brothers
  BY DEF Init, Brothers
<1>3. IInv /\ Brothers /\ [Next]_vars => Brothers'
  BY BrothersKept DEF IInv
<1> QED
  BY <1>1, <1>2, <1>3, ListInvariant, PTL DEF Spec

\* The walk that trusts count meets every schema once and ends behind the last,
\* whichever schemas were created and deleted before and in which order.
THEOREM ListWalked == Spec => []ListComplete
<1>1. IInv /\ ListInv => ListComplete
  <2> SUFFICES ASSUME IInv, ListInv
               PROVE  /\ {Walk[k] : k \in 1 .. count} = DOMAIN box /\ count = Cardinality(DOMAIN box)
                      /\ IF count = 0 THEN first = 0 ELSE box[Walk[count]].nxt = 0
                      /\ \A s, t \in DOMAIN box : Name(s) = Name(t) => s = t
    BY DEF ListComplete
  <2>1. PICK r : Lists(r)
    BY DEF ListInv, Linked
  <2>2. Walk = r
    BY <2>1, WalkIs
  <2>3. /\ count \in Nat /\ r \in [1 .. count -> DOMAIN box]
        /\ \A j, k \in 1 .. count : r[j] = r[k] => j = k
        /\ \A t \in DOMAIN box : \E k \in 1 .. count : r[k] = t
        /\ count = 0 => first = 0
        /\ count # 0 => box[r[count]].nxt = 0
    BY <2>1 DEF Lists
  <2>4. {r[k] : k \in 1 .. count} = DOMAIN box
    <3> DEFINE S == 1 .. count
    <3>1. r \in [S -> DOMAIN box] /\ \A t \in DOMAIN box : \E k \in S : r[k] = t
      BY <2>3
    <3> HIDE DEF S
    <3>2. {r[k] : k \in S} = DOMAIN box
      BY <3>1, Zenon
    <3> QED
      BY <3>2 DEF S
  <2>5. count = Cardinality(DOMAIN box)
    <3> DEFINE S == 1 .. count
               B == DOMAIN box
    <3>1. IsFiniteSet(S) /\ Cardinality(S) = count
      BY <2>3, FS_Interval
    <3>2. r \in [S -> B] /\ \A j, k \in S : r[j] = r[k] => j = k
      BY <2>3
    <3>3. \A t \in B : \E k \in S : r[k] = t
      BY <2>3
    <3> HIDE DEF S, B
    <3>4. r \in Bijection(S, B)
      BY <3>2, <3>3 DEF Bijection, Injection, Surjection, IsInjective
    <3>5. Cardinality(B) = Cardinality(S)
      BY <3>1, <3>4, FS_Bijection DEF ExistsBijection
    <3> QED
      BY <3>1, <3>5 DEF B
  <2> QED
    BY <2>2, <2>3, <2>4, <2>5 DEF ListInv
<1> QED
  BY <1>1, ListInvariant, PTL

-----------------------------------------------------------------------------
(* SchemaStore implements SchemaCatalog.                                   *)

\* Two sequences of the same length and with the same elements are the same.
LEMMA SeqSame ==
  ASSUME NEW S, NEW p \in Seq(S), NEW q \in Seq(S), Len(p) = Len(q),
         \A k \in 1 .. Len(p) : p[k] = q[k]
  PROVE  p = q
<1>1. p \in [1 .. Len(p) -> S] /\ q \in [1 .. Len(q) -> S]
  BY ElementOfSeq, LenProperties
<1> QED
  BY <1>1

\* A sequence with d before it.
LEMMA SeqBefore ==
  ASSUME NEW S, NEW l \in Seq(S), NEW q \in Seq(S), NEW d \in S, Len(q) = Len(l) + 1,
         q[1] = d, \A k \in 1 .. Len(l) : q[k + 1] = l[k]
  PROVE  q = <<d>> \o l
<1> DEFINE p == <<d>> \o l
<1>1. <<d>> \in Seq(S) /\ Len(<<d>>) = 1 /\ Len(l) \in Nat
  BY LenProperties
<1>2. /\ p \in Seq(S) /\ Len(p) = Len(l) + 1
      /\ \A k \in 1 .. Len(l) + 1 : p[k] = IF k <= 1 THEN <<d>>[k] ELSE l[k - 1]
  BY <1>1, ConcatProperties
<1>3. ASSUME NEW k \in 1 .. Len(l) + 1 PROVE q[k] = p[k]
  <2>1. CASE k = 1
    BY <1>2, <2>1
  <2>2. CASE k # 1
    <3>1. k - 1 \in 1 .. Len(l) /\ (k - 1) + 1 = k /\ ~(k <= 1)
      BY <1>1, <2>2
    <3> QED
      BY <1>2, <3>1
  <2> QED
    BY <2>1, <2>2
<1> HIDE DEF p
<1>4. q = p
  BY <1>2, <1>3, SeqSame
<1> QED
  BY <1>4 DEF p

\* A sequence without its element at m.
LEMMA SeqWithout ==
  ASSUME NEW S, NEW l \in Seq(S), NEW q \in Seq(S), NEW m \in 1 .. Len(l), Len(q) = Len(l) - 1,
         \A k \in 1 .. Len(l) - 1 : q[k] = IF k < m THEN l[k] ELSE l[k + 1]
  PROVE  q = SubSeq(l, 1, m - 1) \o SubSeq(l, m + 1, Len(l))
<1> DEFINE a == SubSeq(l, 1, m - 1)
           b == SubSeq(l, m + 1, Len(l))
<1>1. Len(l) \in Nat /\ \A k \in 1 .. Len(l) : l[k] \in S
  BY ElementOfSeq, LenProperties
<1>2. /\ a \in Seq(S) /\ Len(a) = m - 1 /\ \A k \in 1 .. m - 1 : a[k] = l[k]
  BY <1>1, SubSeqProperties
<1>3. /\ b \in Seq(S) /\ Len(b) = Len(l) - m /\ \A k \in 1 .. Len(l) - m : b[k] = l[m + k]
  BY <1>1, SubSeqProperties
<1> HIDE DEF a, b
<1>4. /\ a \o b \in Seq(S) /\ Len(a \o b) = Len(l) - 1
      /\ \A k \in 1 .. Len(l) - 1 : (a \o b)[k] = IF k <= m - 1 THEN a[k] ELSE b[k - (m - 1)]
  <2>1. /\ a \o b \in Seq(S) /\ Len(a \o b) = Len(a) + Len(b)
        /\ \A k \in 1 .. Len(a) + Len(b) :
             (a \o b)[k] = IF k <= Len(a) THEN a[k] ELSE b[k - Len(a)]
    BY <1>2, <1>3, ConcatProperties
  <2>2. Len(a) + Len(b) = Len(l) - 1 /\ Len(a) = m - 1
    BY <1>1, <1>2, <1>3
  <2> QED
    BY <2>1, <2>2
<1>5. ASSUME NEW k \in 1 .. Len(l) - 1 PROVE q[k] = (a \o b)[k]
  <2>1. CASE k < m
    <3>1. k <= m - 1 /\ k \in 1 .. m - 1
      BY <1>1, <2>1
    <3> QED
      BY <1>2, <1>4, <2>1, <3>1
  <2>2. CASE ~(k < m)
    <3>1. ~(k <= m - 1) /\ k - (m - 1) \in 1 .. Len(l) - m /\ m + (k - (m - 1)) = k + 1
      BY <1>1, <2>2
    <3> QED
      BY <1>3, <1>4, <2>2, <3>1
  <2> QED
    BY <2>1, <2>2
<1>6. q = a \o b
  BY <1>4, <1>5, SeqSame
<1> QED
  BY <1>6 DEF a, b

\* What the callers see of a list.
ListForm ==
  ListInv => \A r : Lists(r) =>
    /\ List = [k \in 1 .. count |-> ReadSchema(r[k])]
    /\ List \in Seq(Definitions) /\ Len(List) = count /\ DOMAIN List = 1 .. count
    /\ \A k \in 1 .. count : List[k] = ReadSchema(r[k]) /\ List[k].name = Name(r[k])

\* The schemas are read in the order of the list.
LEMMA ListIs == ListForm
<1> SUFFICES ASSUME ListInv, NEW r, Lists(r)
             PROVE  /\ List = [k \in 1 .. count |-> ReadSchema(r[k])]
                    /\ List \in Seq(Definitions) /\ Len(List) = count /\ DOMAIN List = 1 .. count
                    /\ \A k \in 1 .. count :
                         List[k] = ReadSchema(r[k]) /\ List[k].name = Name(r[k])
  BY DEF ListForm
<1>1. Walk = r
  BY WalkIs
<1>2. count \in Nat /\ \A k \in 1 .. count : r[k] \in DOMAIN box
  BY DEF Lists
<1>3. List = [k \in 1 .. count |-> ReadSchema(r[k])]
  BY <1>1 DEF List
<1>4. \A k \in 1 .. count : ReadSchema(r[k]) \in Definitions
  BY <1>2 DEF ListInv
<1>5. List \in [1 .. count -> Definitions]
  BY <1>3, <1>4
<1>6. List \in Seq(Definitions) /\ Len(List) = count
  BY <1>2, <1>5
<1>7. \A s : ReadSchema(s).name = Name(s)
  BY DEF ReadSchema
<1> QED
  BY <1>3, <1>5, <1>6, <1>7

\* The elements that count for a name: those of the one schema that has it.
LEMMA UsesIs ==
  ASSUME IInv, ListInv, ~damaged, NEW s \in DOMAIN box
  PROVE  Name(s) \in {d.name : d \in Definitions} /\ Uses[Name(s)] = Cardinality(Of(s))
<1>1. ReadSchema(s) \in Definitions /\ ReadSchema(s).name = Name(s)
  BY DEF ListInv, ReadSchema
<1>2. Name(s) \in {d.name : d \in Definitions}
  BY <1>1
<1>3. {e \in DOMAIN el : Name(el[e].schema) = Name(s)} = Of(s)
  <2>1. \A e \in DOMAIN el : el[e].schema \in DOMAIN box
    BY DEF IInv, Readable
  <2> QED
    BY <2>1 DEF ListInv, Of
<1> QED
  BY <1>2, <1>3 DEF Uses

\* A step that changes neither the schemas of the elements nor their names.
LEMMA UsesSame ==
  ASSUME Readable, DOMAIN el' = DOMAIN el, \A e \in DOMAIN el : el'[e].schema = el[e].schema,
         \A e \in DOMAIN el : Name(el[e].schema)' = Name(el[e].schema)
  PROVE  Uses' = Uses
<1>1. ASSUME NEW e \in DOMAIN el PROVE text'[box'[el'[e].schema].name] = text[box[el[e].schema].name]
  BY DEF Name
<1>2. ASSUME NEW n
      PROVE  {e \in DOMAIN el' : text'[box'[el'[e].schema].name] = n}
               = {e \in DOMAIN el : text[box[el[e].schema].name] = n}
  BY <1>1
<1> QED
  BY <1>2 DEF Uses, Name

\* A step that leaves the links and what is read of the schemas.
LEMMA ListKept ==
  ASSUME ListInv, ListInv', UNCHANGED <<first, count>>, DOMAIN box' = DOMAIN box,
         \A t \in DOMAIN box : box'[t].nxt = box[t].nxt,
         \A t \in DOMAIN box : ReadSchema(t)' = ReadSchema(t)
  PROVE  List' = List
<1>1. PICK r : Lists(r)
  BY DEF ListInv, Linked
<1>2. Lists(r)'
  BY <1>1, ListSame
<1>3. List = [k \in 1 .. count |-> ReadSchema(r[k])]
  BY <1>1, ListIs DEF ListForm
<1>4. ListForm'
  BY ListIs, PTL
<1>5. List' = [k \in 1 .. count |-> ReadSchema(r[k])]'
  BY <1>2, <1>4 DEF ListForm
<1>6. \A k \in 1 .. count : r[k] \in DOMAIN box
  BY <1>1 DEF Lists
<1>7. \A k \in 1 .. count : ReadSchema(r[k])' = ReadSchema(r[k])
  BY <1>6
<1> QED
  BY <1>3, <1>5, <1>7

\* A created schema is the first of the list.
LEMMA CreateCatalog ==
  ASSUME IInv, IInv', ListInv, ListInv', NEW d \in Definitions, NEW s \in Boxes,
         NEW ps \in Picks(1 + Len(d.fields)), CreateSchema(d, s, ps)
  PROVE  Catalog!Create(d)
<1> DEFINE n == Len(d.fields)
<1>1. n \in Nat /\ NewSchema(s, n, ps)
  BY NewBox
<1> HIDE DEF n
<1>2. /\ s \notin DOMAIN box /\ DOMAIN box' = DOMAIN box \cup {s}
      /\ \A t \in DOMAIN box : box'[t] = box[t]
      /\ UNCHANGED <<el, damaged>> /\ ~damaged /\ ~damaged'
  BY <1>1 DEF NewSchema
<1>3. Reads /\ ReadSchema(s)' = d /\ Name(s)' = d.name
  BY CreateReads
<1>4. \A t \in DOMAIN box : ReadSchema(t)' = ReadSchema(t) /\ Name(t)' = Name(t)
  BY <1>2, <1>3, ReadsKept DEF IInv
<1>5. PICK r : Lists(r)
  BY DEF ListInv, Linked
<1>6. PICK q : Lists(q)' /\ q[1] = s /\ \A k \in 1 .. count : q[k + 1] = r[k]
  <2>1. /\ \A u \in DOMAIN box : box'[u].nxt = box[u].nxt
        /\ box'[s].nxt = first /\ first' = s /\ count' = count + 1
    BY <1>2 DEF CreateSchema
  <2> QED
    BY <1>2, <1>5, <2>1, ListPut
<1>7. /\ List \in Seq(Definitions) /\ Len(List) = count /\ DOMAIN List = 1 .. count
      /\ \A k \in 1 .. count : List[k] = ReadSchema(r[k]) /\ List[k].name = Name(r[k])
  BY <1>5, ListIs DEF ListForm
<1>8. /\ List' \in Seq(Definitions) /\ Len(List') = count'
      /\ \A k \in 1 .. count' : List'[k] = ReadSchema(q[k])'
  <2>1. ListForm'
    BY ListIs, PTL
  <2> QED
    BY <1>6, <2>1 DEF ListForm
<1>9. count \in Nat /\ count' = count + 1 /\ \A k \in 1 .. count : r[k] \in DOMAIN box
  BY <1>5 DEF Lists, CreateSchema
<1>10. List' = <<d>> \o List
  <2>1. List'[1] = d
    <3>1. 1 \in 1 .. count'
      BY <1>9
    <3>2. List'[1] = ReadSchema(q[1])'
      BY <1>8, <3>1
    <3> QED
      BY <1>3, <1>6, <3>2 DEF ReadSchema, Name
  <2>2. ASSUME NEW k \in 1 .. Len(List) PROVE List'[k + 1] = List[k]
    <3>1. k \in 1 .. count /\ k + 1 \in 1 .. count'
      BY <1>7, <1>9
    <3>2. q[k + 1] = r[k] /\ List'[k + 1] = ReadSchema(q[k + 1])'
      BY <1>6, <1>8, <3>1
    <3>3. ReadSchema(q[k + 1])' = ReadSchema(r[k])'
      BY <3>2 DEF ReadSchema, Name
    <3>4. ReadSchema(r[k])' = ReadSchema(r[k])
      BY <1>4, <1>9, <3>1
    <3> QED
      BY <1>7, <3>1, <3>2, <3>3, <3>4
  <2>3. Len(List') = Len(List) + 1
    BY <1>7, <1>8, <1>9
  <2> DEFINE l == List
             q1 == List'
  <2>4. l \in Seq(Definitions) /\ q1 \in Seq(Definitions) /\ Len(q1) = Len(l) + 1 /\ q1[1] = d
        /\ \A k \in 1 .. Len(l) : q1[k + 1] = l[k]
    BY <1>7, <1>8, <2>1, <2>2, <2>3
  <2> HIDE DEF l, q1
  <2>5. q1 = <<d>> \o l
    BY <2>4, SeqBefore
  <2> QED
    BY <2>5 DEF l, q1
<1>11. ~(\E k \in DOMAIN List : List[k].name = d.name)
  <2>1. \A t \in DOMAIN box : Name(t) # d.name
    BY FindNone DEF ListInv, CreateSchema
  <2> QED
    BY <1>7, <1>9, <2>1
<1>12. Uses' = Uses
  <2>1. \A e \in DOMAIN el : el[e].schema \in DOMAIN box
    BY DEF IInv, Readable
  <2> QED
    BY <1>2, <1>4, <2>1, UsesSame DEF IInv
<1> QED
  BY <1>10, <1>11, <1>12 DEF Catalog!Create, Catalog!Listed

\* A deleted schema, which no element uses, goes from its place in the list.
LEMMA DeleteCatalog ==
  ASSUME IInv, IInv', ListInv, ListInv', NEW s \in DOMAIN box, DeleteSchema(s)
  PROVE  Catalog!Delete(Name(s)) /\ Name(s) \in {d.name : d \in Definitions}
<1>1. /\ DOMAIN box' = DOMAIN box \ {s} /\ UNCHANGED <<el, damaged>> /\ ~damaged
  BY OldBox DEF IInv
<1>2. \A t \in DOMAIN box' : ReadSchema(t)' = ReadSchema(t) /\ Name(t)' = Name(t)
  BY DeleteSchemaList DEF IInv
<1>3. PICK r : Lists(r)
  BY DEF ListInv, Linked
<1>4. PICK m \in 1 .. count : r[m] = s
  BY <1>3 DEF Lists
<1>5. PICK q : Lists(q)' /\ \A k \in 1 .. count - 1 : q[k] = IF k < m THEN r[k] ELSE r[k + 1]
  <2>1. DeleteSchema(r[m]) /\ Shapes /\ DOMAIN box \subseteq Boxes
    BY <1>4 DEF ListInv, IInv
  <2> QED
    BY <1>3, <2>1, UnlinkedList
<1>6. /\ List \in Seq(Definitions) /\ Len(List) = count /\ DOMAIN List = 1 .. count
      /\ \A k \in 1 .. count : List[k] = ReadSchema(r[k]) /\ List[k].name = Name(r[k])
  BY <1>3, ListIs DEF ListForm
<1>7. /\ List' \in Seq(Definitions) /\ Len(List') = count'
      /\ \A k \in 1 .. count' : List'[k] = ReadSchema(q[k])'
  <2>1. ListForm'
    BY ListIs, PTL
  <2> QED
    BY <1>5, <2>1 DEF ListForm
<1>8. count \in Nat /\ count' = count - 1 /\ \A k \in 1 .. count : r[k] \in DOMAIN box
  BY <1>3 DEF Lists, DeleteSchema
<1>9. \A k \in 1 .. count' : q[k] \in DOMAIN box'
  BY <1>5 DEF Lists
<1>10. List' = SubSeq(List, 1, m - 1) \o SubSeq(List, m + 1, Len(List))
  <2>1. ASSUME NEW k \in 1 .. count - 1
        PROVE  List'[k] = IF k < m THEN List[k] ELSE List[k + 1]
    <3>1. k \in 1 .. count /\ k + 1 \in 1 .. count /\ k \in 1 .. count'
      BY <1>8
    <3>2. List'[k] = ReadSchema(q[k])' /\ q[k] \in DOMAIN box'
      BY <1>7, <1>9, <3>1
    <3>3. List'[k] = ReadSchema(q[k])
      BY <1>2, <3>2
    <3> QED
      BY <1>5, <1>6, <3>1, <3>3
  <2> DEFINE l == List
             p == List'
  <2>2. l \in Seq(Definitions) /\ p \in Seq(Definitions) /\ Len(p) = Len(l) - 1 /\ m \in 1 .. Len(l)
        /\ \A k \in 1 .. Len(l) - 1 : p[k] = IF k < m THEN l[k] ELSE l[k + 1]
    BY <1>6, <1>7, <1>8, <2>1
  <2> HIDE DEF l, p
  <2>3. p = SubSeq(l, 1, m - 1) \o SubSeq(l, m + 1, Len(l))
    BY <2>2, SeqWithout
  <2> QED
    BY <2>3 DEF l, p
<1>11. Name(s) \in {d.name : d \in Definitions} /\ Uses[Name(s)] = 0
  <2>1. Name(s) \in {d.name : d \in Definitions} /\ Uses[Name(s)] = Cardinality(Of(s))
    BY <1>1, UsesIs
  <2>2. Cardinality(Of(s)) = 0
    BY DEF DeleteSchema, InUse, IInv, Readable
  <2> QED
    BY <2>1, <2>2
<1>12. Uses' = Uses
  <2>1. Readable /\ Readable'
    BY DEF IInv
  <2>2. \A e \in DOMAIN el : el[e].schema \in DOMAIN box'
    BY <1>1, <2>1 DEF Readable
  <2> QED
    BY <1>1, <1>2, <2>1, <2>2, UsesSame
<1>13. m \in DOMAIN List /\ List[m].name = Name(s)
  BY <1>4, <1>6
<1> QED
  BY <1>10, <1>11, <1>12, <1>13 DEF Catalog!Delete

\* The elements of the schemas of a name.
Named(n) == {e \in DOMAIN el : Name(el[e].schema) = n}

\* What the callers see when one element of schema s comes or goes: the number
\* for its name is that of its elements, the others stay.
LEMMA UsesChange ==
  ASSUME IInv, IInv', ListInv, ListInv', ~damaged, ~damaged', NEW s \in DOMAIN box,
         DOMAIN box' = DOMAIN box, \A t \in DOMAIN box : Name(t)' = Name(t),
         NEW c, Cardinality(Of(s))' = c, \A t \in DOMAIN box : t # s => Of(t)' = Of(t)
  PROVE  Uses' = [Uses EXCEPT ![Name(s)] = c]
<1> DEFINE N == {d.name : d \in Definitions}
<1>1. \A e \in DOMAIN el : el[e].schema \in DOMAIN box
  BY DEF IInv, Readable
<1>2. \A e \in DOMAIN el' : el'[e].schema \in DOMAIN box
  BY DEF IInv, Readable
<1>3. \A t, u \in DOMAIN box : Name(t) = Name(u) => t = u
  BY DEF ListInv
<1>4. /\ \A e, t : e \in Of(t) <=> e \in DOMAIN el /\ el[e].schema = t
      /\ \A e, t : e \in Of(t)' <=> e \in DOMAIN el' /\ el'[e].schema = t
  BY DEF Of
<1>5. /\ \A e, n : e \in Named(n) <=> e \in DOMAIN el /\ Name(el[e].schema) = n
      /\ \A e, n : e \in Named(n)' <=> e \in DOMAIN el' /\ text'[box'[el'[e].schema].name] = n
  BY DEF Named, Name
<1>6. \A e \in DOMAIN el' : text'[box'[el'[e].schema].name] = Name(el'[e].schema)
  <2>1. \A t \in DOMAIN box : text'[box'[t].name] = Name(t)
    BY DEF Name
  <2> QED
    BY <1>2, <2>1
<1>7. ASSUME NEW n \in N, n # Name(s) PROVE Named(n)' = Named(n)
  <2>1. ASSUME NEW e PROVE e \in Named(n)' <=> e \in Named(n)
    <3>1. \A t \in DOMAIN box : t # s => (e \in DOMAIN el' /\ el'[e].schema = t
                                            <=> e \in DOMAIN el /\ el[e].schema = t)
      BY <1>4
    <3> QED
      BY <1>1, <1>2, <1>5, <1>6, <1>7, <3>1
  <2> QED
    BY <2>1
<1>8. Named(Name(s))' = Of(s)'
  <2>1. \A e : e \in Named(Name(s))' <=> e \in Of(s)'
    <3>1. Name(s)' = Name(s)
      OBVIOUS
    <3>2. \A e : e \in Named(Name(s))' <=>
                   e \in DOMAIN el' /\ text'[box'[el'[e].schema].name] = Name(s)
      BY <3>1 DEF Named, Name
    <3> QED
      BY <1>2, <1>3, <1>4, <1>6, <3>2
  <2> QED
    BY <2>1
<1>9. Name(s) \in N
  BY UsesIs
<1>10. Uses = [n \in N |-> Cardinality(Named(n))]
  BY DEF Uses, Named
<1>11. Uses' = [n \in N |-> Cardinality(Named(n)')]
  BY DEF Uses, Named
<1>12. Cardinality(Named(Name(s))') = c
  BY <1>8
<1>13. Named(Name(s))' = {e \in DOMAIN el' : text'[box'[el'[e].schema].name] = Name(s)}
  <2>1. Name(s)' = Name(s)
    OBVIOUS
  <2> QED
    BY <2>1 DEF Named, Name
<1>14. ASSUME NEW n \in N, n = Name(s) PROVE Cardinality(Named(n)') = c
  <2>1. Named(n)' = Named(Name(s))'
    BY <1>13, <1>14 DEF Named, Name
  <2> QED
    BY <1>12, <2>1
<1> QED
  BY <1>7, <1>9, <1>10, <1>11, <1>14

\* A row is counted for the schema it is of.
LEMMA InsertCatalog ==
  ASSUME IInv, IInv', ListInv, ListInv', NEW s \in DOMAIN box, NEW e \in Elements,
         NEW p \in {0} \cup DOMAIN el, NEW row \in Rows(box[s].types), NEW ps,
         Insert(e, p, s, row, ps)
  PROVE  Catalog!AddElement(Name(s)) /\ Name(s) \in {d.name : d \in Definitions}
<1>1. /\ ~damaged /\ ~damaged' /\ DOMAIN box' = DOMAIN box /\ UNCHANGED <<first, count>>
      /\ \A t \in DOMAIN box : box'[t].nxt = box[t].nxt
  BY DEF Insert, Asked, Ready, IInv, Shapes
<1>2. \A t \in DOMAIN box : ReadSchema(t)' = ReadSchema(t) /\ Name(t)' = Name(t)
  BY InsertList DEF IInv
<1>3. List' = List
  BY <1>1, <1>2, ListKept
<1>4. /\ DOMAIN el' = DOMAIN el \cup {e} /\ e \notin DOMAIN el /\ el'[e].schema = s
      /\ \A f \in DOMAIN el : el'[f] = el[f]
  BY DEF Insert, Lowest
<1>5. Of(s)' = Of(s) \cup {e} /\ e \notin Of(s)
  BY <1>4 DEF Of
<1>6. \A t \in DOMAIN box : t # s => Of(t)' = Of(t)
  BY <1>4 DEF Of
<1>7. Cardinality(Of(s))' = Cardinality(Of(s)) + 1
  <2>1. IsFiniteSet(Of(s))
    BY OfFinite DEF IInv
  <2> QED
    BY <1>5, <2>1, FS_AddElement
<1>8. Uses' = [Uses EXCEPT ![Name(s)] = Cardinality(Of(s)) + 1]
  BY <1>1, <1>2, <1>6, <1>7, UsesChange
<1>9. Uses[Name(s)] = Cardinality(Of(s)) /\ Name(s) \in {d.name : d \in Definitions}
  BY <1>1, UsesIs
<1>10. \E k \in DOMAIN List : List[k].name = Name(s)
  <2>1. PICK r : Lists(r)
    BY DEF ListInv, Linked
  <2>2. PICK m \in 1 .. count : r[m] = s
    BY <2>1 DEF Lists
  <2> QED
    BY <2>1, <2>2, ListIs DEF ListForm
<1>11. Uses' = [Uses EXCEPT ![Name(s)] = Uses[Name(s)] + 1]
  BY <1>8, <1>9
<1> QED
  BY <1>3, <1>9, <1>10, <1>11 DEF Catalog!AddElement, Catalog!Listed

\* And no longer when it is deleted.
LEMMA RemoveCatalog ==
  ASSUME IInv, IInv', ListInv, ListInv', NEW e \in DOMAIN el, Delete(e)
  PROVE  \E n \in {d.name : d \in Definitions} : Catalog!RemoveElement(n)
<1>0. PICK s \in DOMAIN box : s = el[e].schema
  BY DEF IInv, Readable
<1>1. /\ ~damaged /\ ~damaged' /\ DOMAIN box' = DOMAIN box /\ UNCHANGED <<first, count>>
      /\ \A t \in DOMAIN box : box'[t].nxt = box[t].nxt
  BY <1>0 DEF Delete, Without, Ready, IInv, Shapes
<1>2. \A t \in DOMAIN box : ReadSchema(t)' = ReadSchema(t) /\ Name(t)' = Name(t)
  BY DeleteList DEF IInv
<1>3. List' = List
  BY <1>1, <1>2, ListKept
<1>4. DOMAIN el' = DOMAIN el \ {e} /\ \A f \in DOMAIN el' : el'[f] = el[f]
  BY DEF Delete, Without
<1>5. Of(s)' = Of(s) \ {e} /\ e \in Of(s)
  <2>1. Of(s)' = {f \in DOMAIN el' : el'[f].schema = s}
    BY DEF Of
  <2> QED
    BY <1>0, <1>4, <2>1 DEF Of
<1>6. \A t \in DOMAIN box : t # s => Of(t)' = Of(t)
  BY <1>0, <1>4 DEF Of
<1>7. Cardinality(Of(s))' = Cardinality(Of(s)) - 1 /\ Cardinality(Of(s)) > 0
  <2>1. IsFiniteSet(Of(s))
    BY OfFinite DEF IInv
  <2>2. Cardinality(Of(s) \ {e}) = Cardinality(Of(s)) - 1 /\ Cardinality(Of(s) \ {e}) \in Nat
        /\ Cardinality(Of(s)) \in Nat
    BY <1>5, <2>1, FS_RemoveElement, FS_CardinalityType
  <2> QED
    BY <1>5, <2>2
<1>8. Uses' = [Uses EXCEPT ![Name(s)] = Cardinality(Of(s)) - 1]
  BY <1>1, <1>2, <1>6, <1>7, UsesChange
<1>9. Uses[Name(s)] = Cardinality(Of(s)) /\ Name(s) \in {d.name : d \in Definitions}
  BY <1>1, UsesIs
<1>10. Uses' = [Uses EXCEPT ![Name(s)] = Uses[Name(s)] - 1] /\ Uses[Name(s)] > 0
  BY <1>7, <1>8, <1>9
<1>11. Catalog!RemoveElement(Name(s))
  BY <1>3, <1>10 DEF Catalog!RemoveElement
<1> QED
  BY <1>9, <1>11

\* The other calls change nothing the callers see.
LEMMA OtherCatalog ==
  ASSUME IInv, ListInv, ListInv', UNCHANGED <<first, count>>, DOMAIN box' = DOMAIN box,
         \A t \in DOMAIN box : box'[t].nxt = box[t].nxt,
         \A t \in DOMAIN box : ReadSchema(t)' = ReadSchema(t) /\ Name(t)' = Name(t),
         DOMAIN el' = DOMAIN el, \A e \in DOMAIN el : el'[e].schema = el[e].schema
  PROVE  UNCHANGED <<List, Uses>>
<1>1. List' = List
  BY ListKept
<1>2. \A e \in DOMAIN el : el[e].schema \in DOMAIN box
  BY DEF IInv, Readable
<1>3. Uses' = Uses
  BY <1>2, UsesSame DEF IInv
<1> QED
  BY <1>1, <1>3

\* Every step is one of SchemaCatalog or none.
LEMMA StepCatalog ==
  IInv /\ IInv' /\ ListInv /\ ListInv' /\ [Next]_vars /\ ~damaged'
    => [Catalog!Next]_<<List, Uses>>
<1> SUFFICES ASSUME IInv, IInv', ListInv, ListInv', [Next]_vars, ~damaged'
             PROVE  [Catalog!Next]_<<List, Uses>>
  OBVIOUS
<1>0. Shapes /\ OwnedOnce /\ Readable /\ OwnedOnce'
  BY DEF IInv
<1>1. ASSUME NEW d \in Definitions, NEW s \in Boxes, NEW ps \in Picks(1 + Len(d.fields)),
             CreateSchema(d, s, ps)
      PROVE  Catalog!Next
  <2>1. Catalog!Create(d)
    BY <1>1, CreateCatalog
  <2> QED
    BY <2>1 DEF Catalog!Next
<1>2. ASSUME NEW s \in DOMAIN box, DeleteSchema(s) PROVE Catalog!Next
  <2>1. Catalog!Delete(Name(s)) /\ Name(s) \in {d.name : d \in Definitions}
    BY <1>2, DeleteCatalog
  <2> QED
    BY <2>1 DEF Catalog!Next
<1>3. ASSUME NEW s \in DOMAIN box, NEW p \in {0} \cup DOMAIN el, NEW row \in Rows(box[s].types), NEW ps,
             NEW e \in Elements, Insert(e, p, s, row, ps)
      PROVE  Catalog!Next
  <2>1. Catalog!AddElement(Name(s)) /\ Name(s) \in {d.name : d \in Definitions}
    BY <1>3, InsertCatalog
  <2> QED
    BY <2>1 DEF Catalog!Next
<1>4. ASSUME NEW s \in DOMAIN box, NEW p, NEW row \in Rows(box[s].types), NEW ps, Refuse(p, s, row, ps)
      PROVE  UNCHANGED <<List, Uses>>
  <2>1. UNCHANGED <<first, count, box, el>>
    BY <1>4 DEF Refuse
  <2>2. \A t \in DOMAIN box : ReadSchema(t)' = ReadSchema(t) /\ Name(t)' = Name(t)
    BY <1>0, <1>4, RefuseList
  <2> QED
    BY <2>1, <2>2, OtherCatalog
<1>5. ASSUME NEW s \in DOMAIN box, NEW u \in Updates, NEW seen \in SUBSET DOMAIN el, Update(u, s, seen)
      PROVE  UNCHANGED <<List, Uses>>
  <2>1. UNCHANGED <<first, count, box>>
    BY <1>5 DEF Update
  <2>2. \A t \in DOMAIN box : ReadSchema(t)' = ReadSchema(t) /\ Name(t)' = Name(t)
    BY <1>0, <1>5, UpdateList
  <2>3. DOMAIN el' = DOMAIN el /\ \A e \in DOMAIN el : el'[e].schema = el[e].schema
    BY <1>0, <1>5, UpdateKeeps
  <2> QED
    BY <2>1, <2>2, <2>3, OtherCatalog
<1>6. ASSUME NEW e \in DOMAIN el, Delete(e) PROVE Catalog!Next
  <2>1. \E n \in {d.name : d \in Definitions} : Catalog!RemoveElement(n)
    BY <1>6, RemoveCatalog
  <2> QED
    BY <2>1 DEF Catalog!Next
<1>8. ASSUME NEW e \in DOMAIN el, DeleteStale(e) PROVE FALSE
  BY <1>0, <1>8, DeleteStaleShapes
<1>7. CASE UNCHANGED vars
  <2>1. UNCHANGED <<first, count, box, text, el>>
    BY <1>7 DEF vars
  <2>2. \A t : ReadSchema(t)' = ReadSchema(t) /\ Name(t)' = Name(t)
    BY <2>1 DEF ReadSchema, Name
  <2> QED
    BY <2>1, <2>2, OtherCatalog
<1> QED
  BY <1>1, <1>2, <1>3, <1>4, <1>5, <1>6, <1>7, <1>8 DEF Next

\* What the callers of the schema calls see is what SchemaCatalog promises: a
\* list of definitions with distinct names, newest first, from which only those
\* go that no element uses.
THEOREM SchemasImplementCatalog == Spec => ImplementsCatalog
<1>1. Init => Catalog!Init
  <2> SUFFICES ASSUME Init PROVE Catalog!Init
    OBVIOUS
  <2>1. count = 0 /\ DOMAIN el = {}
    BY DEF Init
  <2>2. List = <<>>
    BY <2>1 DEF List
  <2>3. Uses = [n \in {d.name : d \in Definitions} |-> 0]
    <3>1. \A n : {e \in DOMAIN el : Name(el[e].schema) = n} = {}
      BY <2>1
    <3> QED
      BY <3>1, FS_EmptySet DEF Uses
  <2> QED
    BY <2>2, <2>3 DEF Catalog!Init
<1>2. IInv /\ IInv' /\ ListInv /\ ListInv' /\ [Next]_vars
        => [~damaged' => [Catalog!Next]_<<List, Uses>>]_vars
  BY StepCatalog
<1> QED
  BY <1>1, <1>2, ListInvariant, PTL DEF Spec, ImplementsCatalog
=============================================================================
