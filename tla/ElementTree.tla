----------------------------- MODULE ElementTree -----------------------------
(***************************************************************************)
(* The data tree of src/llp/include/Database.h: elements linked by child,  *)
(* brother, previous brother and parent, the iterator that walks them from *)
(* the leaves up, and the calls that insert, delete, update and find them. *)
(*                                                                         *)
(* Between calls nothing else runs.  Every call is one action, except      *)
(* DeleteElements, whose loop removes elements under its own iterator and  *)
(* is modelled one iteration per action.                                   *)
(*                                                                         *)
(* The storage below is the one ChunkStore models: the free list is the    *)
(* sequence free, an element the sequence of chunks it takes from its      *)
(* front, and the id of an element its first chunk.                        *)
(***************************************************************************)
EXTENDS Integers, FiniteSets, Sequences

CONSTANTS
  Schemas,        \* the schemas, all created before the first element
  Fields,         \* schema -> the sequence of its field names (sorted, as in std::map)
  Size,           \* schema -> chunks of an element (GetElementPackedSize)
  Values,         \* values of fields
  Updates,        \* the update_queries: [schema, if, is, set, to]
  ChunksPerPage,
  MaxChunks       \* bound: chunks of element pages the file may have

Chunks == 1 .. MaxChunks
Ptr    == 0 .. MaxChunks

ASSUME SizesAssumption ==
  /\ ChunksPerPage \in Nat \ {0}
  /\ MaxChunks \in Nat /\ ChunksPerPage <= MaxChunks
  /\ Size \in [Schemas -> Nat \ {0}]

ASSUME SchemasAssumption == 0 \notin Schemas

ASSUME UpdatesAssumption == \A u \in Updates : u.schema \in Schemas /\ u.to \in Values

VARIABLES
  first,     \* master_header_.elements.first_element: the root
  count,     \* master_header_.elements.count
  cnt,       \* SchemaBox.cnt_elements_
  rec,       \* chunk -> the ElementBox read from there
  chain,     \* chunk -> the chunks of the element that starts there, <<>> if none
  free,      \* the free list, from first_free_element on
  fileEnd,   \* element chunks in the file
  pc,        \* "idle" or "delete": DeleteElements is running
  it,        \* current_ptr_ of its iterator
  i,         \* its loop counter
  sel,       \* its select_query: [schema, if, is]
  \* history, read by no step
  keep,      \* the elements that must survive the running DeleteElements
  damaged    \* a call has written to what is not the element its link or id meant

tree  == <<first, count, cnt, rec, chain, free, fileEnd>>
loop  == <<pc, it, i, sel, keep>>
vars  == <<tree, loop, damaged>>

Rows(s) == [1 .. Len(Fields[s]) -> Values]

Queries == UNION {[schema : {s}, if : {Fields[s][j] : j \in 1 .. Len(Fields[s])}, is : Values]
                  : s \in Schemas}

\* What reading a chunk filled with zeros gives.
ZeroRec == [schema |-> 0, parent |-> 0, child |-> 0, prev |-> 0, brother |-> 0, row |-> <<>>]

NoQuery == [schema |-> 0, if |-> 0, is |-> 0]

Elements == {c \in Chunks : chain[c] # <<>>}

-----------------------------------------------------------------------------
(* ElementsTreeIterator: from a leaf to its brother's first leaf, from the *)
(* last brother to the parent.                                             *)

Down(c) ==
  LET at[k \in 0 .. MaxChunks] ==
        IF k = 0 THEN c
        ELSE LET d == at[k - 1] IN IF rec[d].child = 0 THEN d ELSE rec[d].child
  IN at[MaxChunks]

Begin == IF first = 0 THEN 0 ELSE Down(first)

\* Mutant of After: the brother is visited before what is below it.
AfterNoDown(e) == IF rec[e].brother # 0 THEN rec[e].brother ELSE rec[e].parent

After(e) == IF rec[e].brother # 0 THEN Down(rec[e].brother) ELSE rec[e].parent

\* The elements in the order of the loops for (i < count) { Read(); Next(); };
\* a walk that goes on after count elements would show at count + 1.
Order ==
  LET at[k \in 1 .. count + 1] ==
        IF k = 1 THEN Begin
        ELSE LET e == at[k - 1] IN IF e = 0 THEN 0 ELSE After(e)
  IN at

\* GetElements
GetElements == [k \in 1 .. count |-> Order[k]]

-----------------------------------------------------------------------------
(* Conditions.  A select_query names a schema, a field and a value.        *)

Column(s, f) == CHOOSE j \in 1 .. Len(Fields[s]) : Fields[s][j] = f
HasField(s, f) == \E j \in 1 .. Len(Fields[s]) : Fields[s][j] = f

\* Element::CheckConditional: the field is looked up by name.
Check(s, row, f, v) == row[Column(s, f)] = v

\* The condition of GetElements(select_query) and DeleteElements.
Selected(e, q) ==
  rec[e].schema = q.schema /\ Check(rec[e].schema, rec[e].row, q.if, q.is)

-----------------------------------------------------------------------------
(* GetElementByPath: the id on each level is sought among the brothers     *)
(* linked from the child of the one before.                                *)

Brothers(c) ==
  LET at[k \in 0 .. MaxChunks] ==
        IF k = 0 THEN c
        ELSE LET b == at[k - 1] IN IF b = 0 THEN 0 ELSE rec[b].brother
  IN {at[k] : k \in 0 .. MaxChunks} \ {0}

\* Mutant of Start: a level is sought from the element above.
StartAbove(path, k) == IF k = 1 THEN first ELSE path[k - 1]

\* Where the reads of a level start.
Start(path, k) == IF k = 1 THEN first ELSE rec[path[k - 1]].child

\* The first n levels are found.
Found(path, n) == \A k \in 1 .. n : path[k] \in Brothers(Start(path, k))

\* A level starts at 0, the child of a leaf: ReadStruct reads no chunk and the
\* ElementBox is taken from behind an empty buffer.  Anything may follow.
ReadsAtZero(path) ==
  first # 0 /\ \E k \in DOMAIN path : Start(path, k) = 0 /\ Found(path, k - 1)

GetElementByPath(path) ==
  IF ReadsAtZero(path) THEN "undefined"
  ELSE IF Found(path, Len(path)) THEN "found" ELSE "not found"

-----------------------------------------------------------------------------
Init ==
  /\ first = 0 /\ count = 0
  /\ cnt = [s \in Schemas |-> 0]
  /\ rec = [c \in Chunks |-> ZeroRec]
  /\ chain = [c \in Chunks |-> <<>>]
  /\ fileEnd = ChunksPerPage
  /\ free = [k \in 1 .. ChunksPerPage |-> k]
  /\ pc = "idle" /\ it = 0 /\ i = 0 /\ sel = NoQuery /\ keep = {}
  /\ damaged = FALSE

\* The model ends with the call that damages the file.
Ready == pc = "idle" /\ ~damaged

-----------------------------------------------------------------------------
(* InsertElement.                                                          *)

\* ValidateElementByPtr: the link of the chunk is not negative, which is so in
\* an element and at the end of the free list.
Valid(c) ==
  /\ c \in 1 .. fileEnd
  /\ c = free[Len(free)] \/ \A k \in 1 .. Len(free) : free[k] # c

\* WriteBytesBatch takes n chunks and appends pages so that one is left over.
Pages(n) == IF n < Len(free) THEN 0 ELSE (n - Len(free)) \div ChunksPerPage + 1

\* Mutant of Pool: the chunks of a page are numbered from one too many.
PoolShifted(n) == free \o [k \in 1 .. Pages(n) * ChunksPerPage |-> fileEnd + k + 1]

Pool(n) == free \o [k \in 1 .. Pages(n) * ChunksPerPage |-> fileEnd + k]

\* Chunks that ReadStruct meets from c: those of the element from there on, or
\* the last free one.
Span(c) ==
  LET rests == UNION {{Len(chain[e]) - j + 1 : j \in {k \in 1 .. Len(chain[e]) : chain[e][k] = c}}
                      : e \in Elements}
  IN IF rests = {} THEN 1 ELSE CHOOSE n \in rests : TRUE

\* The new element becomes the first child of p, which must be large enough
\* for an element of the new one's schema ("Invalid parent id" otherwise).
Insert(p, s, row) ==
  LET n   == Size[s]
      id  == free[1]
      old == rec[p].child
      box == [ZeroRec EXCEPT !.schema = s, !.parent = p, !.row = row,
                             !.brother = IF p = 0 THEN 0 ELSE old]
  IN /\ Ready
     /\ IF p = 0 THEN count = 0 ELSE Valid(p) /\ Span(p) >= n
     /\ fileEnd + Pages(n) * ChunksPerPage <= MaxChunks
     /\ fileEnd' = fileEnd + Pages(n) * ChunksPerPage
     /\ free' = SubSeq(Pool(n), n + 1, Len(Pool(n)))
     /\ chain' = [chain EXCEPT ![id] = SubSeq(Pool(n), 1, n)]
     /\ rec' = [c \in Chunks |->
                  IF c = id THEN box
                  ELSE IF c = p THEN [rec[c] EXCEPT !.child = id]
                  ELSE IF p # 0 /\ c = old THEN [rec[c] EXCEPT !.prev = id]
                  ELSE rec[c]]
     /\ first' = IF p = 0 THEN id ELSE first
     /\ count' = count + 1
     /\ cnt' = [cnt EXCEPT ![s] = @ + 1]
     /\ damaged' = (p # 0 /\ p \notin Elements)
     /\ UNCHANGED loop

-----------------------------------------------------------------------------
(* ElementsTreeIterator::Remove of a leaf.  The element is unlinked from   *)
(* its parent or from its previous brother; the next brother keeps its     *)
(* prev_brother_link_.  What a stale link makes of the fields of an        *)
(* element that has since taken the chunk is not followed.                 *)

\* Mutant of Unlinked: the parent keeps its link to the first child.
UnlinkedBrother(e) ==
  LET r == rec[e] IN
  IF r.parent = 0 \/ r.prev = 0 THEN rec ELSE [rec EXCEPT ![r.prev].brother = r.brother]

Unlinked(e) ==
  LET r == rec[e] IN
  IF r.parent = 0 THEN rec
  ELSE IF r.prev = 0 THEN [rec EXCEPT ![r.parent].child = r.brother]
  ELSE [rec EXCEPT ![r.prev].brother = r.brother]

\* Rewriting a freed chunk ends the free list there.
FreeFrom(c) ==
  LET upto == {k \in 1 .. Len(free) : \A j \in 1 .. k - 1 : free[j] # c}
  IN SubSeq(free, 1, Cardinality(upto))

\* The chunk that names e as its next brother or child is the one Remove writes.
Linked(e) ==
  LET r == rec[e] IN
  \/ r.parent = 0
  \/ r.prev = 0 /\ rec[r.parent].child = e
  \/ r.prev \in Elements /\ rec[r.prev].brother = e

\* Mutant of Remove: the schema keeps its count.
RemoveUncounted(e) ==
  /\ rec' = [Unlinked(e) EXCEPT ![e] = ZeroRec]
  /\ free' = chain[e] \o (IF rec[e].parent = 0 THEN free ELSE FreeFrom(rec[e].prev))
  /\ chain' = [chain EXCEPT ![e] = <<>>]
  /\ first' = IF rec[e].parent = 0 THEN 0 ELSE first
  /\ count' = count - 1
  /\ damaged' = (damaged \/ ~Linked(e))
  /\ UNCHANGED <<cnt, fileEnd>>

\* Mutant of Remove: only the first chunk of the element is freed.
RemoveOneChunk(e) ==
  /\ rec' = [Unlinked(e) EXCEPT ![e] = ZeroRec]
  /\ free' = <<e>> \o (IF rec[e].parent = 0 THEN free ELSE FreeFrom(rec[e].prev))
  /\ chain' = [chain EXCEPT ![e] = <<>>]
  /\ first' = IF rec[e].parent = 0 THEN 0 ELSE first
  /\ count' = count - 1
  /\ cnt' = [cnt EXCEPT ![rec[e].schema] = @ - 1]
  /\ damaged' = (damaged \/ ~Linked(e))
  /\ UNCHANGED fileEnd

Remove(e) ==
  /\ rec' = [Unlinked(e) EXCEPT ![e] = ZeroRec]
  /\ free' = chain[e] \o (IF rec[e].parent = 0 THEN free ELSE FreeFrom(rec[e].prev))
  /\ chain' = [chain EXCEPT ![e] = <<>>]
  /\ first' = IF rec[e].parent = 0 THEN 0 ELSE first
  /\ count' = count - 1
  /\ cnt' = [cnt EXCEPT ![rec[e].schema] = @ - 1]
  /\ damaged' = (damaged \/ ~Linked(e))
  /\ UNCHANGED fileEnd

\* Reading the previous brother may fail when it is no element: the negative
\* link of a freed chunk leads ReadStruct off the structure.
Unreadable(e) == rec[e].parent # 0 /\ rec[e].prev \notin {0} \cup Elements

\* DeleteElement: the id is sought with the iterator; inner nodes stay.
Sought(e) == (\E k \in 1 .. count : Order[k] = e) /\ rec[e].child = 0

Delete(e) ==
  /\ Ready /\ Sought(e)
  /\ Remove(e)
  /\ UNCHANGED loop

\* The exception comes when the strings of the element are already freed.
DeleteFails(e) ==
  /\ Ready /\ Sought(e) /\ Unreadable(e)
  /\ damaged' = TRUE
  /\ UNCHANGED <<tree, loop>>

-----------------------------------------------------------------------------
(* DeleteElements.                                                         *)

\* The elements above one that is not selected, and that one.
Above(e) ==
  LET at[k \in 0 .. count] ==
        IF k = 0 THEN {e}
        ELSE LET es == at[k - 1] IN es \cup {rec[x].parent : x \in es \ {0}}
  IN at[count] \ {0}

Survivors(q) == UNION {Above(e) : e \in {x \in Elements : ~Selected(x, q)}}

DeleteBegin(q) ==
  /\ Ready
  /\ pc' = "delete" /\ it' = Begin /\ i' = 0 /\ sel' = q
  /\ keep' = Survivors(q)
  /\ UNCHANGED <<tree, damaged>>

Removable(e) == Selected(e, sel) /\ rec[e].child = 0

\* Mutant of DeleteRemove: the iterator stays on the freed element.
DeleteRemoveStay ==
  /\ pc = "delete" /\ i < count /\ it \in Elements
  /\ Removable(it)
  /\ Remove(it)
  /\ UNCHANGED loop

\* Mutant of DeleteRemove: a removal counts as a visit.
DeleteRemoveCounted ==
  /\ pc = "delete" /\ i < count /\ it \in Elements
  /\ Removable(it)
  /\ Remove(it)
  /\ it' = After(it) /\ i' = i + 1
  /\ UNCHANGED <<pc, sel, keep>>

\* Remove moves the iterator on; i stays.
DeleteRemove ==
  /\ pc = "delete" /\ i < count /\ it \in Elements
  /\ Removable(it)
  /\ Remove(it)
  /\ it' = After(it)
  /\ UNCHANGED <<pc, i, sel, keep>>

\* Mutant of DeleteSkip: an element that stays is read again.
DeleteSkipStay ==
  /\ pc = "delete" /\ i < count /\ it \in Elements
  /\ ~Removable(it)
  /\ UNCHANGED vars

DeleteSkip ==
  /\ pc = "delete" /\ i < count /\ it \in Elements
  /\ ~Removable(it)
  /\ i' = i + 1 /\ it' = After(it)
  /\ UNCHANGED <<tree, pc, sel, keep, damaged>>

LoopEnds == pc' = "idle" /\ it' = 0 /\ i' = 0 /\ sel' = NoQuery /\ keep' = {}

DeleteReturn ==
  /\ pc = "delete" /\ i >= count
  /\ LoopEnds
  /\ UNCHANGED <<tree, damaged>>

\* Reading what is not an element leaves the call with an exception.
DeleteThrow ==
  /\ pc = "delete" /\ i < count
  /\ it \in Elements => Removable(it) /\ Unreadable(it)
  /\ LoopEnds
  /\ damaged' = TRUE
  /\ UNCHANGED tree

-----------------------------------------------------------------------------
(* UpdateElements: the condition is checked on the elements of every       *)
(* schema, and the value goes to the column it has in the query's schema.  *)

Hit(u, e) == Check(rec[e].schema, rec[e].row, u.if, u.is)

\* The new row; a column the element does not have is not packed again.
Written(u, row) ==
  [j \in DOMAIN row |-> IF j = Column(u.schema, u.set) THEN u.to ELSE row[j]]

\* Mutant of Visited: the loop ends one element early.
VisitedButLast(u) ==
  {Order[k] : k \in {n \in 1 .. count - 1 :
                       \A m \in 1 .. n : HasField(rec[Order[m]].schema, u.if)}}

\* The elements before the first one without the field: there at() throws and
\* the elements written so far stay as they are.
Visited(u) ==
  {Order[k] : k \in {n \in 1 .. count :
                       \A m \in 1 .. n : HasField(rec[Order[m]].schema, u.if)}}

Update(u) ==
  /\ Ready
  /\ HasField(u.schema, u.if) /\ HasField(u.schema, u.set)
  /\ rec' = [c \in Chunks |-> IF c \in Visited(u) /\ Hit(u, c)
                              THEN [rec[c] EXCEPT !.row = Written(u, @)] ELSE rec[c]]
  /\ UNCHANGED <<first, count, cnt, chain, free, fileEnd, loop, damaged>>

-----------------------------------------------------------------------------
DeleteStep == DeleteRemove \/ DeleteSkip \/ DeleteReturn \/ DeleteThrow

Next ==
  \/ \E p \in 0 .. fileEnd, s \in Schemas : \E row \in Rows(s) : Insert(p, s, row)
  \/ \E e \in Chunks : Delete(e) \/ DeleteFails(e)
  \/ \E q \in Queries : DeleteBegin(q)
  \/ DeleteStep
  \/ \E u \in Updates : Update(u)
  \/ damaged /\ pc = "idle" /\ UNCHANGED vars

Spec == Init /\ [][Next]_vars

\* The loop of DeleteElements is executed: its thread keeps running.
FairSpec == Spec /\ WF_vars(DeleteStep)

-----------------------------------------------------------------------------
(* What must hold, as long as no call has damaged the file.                *)

Box(r) ==
  /\ {r.parent, r.child, r.prev, r.brother} \subseteq Ptr
  /\ \/ r.schema \in Schemas /\ r.row \in Rows(r.schema)
     \/ r.schema = 0 /\ r.row = <<>>

TypeOK ==
  /\ first \in Ptr /\ it \in Ptr
  /\ count \in Nat /\ i \in Nat
  /\ cnt \in [Schemas -> Nat]
  /\ \A c \in Chunks : Box(rec[c])
  /\ \A c \in Chunks : chain[c] \in Seq(Chunks)
  /\ free \in Seq(Chunks)
  /\ fileEnd \in Ptr
  /\ pc \in {"idle", "delete"}
  /\ sel \in Queries \cup {NoQuery}
  /\ keep \subseteq Chunks
  /\ damaged \in BOOLEAN

\* What is reached from the root along child and brother links.
Live ==
  LET at[k \in 0 .. MaxChunks] ==
        IF k = 0 THEN {first} \ {0}
        ELSE LET es == at[k - 1]
             IN (es \cup UNION {{rec[x].child, rec[x].brother} : x \in es}) \ {0}
  IN at[MaxChunks]

\* The links down and the links up describe one tree, and its nodes are the
\* elements: whatever is inserted can be found, what is deleted cannot.
LinksAgree ==
  ~damaged =>
    /\ Live = Elements
    /\ \A e \in Elements :
         /\ \A b \in Brothers(rec[e].child) : rec[b].parent = e
         /\ IF rec[e].parent = 0 THEN Brothers(first) = {e}
            ELSE rec[e].parent \in Elements /\ e \in Brothers(rec[rec[e].parent].child)

\* The loop of GetElements, which trusts count and never looks for the end,
\* meets every element once, children before their parent, and ends above the
\* root.
ScanComplete ==
  ~damaged =>
    /\ count = Cardinality(Elements)
    /\ LET order == [k \in 1 .. count + 1 |-> Order[k]] IN
       /\ {order[k] : k \in 1 .. count} = Elements
       /\ order[count + 1] = 0
       /\ \A j, k \in 1 .. count : rec[order[j]].parent = order[k] => j < k

\* DeleteSchema refuses a schema by cnt_elements_: it is 0 only when no element
\* of the schema is left.
SchemaCounts ==
  ~damaged => \A s \in Schemas : cnt[s] = Cardinality({e \in Elements : rec[e].schema = s})

\* Every chunk is in the free list or in one element, once; and the hole that
\* the TODO in ValidateElementByPtr describes, the last free chunk, is always
\* the last chunk of the file, which has never been an id.
ChunksAccounted ==
  ~damaged =>
    /\ Len(free) + Cardinality({c \in 1 .. fileEnd : \A k \in 1 .. Len(free) : free[k] # c})
         = fileEnd
    /\ \A c \in 1 .. fileEnd :
         (\A k \in 1 .. Len(free) : free[k] # c) <=>
           (\E e \in Elements : \E k \in 1 .. Len(chain[e]) : chain[e][k] = c)
    /\ \A e, f \in Elements : \A j \in 1 .. Len(chain[e]), k \in 1 .. Len(chain[f]) :
         chain[e][j] = chain[f][k] => e = f /\ j = k
    /\ free # <<>> /\ free[Len(free)] = fileEnd

\* Paths of up to three elements.
Paths == UNION {[1 .. n -> Elements] : n \in 1 .. 3}

\* The first n elements go from the root through parents to their children.
Descends(path, n) ==
  \A k \in 1 .. n : rec[path[k]].parent = (IF k = 1 THEN 0 ELSE path[k - 1])

\* GetElementByPath finds exactly the paths that go from the root through
\* parents to their children, and its answer is undefined for exactly those that
\* go on below an element without children.
PathsAgree ==
  ~damaged =>
    \A path \in Paths :
      LET answer == GetElementByPath(path) IN
      /\ answer = "found" <=> Descends(path, Len(path))
      /\ answer = "undefined" <=>
           \E k \in 1 .. Len(path) - 1 :
             Descends(path, k) /\ \A e \in Elements : rec[e].parent # path[k]

\* The iterator of DeleteElements, which removes what it stands on, never
\* stands on a freed element.
IteratorLive == pc = "delete" /\ i < count /\ ~damaged => it \in Elements

\* DeleteElements removes exactly the elements it selects, save those with a
\* descendant it does not select.
DeletesExact == [][pc = "delete" /\ pc' = "idle" /\ ~damaged' => Live = keep]_vars

\* DeleteElements returns, although a removal does not advance its counter.
DeleteReturns == (pc = "delete") ~> (pc = "idle")

-----------------------------------------------------------------------------
(* The abstract tree: see ElementForest.                                   *)

RowAfter(u, s, row) ==
  IF s = u.schema /\ Check(s, row, u.if, u.is) THEN Written(u, row) ELSE row

Nodes == [e \in Live |-> [schema |-> rec[e].schema, parent |-> rec[e].parent,
                          row |-> rec[e].row]]

Forest == INSTANCE ElementForest WITH
  Ids <- Chunks, AllRows <- UNION {Rows(s) : s \in Schemas}, Changed <- RowAfter,
  tree <- Nodes

\* Up to the call that damages the file, every step is one of ElementForest.
ImplementsForest == Forest!Init /\ [][~damaged' => [Forest!Next]_Nodes]_vars

-----------------------------------------------------------------------------
(* What the documentation says and the code does not do.                   *)

\* README.md: "Deletion of the data elements that satisfy the given
\* conditions".
DeletesMatching == [][pc = "delete" /\ i >= count => Live = keep]_vars

\* README.md: "Update of the data elements that satisfy the given conditions":
\* of the elements of the query's schema, those that satisfy the condition are
\* changed, and no others.
UpdatesMatching ==
  [][\A u \in Updates : Update(u) =>
       \A e \in Elements : rec'[e].row = RowAfter(u, rec[e].schema, rec[e].row)]_vars

\* ReadStruct asserts that it gets a position: a path of ids that were answered
\* never makes it read at 0, which is the link of a leaf.
PathsReadElements == \A path \in Paths : ~ReadsAtZero(path)
=============================================================================
