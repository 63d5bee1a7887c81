---------------------------- MODULE ElementForest ----------------------------
(***************************************************************************)
(* What the data-tree calls of the Database promise to their callers: a    *)
(* tree of elements, each of one schema, that grows by leaves, shrinks by  *)
(* leaves, and whose values change only where an update selects them.      *)
(***************************************************************************)
EXTENDS Integers

CONSTANTS Ids, Schemas, AllRows, Updates

\* Changed(u, s, row): the row an element of schema s has after the update u.
CONSTANT Changed(_, _, _)

VARIABLE tree     \* id -> [schema, parent, row]; parent 0 is above the root

Ids0 == {0} \cup Ids

Children(x) == {y \in DOMAIN tree : tree[y].parent = x}

Init == tree = [x \in {} |-> 0]

\* An element is added under an existing one, or as the root of no tree.
Insert(x, p, s, row) ==
  /\ x \notin DOMAIN tree
  /\ IF p = 0 THEN DOMAIN tree = {} ELSE p \in DOMAIN tree
  /\ tree' = [y \in DOMAIN tree \cup {x} |->
                IF y = x THEN [schema |-> s, parent |-> p, row |-> row] ELSE tree[y]]

\* Only leaves are deleted: no element loses its parent.
Delete(x) ==
  /\ x \in DOMAIN tree /\ Children(x) = {}
  /\ tree' = [y \in DOMAIN tree \ {x} |-> tree[y]]

Update(u) ==
  tree' = [y \in DOMAIN tree |->
             [tree[y] EXCEPT !.row = Changed(u, tree[y].schema, tree[y].row)]]

Next ==
  \/ \E x \in Ids, p \in Ids0, s \in Schemas, row \in AllRows : Insert(x, p, s, row)
  \/ \E x \in Ids : Delete(x)
  \/ \E u \in Updates : Update(u)

Spec == Init /\ [][Next]_tree
=============================================================================
