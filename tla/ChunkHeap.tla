------------------------------ MODULE ChunkHeap ------------------------------
(***************************************************************************)
(* What the storage layer of Database.h promises to the code above it: a   *)
(* heap of structures.  A structure is written whole under a pointer no    *)
(* live structure has, is read back as it was written last, and is gone    *)
(* when it is freed; calls on one structure leave the others alone.        *)
(***************************************************************************)
EXTENDS Integers, Sequences

CONSTANTS
  Ptrs,    \* the pointers WriteBytesBatch may return
  MaxLen,  \* bound: chunks of the longest structure
  Values   \* what a structure may say

VARIABLE heap  \* pointer -> the chunks of the structure there

\* A structure of n chunks that says v.
Structure(v, n) == [k \in 1 .. n |-> <<v, n + 1 - k>>]

Live == DOMAIN heap

Init == heap = [p \in {} |-> <<>>]

Write(p, v, n) ==
  /\ p \notin Live
  /\ heap' = [q \in Live \cup {p} |-> IF q = p THEN Structure(v, n) ELSE heap[q]]

Free(p) ==
  /\ p \in Live
  /\ heap' = [q \in Live \ {p} |-> heap[q]]

Rewrite(p, v) ==
  /\ p \in Live
  /\ heap' = [heap EXCEPT ![p] = Structure(v, Len(heap[p]))]

Next ==
  \E p \in Ptrs :
    \/ \E v \in Values, n \in 1 .. MaxLen : Write(p, v, n)
    \/ Free(p)
    \/ \E v \in Values : Rewrite(p, v)

Spec == Init /\ [][Next]_heap

=============================================================================
