-------------------------- MODULE DatabaseFileProofs --------------------------
(***************************************************************************)
(* What survives crashes and failed writes, proved for all pages, lengths  *)
(* of structures and numbers of faults, with the last write of every call  *)
(* still in the buffer: the header of the stream is the one in memory      *)
(* between calls (unless a write failed); a structure that is held is read *)
(* as it was written; no header offers a chunk of one; and what the first  *)
(* kill can lose, by the call of the last access.                          *)
(***************************************************************************)
EXTENDS DatabaseFile, WalkProofs, SequenceTheorems, TLAPS

\* HeaderCurrent does not follow from itself: a call that has changed the
\* header in memory is over only behind the write of it, or behind a fault.
NoneFailed == \A k \in DOMAIN faults : faults[k] # "fail"

IInv == HeaderCurrent /\ faults \in Seq({"crash", "fail"})

\* The file is created by a call.
LEMMA InitIInv == Init => IInv
  BY DEF Init, IInv, HeaderCurrent, Idle

\* A fault is the last of those there have been.
LEMMA Faults ==
  ASSUME IInv, NEW kind \in {"crash", "fail"}, Strikes(kind)
  PROVE  /\ faults' \in Seq({"crash", "fail"})
         /\ kind = "crash" /\ NoneFailed' => NoneFailed
         /\ kind = "fail" => ~NoneFailed'
<1>1. faults' = Append(faults, kind) /\ faults \in Seq({"crash", "fail"})
    BY DEF Strikes, IInv
<1>2. /\ faults' \in Seq({"crash", "fail"})
      /\ DOMAIN faults \subseteq DOMAIN faults'
      /\ \A k \in DOMAIN faults : faults'[k] = faults[k]
      /\ Len(faults) + 1 \in DOMAIN faults' /\ faults'[Len(faults) + 1] = kind
    BY <1>1
<1> QED
    BY <1>2 DEF NoneFailed

\* A call ends behind the write of the header, or with a fault.
LEMMA NextIInv == IInv /\ [Next]_vars => IInv'
<1> SUFFICES ASSUME IInv, [Next]_vars PROVE IInv'
    OBVIOUS
<1> USE DEF IInv, HeaderCurrent, Idle
<1>1. ASSUME NEW n \in 1 .. MaxLen, NEW v \in Values, WriteBegin(n, v) PROVE IInv'
    BY <1>1 DEF WriteBegin
<1>2. ASSUME NEW p \in DOMAIN held, FreeBegin(p) PROVE IInv'
    BY <1>2 DEF FreeBegin
<1>3. CASE Step
    <2>1. CASE InitPage
        BY <2>1 DEF InitPage
    <2>2. CASE InitHeader
        BY <2>2 DEF InitHeader, PutHeader, Return
    <2>3. CASE WriteChunk
        BY <2>3 DEF WriteChunk
    <2>4. CASE WriteNeedsPage
        BY <2>4 DEF WriteNeedsPage
    <2>5. CASE WritePageHeader
        BY <2>5 DEF WritePageHeader, PutHeader
    <2>6. CASE WriteChunkToPage
        BY <2>6 DEF WriteChunkToPage
    <2>7. CASE WriteLast
        BY <2>7 DEF WriteLast
    <2>8. CASE LastPage
        BY <2>8 DEF LastPage
    <2>9. CASE LastPageHeader
        BY <2>9 DEF LastPageHeader, PutHeader
    <2>10. CASE WriteHeader
        BY <2>10 DEF WriteHeader, PutHeader
    <2>11. CASE FreeChunk
        BY <2>11 DEF FreeChunk
    <2>12. CASE FreeJoin
        BY <2>12 DEF FreeJoin
    <2>13. CASE FreeHeader
        BY <2>13 DEF FreeHeader, PutHeader
    <2> QED
        BY <1>3, <2>1, <2>2, <2>3, <2>4, <2>5, <2>6, <2>7, <2>8, <2>9, <2>10, <2>11, <2>12, <2>13
        DEF Step
<1>4. CASE Crash
    <2>1. mem' = hdr' /\ Strikes("crash")
        BY <1>4 DEF Crash
    <2> QED
        BY <2>1, Faults
<1>5. CASE Fail
    <2>1. Strikes("fail")
        BY <1>5 DEF Fail
    <2> QED
        BY <2>1, Faults DEF NoneFailed
<1>6. CASE Reopen
    BY <1>6 DEF Reopen, Load, file
<1>7. CASE UNCHANGED vars
    BY <1>7 DEF vars, file, call
<1> QED
    BY <1>1, <1>2, <1>3, <1>4, <1>5, <1>6, <1>7 DEF Next

\* Between calls the header that the stream has, in its buffer or in the file,
\* is the one in memory, after any number of crashes, unless a write has failed.
THEOREM HeaderStaysCurrent == Spec => []HeaderCurrent
<1>1. IInv => HeaderCurrent
    BY DEF IInv
<1> QED
    BY InitIInv, NextIInv, <1>1, PTL DEF Spec

-----------------------------------------------------------------------------
(* What faults cannot break.  The chunks fall into the structures that are *)
(* held, whose chunks no call writes; the chunks the two headers and the   *)
(* call in progress can still reach, whatever the signs of their links;    *)
(* and the ones that are lost, of which nothing is known.                  *)

Abs(x) == IF x < 0 THEN -x ELSE x

\* A write that has put a chunk in place or waits for a page is at a chunk.
Placed == pc \in {"pageHeader", "chunkToPage", "lastPage", "lastPageHeader", "writeHeader"} => cur > 0

\* The shapes of the variables.  The header in memory and the one in the file
\* agree on the end of the file at every moment.
Typed ==
  /\ link \in Seq(Int) /\ DOMAIN data = DOMAIN link
  /\ hdr \in [end : Nat, free : Int] /\ mem \in [end : Nat, free : Int]
  /\ hdr.end = mem.end /\ mem.end <= Len(link)
  /\ cur \in Int /\ prev \in Int /\ mark \in Int /\ Placed

\* A is the set of the chunks that can be reached; rank descends along links
\* and B bounds it.
Inside(A, rank, B) ==
  /\ A \subseteq 1 .. mem.end
  /\ B \in Nat /\ \A c \in 1 .. mem.end : rank[c] \in Nat /\ rank[c] <= B

Alive(A, rank) ==
  \A c \in A : link[c] # 0 => Abs(link[c]) \in A /\ rank[Abs(link[c])] < rank[c]

Heads(A) == \A h \in {hdr.free, mem.free} : h # 0 => Abs(h) \in A

\* s is a row of m chunks, each linked to the next.
Row(s, m, rank) ==
  /\ s \in [1 .. m -> 1 .. mem.end]
  /\ \A k \in 1 .. m - 1 : link[s[k]] = s[k + 1] /\ rank[s[k + 1]] < rank[s[k]]

\* chain[p] is the row of the structure held at p, out of the reach of all calls
\* and apart from the other structures.
Structs(A, rank, chain) ==
  /\ \A p \in DOMAIN held :
       /\ held[p][2] \in Nat \ {0}
       /\ Row(chain[p], held[p][2], rank)
       /\ chain[p][1] = p /\ link[chain[p][held[p][2]]] = 0
       /\ \A k \in 1 .. held[p][2] : data[chain[p][k]] = held[p] /\ chain[p][k] \notin A
  /\ \A p, q \in DOMAIN held :
       \A j \in 1 .. held[p][2], k \in 1 .. held[q][2] : chain[p][j] = chain[q][k] => p = q

\* The page is in the file and its header is not.
PageReady ==
  pc \in {"initHeader", "pageHeader", "lastPageHeader"} =>
    /\ mem.end + ChunksPerPage <= Len(link)
    /\ \A c \in PageAt : link[c] = IF c = mem.end + ChunksPerPage THEN 0 ELSE -(c + 1)

\* w is the row of the chunks WriteBytesBatch has written, and the one it is at.
Writing(A, rank, w) ==
  pc \in {"chunk", "pageHeader", "chunkToPage", "lastPage", "lastPageHeader", "writeHeader"} /\ cur > 0 =>
    LET m == val[2] - left + 1 IN
    /\ val[2] \in Nat /\ left \in 1 .. val[2]
    /\ Row(w, m, rank) /\ w[1] = mark /\ w[m] = cur
    /\ \A k \in 1 .. m : w[k] \in A
    /\ \A k \in 1 .. m - 1 : data[w[k]] = val /\ rank[cur] < rank[w[k]]
    /\ pc \in {"pageHeader", "chunkToPage"} => left > 1
    /\ pc = "chunkToPage" => mem.free > 0 /\ rank[mem.free] < rank[cur]
    /\ pc \in {"lastPage", "lastPageHeader", "writeHeader"} =>
         /\ left = 1 /\ link[cur] = 0 /\ data[cur] = val
         /\ mem.free # 0 => rank[Abs(mem.free)] < rank[cur]

\* H is the structure FreeBytesBatch takes apart, not joined to the list yet.
Taking(A, rank, H) ==
  pc = "freeChunk" =>
    /\ H \subseteq A
    /\ \A c \in H : link[c] # 0 => Abs(link[c]) \in H
    /\ mark # 0 => Abs(mark) \in A /\ \A c \in H : rank[Abs(mark)] < rank[c]
    /\ cur # 0 => Abs(cur) \in H
    /\ cur = 0 => prev \in H

Shape(A, rank, B, chain, w, H) ==
  /\ Typed /\ Inside(A, rank, B) /\ Alive(A, rank) /\ Heads(A)
  /\ Structs(A, rank, chain) /\ PageReady
  /\ Writing(A, rank, w) /\ Taking(A, rank, H)

Apart == \E A, rank, B, chain, w, H : Shape(A, rank, B, chain, w, H)

-----------------------------------------------------------------------------

\* The chunks behind a header are in the file.
LEMMA Covered ==
  ASSUME Typed
  PROVE  /\ mem.end \in Nat /\ Len(link) \in Nat /\ DOMAIN link = 1 .. Len(link)
         /\ \A c \in 1 .. mem.end : c \in DOMAIN link /\ c \in Nat /\ c > 0 /\ link[c] \in Int /\ Abs(c) = c
         /\ ChunksPerPage \in Nat \ {0} /\ MaxLen \in Nat
<1>1. mem.end \in Nat /\ mem.end <= Len(link)
    BY DEF Typed
<1>2. Len(link) \in Nat /\ DOMAIN link = 1 .. Len(link) /\ \A c \in DOMAIN link : link[c] \in Int
    BY LenProperties DEF Typed
<1> QED
    BY <1>1, <1>2, SizesAssumption DEF Abs

\* What the write of one chunk changes.
LEMMA PutChunk ==
  ASSUME Typed, NEW c \in 1 .. mem.end, NEW l \in Int, NEW v, Put(c, l, v)
  PROVE  /\ link' \in Seq(Int) /\ Len(link') = Len(link) /\ DOMAIN data' = DOMAIN link'
         /\ hdr' = hdr
         /\ \A d \in 1 .. mem.end : /\ link'[d] = IF d = c THEN l ELSE link[d]
                                    /\ data'[d] = IF d = c THEN v ELSE data[d]
<1>1. c \in 1 .. Len(link) /\ DOMAIN link = 1 .. Len(link) /\ 1 .. mem.end \subseteq DOMAIN link
    BY Covered
<1>2. link' = [link EXCEPT ![c] = l] /\ data' = [data EXCEPT ![c] = v] /\ hdr' = hdr
    BY DEF Put
<1>3. link' \in Seq(Int) /\ Len(link') = Len(link)
    BY <1>1, <1>2, ExceptSeq DEF Typed
<1>4. DOMAIN link' = DOMAIN link /\ DOMAIN data' = DOMAIN data
    BY <1>2
<1> QED
    BY <1>1, <1>2, <1>3, <1>4 DEF Typed

\* What the write of a page changes: nothing up to the end of the file the
\* header knows.
LEMMA PageWritten ==
  ASSUME Typed, WritePage
  PROVE  /\ link' \in Seq(Int) /\ DOMAIN data' = DOMAIN link' /\ hdr' = hdr
         /\ mem.end + ChunksPerPage <= Len(link')
         /\ \A c \in 1 .. mem.end : link'[c] = link[c] /\ data'[c] = data[c]
         /\ \A c \in PageAt : link'[c] = IF c = mem.end + ChunksPerPage THEN 0 ELSE -(c + 1)
<1> DEFINE last == mem.end + ChunksPerPage
           size == IF Len(link) > last THEN Len(link) ELSE last
<1>1. last \in Nat /\ size \in Nat /\ last <= size /\ mem.end < last /\ mem.end \in Nat
    BY Covered
<1>2. /\ link' = [c \in 1 .. size |-> IF c \notin PageAt THEN link[c]
                                      ELSE IF c = last THEN 0 ELSE -(c + 1)]
      /\ data' = [c \in 1 .. size |-> IF c \in PageAt THEN Zero ELSE data[c]]
      /\ hdr' = hdr
    BY DEF WritePage
<1>3. \A c \in 1 .. size : c \notin PageAt => c \in DOMAIN link
    <2>1. DOMAIN link = 1 .. Len(link) /\ Len(link) \in Nat /\ mem.end <= Len(link)
        BY Covered DEF Typed
    <2> QED
        BY <1>1, <2>1 DEF PageAt
<1>4. \A c \in PageAt : c \in 1 .. size /\ c \in Int
    BY <1>1 DEF PageAt
<1>5. link' \in [1 .. size -> Int]
    <2>1. \A c \in DOMAIN link : link[c] \in Int
        BY Covered, LenProperties DEF Typed
    <2> HIDE DEF size, last
    <2> QED
        BY <1>1, <1>2, <1>3, <1>4, <2>1
<1>6. link' \in Seq(Int) /\ Len(link') = size
    <2>1. link' \in Seq(Int)
        BY <1>1, <1>5, SeqDef
    <2>2. DOMAIN link' = 1 .. Len(link') /\ DOMAIN link' = 1 .. size /\ Len(link') \in Nat
        BY <1>5, <2>1, LenProperties
    <2> QED
        BY <1>1, <2>1, <2>2
<1>7. \A c \in 1 .. mem.end : c \in 1 .. size /\ c \notin PageAt
    BY <1>1 DEF PageAt
<1> HIDE DEF size
<1> QED
    BY <1>1, <1>2, <1>4, <1>5, <1>6, <1>7

\* A structure nobody writes stays as it is.
LEMMA StructsKept ==
  ASSUME Typed, NEW A, NEW A2, NEW rank, NEW rank2, NEW chain, Structs(A, rank, chain),
         held' = held, mem'.end \in Nat, mem.end <= mem'.end,
         \A c \in 1 .. mem.end : c \notin A =>
           link'[c] = link[c] /\ data'[c] = data[c] /\ c \notin A2,
         \A c, d \in 1 .. mem.end : rank[c] < rank[d] => rank2[c] < rank2[d]
  PROVE  Structs(A2, rank2, chain)'
<1>1. 1 .. mem.end \subseteq 1 .. mem'.end
    BY Covered
<1>2. ASSUME NEW p \in DOMAIN held
      PROVE  /\ held[p][2] \in Nat \ {0}
             /\ Row(chain[p], held[p][2], rank2)'
             /\ chain[p][1] = p /\ link'[chain[p][held[p][2]]] = 0
             /\ \A k \in 1 .. held[p][2] : data'[chain[p][k]] = held[p] /\ chain[p][k] \notin A2
    <2> DEFINE n == held[p][2]
               s == chain[p]
    <2>1. /\ n \in Nat \ {0} /\ s \in [1 .. n -> 1 .. mem.end]
          /\ \A k \in 1 .. n - 1 : link[s[k]] = s[k + 1] /\ rank[s[k + 1]] < rank[s[k]]
          /\ s[1] = p /\ link[s[n]] = 0
          /\ \A k \in 1 .. n : data[s[k]] = held[p] /\ s[k] \notin A
        BY DEF Structs, Row
    <2> HIDE DEF n, s
    <2>2. \A k \in 1 .. n : /\ s[k] \in 1 .. mem.end /\ link'[s[k]] = link[s[k]]
                            /\ data'[s[k]] = data[s[k]] /\ s[k] \notin A2
        BY <2>1
    <2>3. \A k \in 1 .. n - 1 : link'[s[k]] = s[k + 1] /\ rank2[s[k + 1]] < rank2[s[k]]
        <3>1. \A k \in 1 .. n - 1 : k \in 1 .. n /\ k + 1 \in 1 .. n
            BY <2>1
        <3> QED
            BY <2>1, <2>2, <3>1
    <2>4. s \in [1 .. n -> 1 .. mem'.end]
        BY <1>1, <2>1
    <2> QED
        BY <2>1, <2>2, <2>3, <2>4 DEF Row, n, s
<1> QED
    BY <1>2 DEF Structs

-----------------------------------------------------------------------------
(* One lemma per action.                                                   *)

LEMMA InitApart == Init => Apart
<1> SUFFICES ASSUME Init PROVE Apart
    OBVIOUS
<1>1. /\ link = <<>> /\ data = <<>> /\ hdr = [end |-> 0, free |-> 0] /\ mem = hdr
      /\ pc = "initPage" /\ cur = 0 /\ prev = 0 /\ mark = 0 /\ DOMAIN held = {}
    BY DEF Init
<1>2. Typed
    <2>1. link \in Seq(Int) /\ Len(link) = 0
        BY <1>1, EmptySeq
    <2> QED
        BY <1>1, <2>1 DEF Typed, Placed
<1>3. Inside({}, <<>>, 0) /\ Alive({}, <<>>) /\ Heads({})
    BY <1>1 DEF Inside, Alive, Heads
<1>4. Structs({}, <<>>, <<>>)
    BY <1>1 DEF Structs
<1>5. PageReady /\ Writing({}, <<>>, <<>>) /\ Taking({}, <<>>, {})
    BY <1>1 DEF PageReady, Writing, Taking
<1>6. Shape({}, <<>>, 0, <<>>, <<>>, {})
    BY <1>2, <1>3, <1>4, <1>5 DEF Shape
<1> QED
    BY <1>6 DEF Apart

\* A page is written behind the end of the file the header knows.
LEMMA PageApart ==
  ASSUME NEW A, NEW rank, NEW B, NEW chain, NEW w, NEW H, Shape(A, rank, B, chain, w, H),
         InitPage \/ WriteNeedsPage \/ LastPage
  PROVE  Apart'
<1>1. /\ WritePage
      /\ UNCHANGED <<mem, cur, prev, left, mark, val, held>>
      /\ \/ pc = "initPage" /\ pc' = "initHeader"
         \/ pc = "chunk" /\ pc' = "pageHeader" /\ left > 1 /\ cur > 0
         \/ pc = "lastPage" /\ pc' = "lastPageHeader"
    BY DEF InitPage, WriteNeedsPage, LastPage
<1>s. /\ Typed /\ Inside(A, rank, B) /\ Alive(A, rank) /\ Heads(A)
      /\ Structs(A, rank, chain) /\ Writing(A, rank, w)
    BY DEF Shape
<1>2. /\ link' \in Seq(Int) /\ DOMAIN data' = DOMAIN link' /\ hdr' = hdr
      /\ mem.end + ChunksPerPage <= Len(link')
      /\ \A c \in 1 .. mem.end : link'[c] = link[c] /\ data'[c] = data[c]
      /\ \A c \in PageAt : link'[c] = IF c = mem.end + ChunksPerPage THEN 0 ELSE -(c + 1)
    BY <1>1, <1>s, PageWritten
<1>3. mem.end \in Nat /\ ChunksPerPage \in Nat \ {0} /\ Len(link') \in Nat
    <2>1. Len(link') \in Nat
        BY <1>2, LenProperties
    <2> QED
        BY <1>s, <2>1, Covered
<1>4. Typed'
    BY <1>1, <1>2, <1>3, <1>s DEF Typed, Placed
<1>5. Inside(A, rank, B)' /\ Heads(A)'
    BY <1>1, <1>2, <1>s DEF Inside, Heads
<1>6. Alive(A, rank)'
    BY <1>2, <1>s DEF Inside, Alive
<1>7. Structs(A, rank, chain)'
    BY <1>1, <1>2, <1>3, <1>s, StructsKept
<1>8. PageReady'
    BY <1>1, <1>2 DEF PageReady, PageAt
<1>9. Writing(A, rank, w)'
    <2> SUFFICES ASSUME pc # "initPage", cur > 0 PROVE Writing(A, rank, w)'
        BY <1>1 DEF Writing
    <2> PICK m : m = val[2] - left + 1
        OBVIOUS
    <2>1. /\ val[2] \in Nat /\ left \in 1 .. val[2]
          /\ Row(w, m, rank) /\ w[1] = mark /\ w[m] = cur
          /\ \A k \in 1 .. m : w[k] \in A
          /\ \A k \in 1 .. m - 1 : data[w[k]] = val /\ rank[cur] < rank[w[k]]
          /\ pc = "lastPage" =>
               /\ left = 1 /\ link[cur] = 0 /\ data[cur] = val
               /\ mem.free # 0 => rank[Abs(mem.free)] < rank[cur]
        BY <1>1, <1>s DEF Writing
    <2>2. m \in Nat /\ m >= 1
        BY <2>1
    <2>3. \A k \in 1 .. m : w[k] \in 1 .. mem.end
        BY <2>1, <1>s DEF Inside
    <2>4. Row(w, m, rank)' /\ \A k \in 1 .. m - 1 : data'[w[k]] = val
        <3>1. \A k \in 1 .. m - 1 : k \in 1 .. m
            BY <2>2
        <3> QED
            BY <1>1, <1>2, <2>1, <2>3, <3>1 DEF Row
    <2>5. link'[cur] = link[cur] /\ data'[cur] = data[cur]
        BY <1>2, <2>1, <2>2, <2>3
    <2> QED
        BY <1>1, <2>1, <2>4, <2>5 DEF Writing
<1>10. Taking(A, rank, H)'
    BY <1>1 DEF Taking
<1>11. Shape(A, rank, B, chain, w, H)'
    BY <1>4, <1>5, <1>6, <1>7, <1>8, <1>9, <1>10 DEF Shape
<1> QED
    BY <1>11 DEF Apart

\* The header follows the page: its chunks are the only ones the header offers,
\* and they come behind all others.
LEMMA HeaderApart ==
  ASSUME NEW A, NEW rank, NEW B, NEW chain, NEW w, NEW H, Shape(A, rank, B, chain, w, H),
         InitHeader \/ WritePageHeader \/ LastPageHeader
  PROVE  Apart'
<1>1. /\ mem' = [end |-> mem.end + ChunksPerPage, free |-> mem.end + 1] /\ hdr' = mem'
      /\ UNCHANGED <<link, data, held>>
      /\ pc \in {"initHeader", "pageHeader", "lastPageHeader"}
      /\ \/ pc' = "idle" /\ cur' = 0 /\ prev' = 0 /\ mark' = 0
         \/ /\ UNCHANGED <<cur, prev, left, mark, val>>
            /\ \/ pc = "pageHeader" /\ pc' = "chunkToPage"
               \/ pc = "lastPageHeader" /\ pc' = "writeHeader"
    BY DEF InitHeader, WritePageHeader, LastPageHeader, PutHeader, WithPage, Return
<1>s. /\ Typed /\ Inside(A, rank, B) /\ Alive(A, rank) /\ Heads(A)
      /\ Structs(A, rank, chain) /\ PageReady /\ Writing(A, rank, w)
    BY DEF Shape
<1>2. mem.end \in Nat /\ ChunksPerPage \in Nat \ {0}
    BY <1>s, Covered
<1>3. /\ mem.end + ChunksPerPage <= Len(link)
      /\ \A c \in PageAt : link[c] = IF c = mem.end + ChunksPerPage THEN 0 ELSE -(c + 1)
    BY <1>1, <1>s DEF PageReady
<1>4. mem'.end = mem.end + ChunksPerPage /\ mem'.free = mem.end + 1 /\ hdr'.free = mem.end + 1
    BY <1>1
<1> PICK A2 : A2 = A \cup PageAt
    OBVIOUS
<1> PICK B2 : B2 = B + ChunksPerPage + 1
    OBVIOUS
<1> PICK rank2 : \A c \in 1 .. mem.end + ChunksPerPage :
                   rank2[c] = IF c <= mem.end THEN rank[c] + ChunksPerPage + 1
                              ELSE mem.end + ChunksPerPage + 1 - c
    <2> DEFINE r == [c \in 1 .. mem.end + ChunksPerPage |->
                       IF c <= mem.end THEN rank[c] + ChunksPerPage + 1
                       ELSE mem.end + ChunksPerPage + 1 - c]
    <2>1. \A c \in 1 .. mem.end + ChunksPerPage :
            r[c] = IF c <= mem.end THEN rank[c] + ChunksPerPage + 1
                   ELSE mem.end + ChunksPerPage + 1 - c
        OBVIOUS
    <2> HIDE DEF r
    <2> QED
        BY <2>1
<1>5. /\ \A c \in 1 .. mem.end : /\ rank2[c] = rank[c] + ChunksPerPage + 1
                                 /\ rank[c] \in Nat /\ rank[c] <= B /\ c \notin PageAt
      /\ \A c \in PageAt : rank2[c] = mem.end + ChunksPerPage + 1 - c
      /\ B \in Nat /\ A \subseteq 1 .. mem.end
    BY <1>2, <1>s DEF Inside, PageAt
<1>6. /\ \A c \in PageAt : c \in 1 .. mem.end + ChunksPerPage /\ c > mem.end /\ c \in Int
      /\ mem.end + 1 \in PageAt
      /\ \A c \in PageAt : c # mem.end + ChunksPerPage => c + 1 \in PageAt
    BY <1>2 DEF PageAt
<1>7. Typed'
    BY <1>1, <1>2, <1>3, <1>s DEF Typed, Placed
<1>8. Inside(A2, rank2, B2)'
    <2>1. A2 \subseteq 1 .. mem.end + ChunksPerPage /\ B2 \in Nat
        <3>1. 1 .. mem.end \subseteq 1 .. mem.end + ChunksPerPage
            BY <1>2
        <3>2. \A c \in A2 : c \in 1 .. mem.end + ChunksPerPage
            BY <1>5, <1>6, <3>1, Zenon
        <3>3. B2 \in Nat
            BY <1>2, <1>5
        <3> QED
            BY <3>2, <3>3, Zenon
    <2>2. \A c \in 1 .. mem.end + ChunksPerPage : c \in 1 .. mem.end \/ c \in PageAt
        BY <1>2 DEF PageAt
    <2>3. \A c \in 1 .. mem.end + ChunksPerPage : rank2[c] \in Nat /\ rank2[c] <= B2
        BY <1>2, <1>5, <1>6, <2>2
    <2> QED
        BY <1>4, <2>1, <2>3 DEF Inside
<1>9. Alive(A2, rank2)'
    <2>1. ASSUME NEW c \in A, link[c] # 0 PROVE Abs(link[c]) \in A /\ rank2[Abs(link[c])] < rank2[c]
        <3>1. Abs(link[c]) \in A /\ rank[Abs(link[c])] < rank[c]
            BY <1>s, <2>1 DEF Alive
        <3>2. c \in 1 .. mem.end /\ Abs(link[c]) \in 1 .. mem.end
            BY <1>5, <3>1
        <3> QED
            BY <1>2, <1>5, <3>1, <3>2
    <2>2. ASSUME NEW c \in PageAt, link[c] # 0 PROVE Abs(link[c]) \in PageAt /\ rank2[Abs(link[c])] < rank2[c]
        <3>1. link[c] = -(c + 1) /\ c + 1 \in PageAt
            BY <1>3, <1>6, <2>2
        <3>2. Abs(link[c]) = c + 1
            BY <1>2, <1>6, <3>1 DEF Abs
        <3> QED
            BY <1>2, <1>5, <1>6, <3>1, <3>2
    <2> QED
        BY <1>1, <2>1, <2>2 DEF Alive
<1>10. Heads(A2)'
    <2>1. Abs(mem.end + 1) = mem.end + 1
        BY <1>2 DEF Abs
    <2> QED
        BY <1>4, <1>6, <2>1 DEF Heads
<1>11. \A c, d \in 1 .. mem.end : rank[c] < rank[d] => rank2[c] < rank2[d]
    BY <1>2, <1>5
<1>12. Structs(A2, rank2, chain)'
    <2>1. \A c \in 1 .. mem.end : c \notin A => c \notin A2
        BY <1>5
    <2>2. mem'.end \in Nat /\ mem.end <= mem'.end
        BY <1>2, <1>4
    <2> QED
        BY <1>1, <1>11, <1>s, <2>1, <2>2, StructsKept
<1>13. PageReady'
    BY <1>1 DEF PageReady
<1>14. Writing(A2, rank2, w)'
    <2> SUFFICES ASSUME pc \in {"pageHeader", "lastPageHeader"}, cur > 0, UNCHANGED <<cur, left, mark, val>>,
                        pc' = IF pc = "pageHeader" THEN "chunkToPage" ELSE "writeHeader"
                 PROVE  Writing(A2, rank2, w)'
        BY <1>1 DEF Writing
    <2> PICK m : m = val[2] - left + 1
        OBVIOUS
    <2>1. /\ val[2] \in Nat /\ left \in 1 .. val[2]
          /\ Row(w, m, rank) /\ w[1] = mark /\ w[m] = cur
          /\ \A k \in 1 .. m : w[k] \in A
          /\ \A k \in 1 .. m - 1 : data[w[k]] = val /\ rank[cur] < rank[w[k]]
          /\ pc = "pageHeader" => left > 1
          /\ pc = "lastPageHeader" => left = 1 /\ link[cur] = 0 /\ data[cur] = val
        BY <1>s DEF Writing
    <2>2. m \in Nat /\ m >= 1 /\ m \in 1 .. m /\ \A k \in 1 .. m - 1 : k \in 1 .. m /\ k + 1 \in 1 .. m
        BY <2>1
    <2>3. \A k \in 1 .. m : w[k] \in 1 .. mem.end /\ w[k] \in A2
        BY <1>5, <2>1
    <2>4. cur \in 1 .. mem.end
        BY <2>1, <2>2, <2>3
    <2>5. Row(w, m, rank2)'
        <3>1. w \in [1 .. m -> 1 .. mem.end + ChunksPerPage]
            <4>1. 1 .. mem.end \subseteq 1 .. mem.end + ChunksPerPage
                BY <1>2
            <4> QED
                BY <2>1, <4>1 DEF Row
        <3> QED
            BY <1>1, <1>4, <1>11, <2>1, <2>2, <2>3, <3>1 DEF Row
    <2>6. \A k \in 1 .. m - 1 : rank2[cur] < rank2[w[k]]
        BY <1>11, <2>1, <2>2, <2>3, <2>4
    <2>7. rank2[mem.end + 1] < rank2[cur] /\ mem.end + 1 > 0 /\ Abs(mem.end + 1) = mem.end + 1
        BY <1>2, <1>5, <1>6, <2>4 DEF Abs
    <2>8. /\ \A k \in 1 .. m : w[k] \in A2
          /\ \A k \in 1 .. m - 1 : data'[w[k]] = val /\ rank2[cur] < rank2[w[k]]
        BY <1>1, <2>1, <2>3, <2>6
    <2>9. /\ pc' = "chunkToPage" => left > 1 /\ mem'.free > 0 /\ rank2[mem'.free] < rank2[cur]
          /\ pc' = "writeHeader" => /\ left = 1 /\ link'[cur] = 0 /\ data'[cur] = val
                                    /\ rank2[Abs(mem'.free)] < rank2[cur]
          /\ pc' \in {"chunkToPage", "writeHeader"}
        BY <1>1, <1>4, <2>1, <2>7
    <2> QED
        BY <2>1, <2>5, <2>8, <2>9 DEF Writing
<1>15. Taking(A2, rank2, H)'
    BY <1>1 DEF Taking
<1>16. Shape(A2, rank2, B2, chain, w, H)'
    BY <1>7, <1>8, <1>9, <1>10, <1>12, <1>13, <1>14, <1>15 DEF Shape
<1> QED
    BY <1>16 DEF Apart

-----------------------------------------------------------------------------
(* WriteBytesBatch.                                                        *)

LEMMA WriteBeginApart ==
  ASSUME NEW A, NEW rank, NEW B, NEW chain, NEW w, NEW H, Shape(A, rank, B, chain, w, H),
         NEW n \in 1 .. MaxLen, NEW v, WriteBegin(n, v)
  PROVE  Apart'
<1>1. /\ mem.free # 0 /\ pc' = "chunk" /\ cur' = mem.free /\ left' = n
      /\ mark' = mem.free /\ val' = <<v, n>>
      /\ UNCHANGED <<link, data, hdr, mem, prev, held>>
    BY DEF WriteBegin, file
<1>s. /\ Typed /\ Inside(A, rank, B) /\ Alive(A, rank) /\ Heads(A) /\ Structs(A, rank, chain)
    BY DEF Shape
<1>2. mem.free \in Int /\ Abs(mem.free) \in A /\ n \in Nat /\ n >= 1 /\ A \subseteq 1 .. mem.end
    <2>1. MaxLen \in Nat
        BY SizesAssumption
    <2> QED
        BY <1>1, <1>s, <2>1 DEF Typed, Heads, Inside
<1>3. Typed' /\ Inside(A, rank, B)' /\ Alive(A, rank)' /\ Heads(A)'
    BY <1>1, <1>2, <1>s DEF Typed, Placed, Inside, Alive, Heads
<1>4. Structs(A, rank, chain)'
    BY <1>1, <1>s, StructsKept, Covered
<1>5. PageReady' /\ Taking(A, rank, H)'
    BY <1>1 DEF PageReady, Taking
<1> PICK f : f = mem.free
    OBVIOUS
<1> PICK w2 : w2 \in [1 .. 1 -> {f}]
    <2>1. [k \in 1 .. 1 |-> f] \in [1 .. 1 -> {f}]
        OBVIOUS
    <2> QED
        BY <2>1, Zenon
<1>6. Writing(A, rank, w2)'
    <2> SUFFICES ASSUME f > 0 PROVE Writing(A, rank, w2)'
        BY <1>1 DEF Writing
    <2>1. f \in A /\ w2[1] = f /\ n - n + 1 = 1
        BY <1>2 DEF Abs
    <2>2. Row(w2, 1, rank)'
        <3>1. w2 \in [1 .. 1 -> 1 .. mem.end]
            BY <1>2, <2>1
        <3> QED
            BY <1>1, <3>1 DEF Row
    <2>3. val'[2] = n
        BY <1>1
    <2>4. val'[2] - left' + 1 = 1
        BY <1>1, <1>2, <2>3
    <2> QED
        BY <1>1, <1>2, <2>1, <2>2, <2>3, <2>4 DEF Writing
<1>7. Shape(A, rank, B, chain, w2, H)'
    BY <1>3, <1>4, <1>5, <1>6 DEF Shape
<1> QED
    BY <1>7 DEF Apart

\* What Writing says of a call at a chunk.
LEMMA AtChunk ==
  ASSUME NEW A, NEW rank, NEW B, NEW w, Typed, Inside(A, rank, B), Writing(A, rank, w),
         pc \in {"chunk", "pageHeader", "chunkToPage", "lastPage", "lastPageHeader", "writeHeader"},
         cur > 0, NEW m, m = val[2] - left + 1
  PROVE  /\ val[2] \in Nat /\ left \in 1 .. val[2] /\ m \in Nat /\ m \in 1 .. m
         /\ cur \in A /\ cur \in 1 .. mem.end /\ link[cur] \in Int
         /\ w \in [1 .. m -> 1 .. mem.end] /\ w[1] = mark /\ w[m] = cur
         /\ \A k \in 1 .. m : w[k] \in A
         /\ \A k \in 1 .. m - 1 : /\ k \in 1 .. m /\ k + 1 \in 1 .. m /\ w[k] # cur
                                  /\ link[w[k]] = w[k + 1] /\ rank[w[k + 1]] < rank[w[k]]
                                  /\ data[w[k]] = val /\ rank[cur] < rank[w[k]]
<1>1. /\ val[2] \in Nat /\ left \in 1 .. val[2]
      /\ Row(w, m, rank) /\ w[1] = mark /\ w[m] = cur
      /\ \A k \in 1 .. m : w[k] \in A
      /\ \A k \in 1 .. m - 1 : data[w[k]] = val /\ rank[cur] < rank[w[k]]
    BY DEF Writing
<1>2. m \in Nat /\ m \in 1 .. m /\ \A k \in 1 .. m - 1 : k \in 1 .. m /\ k + 1 \in 1 .. m
    BY <1>1
<1>3. cur \in A /\ cur \in 1 .. mem.end /\ link[cur] \in Int
    BY <1>1, <1>2, Covered DEF Inside
<1>4. ~(rank[cur] < rank[cur])
    BY <1>3 DEF Inside
<1> QED
    BY <1>1, <1>2, <1>3, <1>4 DEF Row

\* Writing a chunk that can be reached, with a link that leads on to one of
\* lower rank, leaves everything else as it was.
LEMMA PutKeeps ==
  ASSUME NEW A, NEW rank, NEW B, NEW chain,
         Typed, Inside(A, rank, B), Alive(A, rank), Structs(A, rank, chain),
         NEW c \in A, NEW l \in Int, NEW v, Put(c, l, v),
         l # 0 => Abs(l) \in A /\ rank[Abs(l)] < rank[c],
         mem' \in [end : Nat, free : Int], mem'.end = mem.end, held' = held,
         cur' \in Int, prev' \in Int, mark' \in Int, Placed'
  PROVE  /\ (Typed /\ Inside(A, rank, B) /\ Alive(A, rank) /\ Structs(A, rank, chain))'
         /\ hdr' = hdr
         /\ \A d \in 1 .. mem.end : /\ link'[d] = IF d = c THEN l ELSE link[d]
                                    /\ data'[d] = IF d = c THEN v ELSE data[d]
<1>1. c \in 1 .. mem.end
    BY DEF Inside
<1>2. /\ link' \in Seq(Int) /\ Len(link') = Len(link) /\ DOMAIN data' = DOMAIN link'
      /\ hdr' = hdr
      /\ \A d \in 1 .. mem.end : /\ link'[d] = IF d = c THEN l ELSE link[d]
                                 /\ data'[d] = IF d = c THEN v ELSE data[d]
    BY <1>1, PutChunk
<1>3. Typed'
    BY <1>2 DEF Typed
<1>4. Inside(A, rank, B)'
    BY DEF Inside
<1>5. Alive(A, rank)'
    BY <1>2 DEF Alive, Inside
<1>6. Structs(A, rank, chain)'
    <2>1. mem'.end \in Nat /\ mem.end <= mem'.end
        BY Covered
    <2> QED
        BY <1>2, <2>1, StructsKept
<1> QED
    BY <1>2, <1>3, <1>4, <1>5, <1>6

\* The link of a chunk, with the other sign, leads to the same chunk.
LEMMA OtherSign ==
  ASSUME NEW x \in Int
  PROVE  Abs(-x) = Abs(x) /\ -x \in Int /\ (-x # 0 <=> x # 0) /\ Abs(x) \in Int /\ (x > 0 => Abs(x) = x)
BY DEF Abs

LEMMA WriteChunkApart ==
  ASSUME NEW A, NEW rank, NEW B, NEW chain, NEW w, NEW H, Shape(A, rank, B, chain, w, H),
         WriteChunk \/ WriteChunkToPage
  PROVE  Apart'
<1>s. /\ Typed /\ Inside(A, rank, B) /\ Alive(A, rank) /\ Heads(A)
      /\ Structs(A, rank, chain) /\ Writing(A, rank, w)
    BY DEF Shape
<1>0. /\ left > 1 \/ pc = "chunkToPage"
      /\ pc \in {"chunk", "chunkToPage"} /\ pc' = "chunk" /\ left' = left - 1
      /\ UNCHANGED <<mem, prev, mark, val, held>>
    BY DEF WriteChunk, WriteChunkToPage
<1> PICK c, l : /\ c = cur /\ l = (IF pc = "chunk" THEN -link[cur] ELSE mem.free)
    OBVIOUS
<1>1. Put(c, l, val) /\ cur' = l /\ (pc = "chunk" => link[c] # 0 /\ c > 0)
    BY DEF WriteChunk, WriteChunkToPage
<1>2. CASE c > 0
    <2> PICK m : m = val[2] - left + 1
        OBVIOUS
    <2>1. /\ val[2] \in Nat /\ left \in 1 .. val[2] /\ m \in Nat /\ m \in 1 .. m
          /\ cur \in A /\ cur \in 1 .. mem.end /\ link[cur] \in Int
          /\ w \in [1 .. m -> 1 .. mem.end] /\ w[1] = mark /\ w[m] = cur
          /\ \A k \in 1 .. m : w[k] \in A
          /\ \A k \in 1 .. m - 1 : /\ k \in 1 .. m /\ k + 1 \in 1 .. m /\ w[k] # cur
                                   /\ link[w[k]] = w[k + 1] /\ rank[w[k + 1]] < rank[w[k]]
                                   /\ data[w[k]] = val /\ rank[cur] < rank[w[k]]
        BY <1>0, <1>2, <1>s, AtChunk
    <2>2. left > 1 /\ (pc = "chunkToPage" => mem.free > 0 /\ rank[mem.free] < rank[cur])
        BY <1>0, <1>2, <1>s DEF Writing
    <2>3. l \in Int /\ l # 0 /\ Abs(l) \in A /\ rank[Abs(l)] < rank[c]
        <3>1. CASE pc = "chunk"
            <4>1. Abs(link[c]) \in A /\ rank[Abs(link[c])] < rank[c] /\ link[c] \in Int /\ link[c] # 0
                BY <1>1, <1>s, <2>1, <3>1 DEF Alive
            <4> QED
                BY <3>1, <4>1, OtherSign
        <3>2. CASE pc = "chunkToPage"
            <4>1. mem.free \in Int /\ mem.free > 0 /\ Abs(mem.free) = mem.free /\ mem.free \in A
                BY <1>s, <2>2, <3>2 DEF Typed, Heads, Abs
            <4> QED
                BY <2>2, <3>2, <4>1
        <3> QED
            BY <1>0, <3>1, <3>2
    <2>4. /\ (Typed /\ Inside(A, rank, B) /\ Alive(A, rank) /\ Structs(A, rank, chain))'
          /\ hdr' = hdr
          /\ \A d \in 1 .. mem.end : /\ link'[d] = IF d = c THEN l ELSE link[d]
                                     /\ data'[d] = IF d = c THEN val ELSE data[d]
        <3>1. c \in A
            BY <2>1
        <3>2. /\ mem' \in [end : Nat, free : Int] /\ mem'.end = mem.end /\ held' = held
              /\ cur' \in Int /\ prev' \in Int /\ mark' \in Int /\ Placed'
            BY <1>0, <1>1, <1>s, <2>3 DEF Typed, Placed
        <3> QED
            BY <1>1, <1>s, <2>3, <3>1, <3>2, PutKeeps
    <2>5. Heads(A)' /\ PageReady' /\ Taking(A, rank, H)'
        BY <1>0, <1>s, <2>4 DEF Heads, PageReady, Taking
    <2>6. CASE l < 0
        <3>1. Writing(A, rank, w)'
            BY <1>1, <2>3, <2>6 DEF Writing
        <3> QED
            BY <2>4, <2>5, <3>1 DEF Shape, Apart
    <2>7. CASE l > 0
        <3>0. l \in A /\ l \in 1 .. mem.end /\ rank[l] < rank[c] /\ rank[l] \in Nat /\ rank[c] \in Nat
            BY <1>s, <2>1, <2>3, <2>7 DEF Abs, Inside
        <3> PICK j : j = m + 1
            OBVIOUS
        <3>1. PICK u \in [1 .. j -> 1 .. mem.end] : u[j] = l /\ \A k \in 1 .. m : u[k] = w[k]
            <4> DEFINE v == [k \in 1 .. j |-> IF k = j THEN l ELSE w[k]]
            <4>1. /\ m \in Nat /\ j \in 1 .. j /\ \A k \in 1 .. j : k \in 1 .. m \/ k = j
                  /\ \A k \in 1 .. m : k \in 1 .. j /\ k # j
                BY <2>1
            <4>2. v \in [1 .. j -> 1 .. mem.end]
                BY <2>1, <3>0, <4>1
            <4>3. v[j] = l /\ \A k \in 1 .. m : v[k] = w[k]
                BY <4>1
            <4> HIDE DEF v
            <4> QED
                BY <4>2, <4>3, Zenon
        <3>2. /\ j \in Nat /\ 1 \in 1 .. m /\ j \in 1 .. j
              /\ \A k \in 1 .. j - 1 : k \in 1 .. m /\ k \in 1 .. j /\ k + 1 \in 1 .. j
              /\ \A k \in 1 .. j : k \in 1 .. m \/ k = j
              /\ \A k \in 1 .. m : k = m \/ k \in 1 .. m - 1
            <4>1. m \in Nat /\ m >= 1
                BY <2>1
            <4> QED
                BY <4>1
        <3>9. left - 1 \in 1 .. val[2] /\ val[2] - (left - 1) + 1 = j
            BY <2>1, <2>2
        <3>3. \A k \in 1 .. j : u[k] \in A
            BY <2>1, <3>0, <3>1, <3>2
        <3>4. \A k \in 1 .. j - 1 : /\ link'[u[k]] = u[k + 1] /\ rank[u[k + 1]] < rank[u[k]]
                                    /\ data'[u[k]] = val /\ rank[l] < rank[u[k]]
            <4> SUFFICES ASSUME NEW k \in 1 .. j - 1
                         PROVE  /\ link'[u[k]] = u[k + 1] /\ rank[u[k + 1]] < rank[u[k]]
                                /\ data'[u[k]] = val /\ rank[l] < rank[u[k]]
                OBVIOUS
            <4>1. CASE k = m
                <5>1. u[k] = c /\ u[k + 1] = l
                    BY <2>1, <3>1, <3>2, <4>1
                <5> QED
                    BY <2>1, <2>4, <3>0, <5>1
            <4>2. CASE k \in 1 .. m - 1
                <5>1. u[k] = w[k] /\ u[k + 1] = w[k + 1] /\ w[k] # c /\ w[k] \in 1 .. mem.end
                    BY <2>1, <3>1, <4>2
                <5>2. rank[l] < rank[w[k]] /\ rank[w[k]] \in Nat
                    <6>1. rank[c] < rank[w[k]]
                        BY <2>1, <4>2
                    <6>2. rank[w[k]] \in Nat
                        BY <1>s, <5>1 DEF Inside
                    <6> QED
                        BY <3>0, <6>1, <6>2
                <5>3. link[w[k]] = w[k + 1] /\ rank[w[k + 1]] < rank[w[k]] /\ data[w[k]] = val
                    BY <2>1, <4>2
                <5>4. link'[w[k]] = link[w[k]] /\ data'[w[k]] = data[w[k]]
                    BY <2>4, <5>1
                <5> QED
                    BY <5>1, <5>2, <5>3, <5>4
            <4> QED
                BY <3>2, <4>1, <4>2
        <3>5. u[1] = mark
            BY <2>1, <3>1, <3>2
        <3>6. Row(u, j, rank)'
            BY <1>0, <3>1, <3>4 DEF Row
        <3>7. /\ val' = val /\ left' = left - 1 /\ mark' = mark /\ cur' = l /\ pc' = "chunk"
            BY <1>0, <1>1
        <3>10. val'[2] - left' + 1 = j /\ left' \in 1 .. val'[2] /\ val'[2] \in Nat
            BY <2>1, <3>7, <3>9
        <3>11. \A k \in 1 .. j - 1 : data'[u[k]] = val' /\ rank[cur'] < rank[u[k]]
            BY <3>4, <3>7
        <3>8. Writing(A, rank, u)'
            <4>1. /\ Row(u, j, rank)' /\ u[1] = mark' /\ u[j] = cur'
                  /\ \A k \in 1 .. j : u[k] \in A
                BY <3>1, <3>3, <3>5, <3>6, <3>7
            <4> QED
                BY <3>7, <3>10, <3>11, <4>1 DEF Writing
        <3> QED
            BY <2>4, <2>5, <3>8 DEF Shape, Apart
    <2> QED
        BY <2>3, <2>6, <2>7
<1>3. c > 0
    BY <1>0, <1>1, <1>s DEF Typed, Placed
<1> QED
    BY <1>2, <1>3

LEMMA WriteLastApart ==
  ASSUME NEW A, NEW rank, NEW B, NEW chain, NEW w, NEW H, Shape(A, rank, B, chain, w, H), WriteLast
  PROVE  Apart'
<1>s. /\ Typed /\ Inside(A, rank, B) /\ Alive(A, rank) /\ Heads(A)
      /\ Structs(A, rank, chain) /\ Writing(A, rank, w)
    BY DEF Shape
<1>0. /\ pc = "chunk" /\ left = 1 /\ cur > 0 /\ Put(cur, 0, val)
      /\ mem' = [mem EXCEPT !.free = -link[cur]]
      /\ pc' \in {"lastPage", "writeHeader"}
      /\ UNCHANGED <<cur, prev, left, mark, val, held>>
    BY DEF WriteLast
<1> PICK m : m = val[2] - left + 1
    OBVIOUS
<1> PICK c, l : c = cur /\ l = -link[cur]
    OBVIOUS
<1>1. /\ val[2] \in Nat /\ left \in 1 .. val[2] /\ m \in Nat /\ m \in 1 .. m
      /\ cur \in A /\ cur \in 1 .. mem.end /\ link[cur] \in Int
      /\ w \in [1 .. m -> 1 .. mem.end] /\ w[1] = mark /\ w[m] = cur
      /\ \A k \in 1 .. m : w[k] \in A
      /\ \A k \in 1 .. m - 1 : /\ k \in 1 .. m /\ k + 1 \in 1 .. m /\ w[k] # cur
                               /\ link[w[k]] = w[k + 1] /\ rank[w[k + 1]] < rank[w[k]]
                               /\ data[w[k]] = val /\ rank[cur] < rank[w[k]]
    <2>1. pc \in {"chunk", "pageHeader", "chunkToPage", "lastPage", "lastPageHeader", "writeHeader"} /\ cur > 0
        BY <1>0
    <2> QED
        BY <1>s, <2>1, AtChunk
<1>2. l \in Int /\ (l # 0 => Abs(l) \in A /\ rank[Abs(l)] < rank[c])
    <2>1. link[c] # 0 => Abs(link[c]) \in A /\ rank[Abs(link[c])] < rank[c]
        BY <1>1, <1>s DEF Alive
    <2> QED
        BY <1>1, <2>1, OtherSign
<1>3. mem' \in [end : Nat, free : Int] /\ mem'.end = mem.end /\ mem'.free = l
    BY <1>0, <1>2, <1>s DEF Typed
<1>4. /\ (Typed /\ Inside(A, rank, B) /\ Alive(A, rank) /\ Structs(A, rank, chain))'
      /\ hdr' = hdr
      /\ \A d \in 1 .. mem.end : /\ link'[d] = IF d = c THEN 0 ELSE link[d]
                                 /\ data'[d] = IF d = c THEN val ELSE data[d]
    <2>1. c \in A /\ 0 \in Int
        BY <1>1
    <2>2. cur' \in Int /\ prev' \in Int /\ mark' \in Int /\ Placed' /\ held' = held
        BY <1>0, <1>s DEF Typed, Placed
    <2> QED
        BY <1>0, <1>3, <1>s, <2>1, <2>2, PutKeeps
<1>5. Heads(A)'
    BY <1>2, <1>3, <1>4, <1>s DEF Heads
<1>6. PageReady' /\ Taking(A, rank, H)'
    BY <1>0 DEF PageReady, Taking
<1>7. Writing(A, rank, w)'
    <2>1. Row(w, m, rank)' /\ \A k \in 1 .. m - 1 : data'[w[k]] = val
        <3>1. \A k \in 1 .. m - 1 : link'[w[k]] = link[w[k]] /\ data'[w[k]] = data[w[k]]
            BY <1>1, <1>4
        <3> QED
            BY <1>1, <1>3, <3>1 DEF Row
    <2>2. val' = val /\ left' = left /\ mark' = mark /\ cur' = cur /\ left = 1
        BY <1>0
    <2>3. link'[cur] = 0 /\ data'[cur] = val
        BY <1>1, <1>4
    <2>4. /\ mem'.free # 0 => rank[Abs(mem'.free)] < rank[cur]
          /\ \A k \in 1 .. m - 1 : rank[cur] < rank[w[k]]
        BY <1>1, <1>2, <1>3
    <2> QED
        BY <1>0, <1>1, <2>1, <2>2, <2>3, <2>4 DEF Writing
<1>8. Shape(A, rank, B, chain, w, H)'
    BY <1>4, <1>5, <1>6, <1>7 DEF Shape
<1> QED
    BY <1>8 DEF Apart

\* The header lets go of the structure: only what comes behind its last chunk
\* can still be reached.
LEMMA WriteHeaderApart ==
  ASSUME NEW A, NEW rank, NEW B, NEW chain, NEW w, NEW H, Shape(A, rank, B, chain, w, H), WriteHeader
  PROVE  Apart'
<1>s. /\ Typed /\ Inside(A, rank, B) /\ Alive(A, rank) /\ Heads(A)
      /\ Structs(A, rank, chain) /\ Writing(A, rank, w)
    BY DEF Shape
<1>0. /\ pc = "writeHeader" /\ hdr' = mem /\ held' = Holding(mark, val)
      /\ pc' = "idle" /\ cur' = 0 /\ prev' = 0 /\ mark' = 0
      /\ UNCHANGED <<link, data, mem>>
    BY DEF WriteHeader, PutHeader, Return
<1>c. cur > 0
    BY <1>0, <1>s DEF Typed, Placed
<1> PICK m, c, p0, v0 : m = val[2] - left + 1 /\ c = cur /\ p0 = mark /\ v0 = val
    OBVIOUS
<1>1. /\ val[2] \in Nat /\ left \in 1 .. val[2] /\ m \in Nat /\ m \in 1 .. m
      /\ cur \in A /\ cur \in 1 .. mem.end /\ link[cur] \in Int
      /\ w \in [1 .. m -> 1 .. mem.end] /\ w[1] = mark /\ w[m] = cur
      /\ \A k \in 1 .. m : w[k] \in A
      /\ \A k \in 1 .. m - 1 : /\ k \in 1 .. m /\ k + 1 \in 1 .. m /\ w[k] # cur
                               /\ link[w[k]] = w[k + 1] /\ rank[w[k + 1]] < rank[w[k]]
                               /\ data[w[k]] = val /\ rank[cur] < rank[w[k]]
    BY <1>0, <1>c, <1>s, AtChunk
<1>2. /\ left = 1 /\ link[cur] = 0 /\ data[cur] = val
      /\ mem.free # 0 => rank[Abs(mem.free)] < rank[cur]
    BY <1>0, <1>c, <1>s DEF Writing
<1>3. m = v0[2] /\ m \in Nat \ {0} /\ \A k \in 1 .. m : k = m \/ k \in 1 .. m - 1
    BY <1>1, <1>2
<1> PICK A2 : A2 = {a \in A : rank[a] < rank[c]}
    OBVIOUS
<1> PICK D : D = DOMAIN held
    OBVIOUS
<1>4. PICK chain2 : chain2[p0] = w /\ \A p \in D : p # p0 => chain2[p] = chain[p]
    <2> DEFINE f == [p \in D \cup {p0} |-> IF p = p0 THEN w ELSE chain[p]]
    <2>1. f[p0] = w /\ \A p \in D : p # p0 => f[p] = chain[p]
        OBVIOUS
    <2> HIDE DEF f
    <2> QED
        BY <2>1, Zenon
<1>5. DOMAIN held' = D \cup {p0} /\ held'[p0] = v0 /\ \A p \in D : p # p0 => held'[p] = held[p]
    BY <1>0 DEF Holding
<1>6. Typed' /\ Inside(A2, rank, B)' /\ PageReady' /\ Writing(A2, rank, w)' /\ Taking(A2, rank, H)'
    <2>1. Typed'
        BY <1>0, <1>s DEF Typed, Placed
    <2>2. Inside(A2, rank, B)'
        BY <1>0, <1>s DEF Inside
    <2> QED
        BY <1>0, <2>1, <2>2 DEF PageReady, Writing, Taking
<1>7. Alive(A2, rank)'
    <2>1. ASSUME NEW a \in A2, link[a] # 0 PROVE Abs(link[a]) \in A2 /\ rank[Abs(link[a])] < rank[a]
        <3> PICK b : b = Abs(link[a])
            OBVIOUS
        <3>1. a \in A /\ rank[a] < rank[c] /\ b \in A /\ rank[b] < rank[a]
            BY <1>s, <2>1 DEF Alive
        <3>2. rank[a] \in Nat /\ rank[b] \in Nat /\ rank[c] \in Nat
            BY <1>1, <1>s, <3>1 DEF Inside
        <3>3. rank[b] < rank[c]
            BY <3>1, <3>2
        <3> QED
            BY <3>1, <3>3
    <2> QED
        BY <1>0, <2>1 DEF Alive
<1>8. Heads(A2)'
    <2>1. mem.free # 0 => Abs(mem.free) \in A2
        BY <1>2, <1>s DEF Heads
    <2> QED
        BY <1>0, <2>1 DEF Heads
<1>9. ASSUME NEW p \in D
      PROVE  /\ p # p0 /\ held[p][2] \in Nat \ {0} /\ Row(chain[p], held[p][2], rank)
             /\ chain[p][1] = p /\ link[chain[p][held[p][2]]] = 0
             /\ \A k \in 1 .. held[p][2] : data[chain[p][k]] = held[p] /\ chain[p][k] \notin A
    <2>1. /\ held[p][2] \in Nat \ {0} /\ Row(chain[p], held[p][2], rank)
          /\ chain[p][1] = p /\ link[chain[p][held[p][2]]] = 0
          /\ \A k \in 1 .. held[p][2] : data[chain[p][k]] = held[p] /\ chain[p][k] \notin A
        BY <1>s DEF Structs
    <2>2. 1 \in 1 .. held[p][2] /\ 1 \in 1 .. m
        BY <1>3, <2>1
    <2>3. p # p0
        BY <1>1, <2>1, <2>2
    <2> QED
        BY <2>1, <2>3
<1>10. \A p \in D : chain2[p] = chain[p] /\ held'[p] = held[p]
    BY <1>4, <1>5, <1>9
<1>11. ASSUME NEW p \in DOMAIN held'
       PROVE  /\ held'[p][2] \in Nat \ {0}
              /\ chain2[p] \in [1 .. held'[p][2] -> 1 .. mem'.end]
              /\ \A k \in 1 .. held'[p][2] - 1 : /\ link'[chain2[p][k]] = chain2[p][k + 1]
                                                 /\ rank[chain2[p][k + 1]] < rank[chain2[p][k]]
              /\ chain2[p][1] = p /\ link'[chain2[p][held'[p][2]]] = 0
              /\ \A k \in 1 .. held'[p][2] : data'[chain2[p][k]] = held'[p] /\ chain2[p][k] \notin A2
    <2>1. CASE p \in D
        <3>1. \A k \in 1 .. held[p][2] : chain[p][k] \notin A2
            BY <1>9, <2>1
        <3>2. chain2[p] = chain[p] /\ held'[p] = held[p]
            BY <1>10, <2>1
        <3> QED
            BY <1>0, <1>9, <2>1, <3>1, <3>2 DEF Row
    <2>2. CASE p = p0
        <3>1. chain2[p] = w /\ held'[p] = v0 /\ held'[p][2] = m
            BY <1>3, <1>4, <1>5, <2>2
        <3>3. ASSUME NEW k \in 1 .. m PROVE data[w[k]] = v0 /\ w[k] \notin A2
            <4>1. CASE k = m
                <5>1. ~(rank[c] < rank[c])
                    BY <1>1, <1>s DEF Inside
                <5> QED
                    BY <1>1, <1>2, <4>1, <5>1
            <4>2. CASE k \in 1 .. m - 1
                <5>1. w[k] \in A /\ data[w[k]] = val /\ rank[c] < rank[w[k]]
                    BY <1>1, <4>2
                <5>2. rank[c] \in Nat /\ rank[w[k]] \in Nat
                    BY <1>1, <1>s DEF Inside
                <5>3. ~(rank[w[k]] < rank[c])
                    BY <5>1, <5>2
                <5> QED
                    BY <5>1, <5>3
            <4> QED
                BY <1>3, <4>1, <4>2
        <3>4. \A k \in 1 .. held'[p][2] : data'[chain2[p][k]] = held'[p] /\ chain2[p][k] \notin A2
            BY <1>0, <3>1, <3>3
        <3>5. held'[p][2] \in Nat \ {0} /\ chain2[p][1] = p /\ link'[chain2[p][held'[p][2]]] = 0
            BY <1>0, <1>1, <1>2, <1>3, <2>2, <3>1
        <3>6. /\ chain2[p] \in [1 .. held'[p][2] -> 1 .. mem'.end]
              /\ \A k \in 1 .. held'[p][2] - 1 : /\ link'[chain2[p][k]] = chain2[p][k + 1]
                                                 /\ rank[chain2[p][k + 1]] < rank[chain2[p][k]]
            BY <1>0, <1>1, <3>1
        <3> QED
            BY <3>4, <3>5, <3>6
    <2> QED
        BY <1>5, <2>1, <2>2
<1>12. ASSUME NEW p \in DOMAIN held', NEW q \in DOMAIN held',
              NEW j \in 1 .. held'[p][2], NEW k \in 1 .. held'[q][2], chain2[p][j] = chain2[q][k]
       PROVE  p = q
    <2>0. \A r \in DOMAIN held' : r \in D \/ (r = p0 /\ chain2[r] = w /\ held'[r][2] = m)
        BY <1>3, <1>4, <1>5
    <2>1. CASE p \in D /\ q \in D
        <3>1. \A x, y \in D : \A i \in 1 .. held[x][2], h \in 1 .. held[y][2] :
                 chain[x][i] = chain[y][h] => x = y
            BY <1>s DEF Structs
        <3> QED
            BY <1>10, <1>12, <2>1, <3>1
    <2>2. \A r \in D, i \in Nat : i \in 1 .. held'[r][2] => chain2[r][i] \notin A
        BY <1>9, <1>10
    <2>3. \A i \in Nat : i \in 1 .. m => w[i] \in A
        BY <1>1
    <2>4. j \in Nat /\ k \in Nat
        BY <1>11
    <2> QED
        BY <1>12, <2>0, <2>1, <2>2, <2>3, <2>4
<1>13. Structs(A2, rank, chain2)'
    BY <1>11, <1>12 DEF Structs, Row
<1>14. Shape(A2, rank, B, chain2, w, H)'
    BY <1>6, <1>7, <1>8, <1>13 DEF Shape
<1> QED
    BY <1>14 DEF Apart

-----------------------------------------------------------------------------
(* FreeBytesBatch.                                                         *)

\* The chunks of the structure can be reached from now on; they come before all
\* the others.
LEMMA FreeBeginApart ==
  ASSUME NEW A, NEW rank, NEW B, NEW chain, NEW w, NEW H, Shape(A, rank, B, chain, w, H),
         NEW p \in DOMAIN held, FreeBegin(p)
  PROVE  Apart'
<1>s. /\ Typed /\ Inside(A, rank, B) /\ Alive(A, rank) /\ Heads(A) /\ Structs(A, rank, chain)
    BY DEF Shape
<1>0. /\ mem' = [mem EXCEPT !.free = p]
      /\ pc' = "freeChunk" /\ cur' = p /\ mark' = mem.free
      /\ held' = [q \in DOMAIN held \ {p} |-> held[q]]
      /\ UNCHANGED <<link, data, hdr, prev>>
    BY DEF FreeBegin, file
<1> PICK n, s, D : n = held[p][2] /\ s = chain[p] /\ D = DOMAIN held
    OBVIOUS
<1>1. /\ n \in Nat \ {0} /\ s \in [1 .. n -> 1 .. mem.end]
      /\ \A k \in 1 .. n - 1 : link[s[k]] = s[k + 1] /\ rank[s[k + 1]] < rank[s[k]]
      /\ s[1] = p /\ link[s[n]] = 0
      /\ \A k \in 1 .. n : s[k] \notin A
    BY <1>s DEF Structs, Row
<1>2. 1 \in 1 .. n /\ \A k \in 1 .. n : k = n \/ (k \in 1 .. n - 1 /\ k + 1 \in 1 .. n)
    BY <1>1
<1> PICK S : S = {s[k] : k \in 1 .. n}
    OBVIOUS
<1>3. /\ S \subseteq 1 .. mem.end /\ p \in S /\ p \in 1 .. mem.end /\ \A c \in S : c \notin A
      /\ \A c \in S : link[c] # 0 => /\ link[c] \in S /\ Abs(link[c]) = link[c]
                                     /\ rank[link[c]] < rank[c]
    <2>1. S \subseteq 1 .. mem.end /\ \A c \in S : c \notin A
        BY <1>1
    <2>2. ASSUME NEW k \in 1 .. n, link[s[k]] # 0
          PROVE  link[s[k]] \in S /\ rank[link[s[k]]] < rank[s[k]]
        BY <1>1, <1>2, <2>2
    <2>3. \A c \in 1 .. mem.end : Abs(c) = c
        BY <1>s, Covered
    <2>4. p \in S
        BY <1>1, <1>2
    <2> QED
        BY <2>1, <2>2, <2>3, <2>4
<1> PICK A2 : A2 = A \cup S
    OBVIOUS
<1> PICK B2 : B2 = B + B + 1
    OBVIOUS
<1> PICK rank2 : \A c \in 1 .. mem.end : rank2[c] = IF c \in S THEN rank[c] + B + 1 ELSE rank[c]
    <2> DEFINE r == [c \in 1 .. mem.end |-> IF c \in S THEN rank[c] + B + 1 ELSE rank[c]]
    <2>1. \A c \in 1 .. mem.end : r[c] = IF c \in S THEN rank[c] + B + 1 ELSE rank[c]
        OBVIOUS
    <2> HIDE DEF r
    <2> QED
        BY <2>1
<1>4. /\ B \in Nat /\ A \subseteq 1 .. mem.end
      /\ \A c \in 1 .. mem.end : rank[c] \in Nat /\ rank[c] <= B
      /\ \A c \in A : c \in 1 .. mem.end /\ c \notin S
    BY <1>3, <1>s DEF Inside
<1>5. mem' \in [end : Nat, free : Int] /\ mem'.end = mem.end /\ mem'.free = p /\ mem.free \in Int
    <2>1. p \in Int
        BY <1>3
    <2> QED
        BY <1>0, <1>s, <2>1 DEF Typed
<1>6. Typed'
    BY <1>0, <1>3, <1>5, <1>s DEF Typed, Placed
<1>7. Inside(A2, rank2, B2)'
    <2>1. A2 \subseteq 1 .. mem.end
        BY <1>3, <1>4
    <2>2. B2 \in Nat /\ \A c \in 1 .. mem.end : rank2[c] \in Nat /\ rank2[c] <= B2
        BY <1>4
    <2> QED
        BY <1>5, <2>1, <2>2 DEF Inside
<1>8. \A c, d \in 1 .. mem.end : rank[c] < rank[d] /\ (c \in S <=> d \in S) => rank2[c] < rank2[d]
    BY <1>4
<1>9. Alive(A2, rank2)'
    <2>1. ASSUME NEW c \in A, link[c] # 0 PROVE Abs(link[c]) \in A /\ rank2[Abs(link[c])] < rank2[c]
        <3>1. Abs(link[c]) \in A /\ rank[Abs(link[c])] < rank[c]
            BY <1>s, <2>1 DEF Alive
        <3> QED
            BY <1>4, <1>8, <3>1
    <2>2. ASSUME NEW c \in S, link[c] # 0 PROVE Abs(link[c]) \in S /\ rank2[Abs(link[c])] < rank2[c]
        <3>1. link[c] \in S /\ Abs(link[c]) = link[c] /\ rank[link[c]] < rank[c]
            BY <1>3, <2>2
        <3>2. link[c] \in 1 .. mem.end /\ c \in 1 .. mem.end
            BY <1>3, <3>1
        <3> QED
            BY <1>8, <3>1, <3>2
    <2> QED
        BY <1>0, <2>1, <2>2 DEF Alive
<1>10. Heads(A2)'
    <2>1. Abs(p) = p
        BY <1>3, <1>s, Covered
    <2> QED
        BY <1>0, <1>3, <1>5, <1>s, <2>1 DEF Heads
<1>11. PageReady' /\ Writing(A2, rank2, w)'
    BY <1>0 DEF PageReady, Writing
<1>12. Structs(A2, rank2, chain)'
    <2>1. DOMAIN held' = D \ {p} /\ \A q \in D \ {p} : held'[q] = held[q]
        BY <1>0
    <2>2. \A x, y \in D : \A j \in 1 .. held[x][2], k \in 1 .. held[y][2] :
             chain[x][j] = chain[y][k] => x = y
        BY <1>s DEF Structs
    <2>3. ASSUME NEW q \in D \ {p}
          PROVE  /\ held[q][2] \in Nat \ {0}
                 /\ chain[q] \in [1 .. held[q][2] -> 1 .. mem.end]
                 /\ \A k \in 1 .. held[q][2] - 1 : /\ link[chain[q][k]] = chain[q][k + 1]
                                                   /\ rank2[chain[q][k + 1]] < rank2[chain[q][k]]
                 /\ chain[q][1] = q /\ link[chain[q][held[q][2]]] = 0
                 /\ \A k \in 1 .. held[q][2] : data[chain[q][k]] = held[q] /\ chain[q][k] \notin A2
        <3> PICK i, t : i = held[q][2] /\ t = chain[q]
            OBVIOUS
        <3>1. /\ i \in Nat \ {0} /\ t \in [1 .. i -> 1 .. mem.end]
              /\ \A k \in 1 .. i - 1 : link[t[k]] = t[k + 1] /\ rank[t[k + 1]] < rank[t[k]]
              /\ t[1] = q /\ link[t[i]] = 0
              /\ \A k \in 1 .. i : data[t[k]] = held[q] /\ t[k] \notin A
            BY <1>s DEF Structs, Row
        <3>2. \A k \in 1 .. i : t[k] \notin S
            BY <2>2
        <3>3. \A k \in 1 .. i - 1 : k \in 1 .. i /\ k + 1 \in 1 .. i
            BY <3>1
        <3>4. \A k \in 1 .. i - 1 : rank2[t[k + 1]] < rank2[t[k]]
            <4>1. \A k \in 1 .. i : t[k] \in 1 .. mem.end
                BY <3>1
            <4> QED
                BY <1>8, <3>1, <3>2, <3>3, <4>1
        <3> QED
            BY <3>1, <3>2, <3>4
    <2> QED
        BY <1>0, <1>5, <2>1, <2>2, <2>3 DEF Structs, Row
<1>13. Taking(A2, rank2, S)'
    <2>1. S \subseteq A2 /\ \A c \in S : link[c] # 0 => Abs(link[c]) \in S
        BY <1>3
    <2>2. mem.free # 0 => /\ Abs(mem.free) \in A2
                          /\ \A c \in S : rank2[Abs(mem.free)] < rank2[c]
        <3> SUFFICES ASSUME mem.free # 0, NEW c \in S
                     PROVE  Abs(mem.free) \in A2 /\ rank2[Abs(mem.free)] < rank2[c]
            BY <1>3
        <3> PICK a : a = Abs(mem.free)
            OBVIOUS
        <3>1. a \in A
            BY <1>s DEF Heads
        <3>2. rank2[a] = rank[a] /\ rank2[c] = rank[c] + B + 1 /\ rank[a] <= B /\ rank[a] \in Nat /\ rank[c] \in Nat
            BY <1>3, <1>4, <3>1
        <3>3. rank2[a] < rank2[c]
            BY <1>4, <3>2
        <3> QED
            BY <3>1, <3>3
    <2>3. cur' # 0 /\ Abs(cur') \in S
        BY <1>0, <1>3, <1>s, Covered
    <2> QED
        BY <1>0, <2>1, <2>2, <2>3 DEF Taking
<1>14. Shape(A2, rank2, B2, chain, w, S)'
    BY <1>6, <1>7, <1>9, <1>10, <1>11, <1>12, <1>13 DEF Shape
<1> QED
    BY <1>14 DEF Apart

\* A link that is negated leads to the same chunk; the last one leads to the old
\* head, which no chunk of the structure can come behind.
LEMMA FreeChunkApart ==
  ASSUME NEW A, NEW rank, NEW B, NEW chain, NEW w, NEW H, Shape(A, rank, B, chain, w, H),
         FreeChunk \/ FreeJoin
  PROVE  Apart'
<1>s. /\ Typed /\ Inside(A, rank, B) /\ Alive(A, rank) /\ Heads(A)
      /\ Structs(A, rank, chain) /\ Taking(A, rank, H)
    BY DEF Shape
<1>0. pc = "freeChunk" /\ UNCHANGED <<mem, left, mark, val, held>>
    BY DEF FreeChunk, FreeJoin
<1>1. /\ H \subseteq A
      /\ \A c \in H : link[c] # 0 => Abs(link[c]) \in H
      /\ mark # 0 => Abs(mark) \in A /\ \A c \in H : rank[Abs(mark)] < rank[c]
      /\ cur # 0 => Abs(cur) \in H
      /\ cur = 0 => prev \in H
    BY <1>0, <1>s DEF Taking
<1> PICK c, l : /\ c = (IF cur = 0 THEN prev ELSE cur)
                /\ l = (IF cur = 0 THEN -mark ELSE -link[cur])
    OBVIOUS
<1>2. /\ Put(c, l, Zero)
      /\ \/ /\ cur > 0 /\ pc' = "freeChunk" /\ cur' = link[cur] /\ prev' = cur
         \/ /\ cur = 0 /\ pc' = "freeHeader" /\ UNCHANGED <<cur, prev>>
    <2>1. CASE FreeChunk
        BY <2>1 DEF FreeChunk
    <2>2. CASE FreeJoin
        BY <2>2 DEF FreeJoin
    <2> QED
        BY <2>1, <2>2
<1>3. c \in H /\ c \in A /\ c \in 1 .. mem.end /\ link[c] \in Int
    <2>1. c \in H
        <3>1. cur > 0 => Abs(cur) = cur
            BY <1>s DEF Typed, Abs
        <3> QED
            BY <1>1, <1>2, <3>1
    <2> QED
        BY <1>1, <1>s, <2>1, Covered DEF Inside
<1>4. l \in Int /\ (l # 0 => Abs(l) \in A /\ rank[Abs(l)] < rank[c])
    <2>1. CASE cur = 0
        <3>1. mark \in Int /\ l = -mark
            BY <1>s, <2>1 DEF Typed
        <3> QED
            BY <1>1, <1>3, <3>1, OtherSign
    <2>2. CASE cur # 0
        <3>1. l = -link[c]
            BY <2>2
        <3>2. link[c] # 0 => Abs(link[c]) \in A /\ rank[Abs(link[c])] < rank[c]
            BY <1>3, <1>s DEF Alive
        <3> QED
            BY <1>3, <3>1, <3>2, OtherSign
    <2> QED
        BY <2>1, <2>2
<1>5. /\ (Typed /\ Inside(A, rank, B) /\ Alive(A, rank) /\ Structs(A, rank, chain))'
      /\ hdr' = hdr
      /\ \A d \in 1 .. mem.end : /\ link'[d] = IF d = c THEN l ELSE link[d]
                                 /\ data'[d] = IF d = c THEN Zero ELSE data[d]
    <2>1. /\ mem' \in [end : Nat, free : Int] /\ mem'.end = mem.end /\ held' = held
          /\ cur' \in Int /\ prev' \in Int /\ mark' \in Int /\ Placed'
        <3>1. cur > 0 => cur = c
            OBVIOUS
        <3> QED
            BY <1>0, <1>2, <1>3, <1>s, <3>1 DEF Typed, Placed
    <2>2. Put(c, l, Zero)
        BY <1>2
    <2> QED
        BY <1>3, <1>4, <1>s, <2>1, <2>2, PutKeeps
<1>6. Heads(A)'
    BY <1>0, <1>5, <1>s DEF Heads
<1>7. PageReady' /\ Writing(A, rank, w)'
    BY <1>2 DEF PageReady, Writing
<1>8. Taking(A, rank, H)'
    <2> SUFFICES ASSUME cur > 0, pc' = "freeChunk", cur' = link[cur], prev' = cur
                 PROVE  Taking(A, rank, H)'
        BY <1>2 DEF Taking
    <2>1. c = cur /\ l = -link[c]
        OBVIOUS
    <2>2. link[c] # 0 => Abs(link[c]) \in H
        BY <1>1, <1>3
    <2>3. \A d \in H : link'[d] # 0 => Abs(link'[d]) \in H
        <3> SUFFICES ASSUME NEW d \in H, link'[d] # 0 PROVE Abs(link'[d]) \in H
            OBVIOUS
        <3>1. d \in 1 .. mem.end
            BY <1>1, <1>s DEF Inside
        <3>2. CASE d = c
            <4>1. link'[d] = -link[c]
                BY <1>3, <1>5, <2>1, <3>2
            <4> QED
                BY <1>3, <2>2, <4>1, OtherSign
        <3>3. CASE d # c
            BY <1>1, <1>5, <3>1, <3>3
        <3> QED
            BY <3>2, <3>3
    <2> QED
        BY <1>0, <1>1, <1>3, <2>1, <2>2, <2>3 DEF Taking
<1>9. Shape(A, rank, B, chain, w, H)'
    BY <1>5, <1>6, <1>7, <1>8 DEF Shape
<1> QED
    BY <1>9 DEF Apart

\* The end of a call, and what a fault leaves of one: everything that can be
\* reached stays so.
LEMMA ReturnApart ==
  ASSUME NEW A, NEW rank, NEW B, NEW chain, NEW w, NEW H, Shape(A, rank, B, chain, w, H),
         FreeHeader \/ Fail \/ Reopen
  PROVE  Apart'
<1>s. /\ Typed /\ Inside(A, rank, B) /\ Alive(A, rank) /\ Heads(A) /\ Structs(A, rank, chain)
    BY DEF Shape
<1>0. /\ pc' = "idle" /\ cur' \in {0, cur} /\ prev' \in {0, prev} /\ mark' \in {0, mark}
      /\ UNCHANGED <<link, data, held>>
      /\ hdr' \in {hdr, mem} /\ mem' \in {hdr, mem}
    BY DEF FreeHeader, PutHeader, Fail, Reopen, Load, Return, Idle, file, call
<1>1. hdr'.end = mem.end /\ mem'.end = mem.end /\ {hdr'.free, mem'.free} \subseteq {hdr.free, mem.free}
    BY <1>0, <1>s DEF Typed
<1>2. Typed'
    BY <1>0, <1>1, <1>s DEF Typed, Placed
<1>3. Inside(A, rank, B)' /\ Alive(A, rank)' /\ Heads(A)'
    BY <1>0, <1>1, <1>s DEF Inside, Alive, Heads
<1>4. Structs(A, rank, chain)'
    BY <1>0, <1>1, <1>s DEF Structs, Row
<1>5. PageReady' /\ Writing(A, rank, w)' /\ Taking(A, rank, H)'
    BY <1>0 DEF PageReady, Writing, Taking
<1>6. Shape(A, rank, B, chain, w, H)'
    BY <1>2, <1>3, <1>4, <1>5 DEF Shape
<1> QED
    BY <1>6 DEF Apart

Structures(f, A, rank, chain) ==
  /\ \A p \in DOMAIN f.held :
       /\ f.held[p][2] \in Nat \ {0}
       /\ chain[p] \in [1 .. f.held[p][2] -> 1 .. f.hdr.end]
       /\ \A k \in 1 .. f.held[p][2] - 1 :
            f.link[chain[p][k]] = chain[p][k + 1] /\ rank[chain[p][k + 1]] < rank[chain[p][k]]
       /\ chain[p][1] = p /\ f.link[chain[p][f.held[p][2]]] = 0
       /\ \A k \in 1 .. f.held[p][2] : f.data[chain[p][k]] = f.held[p] /\ chain[p][k] \notin A
  /\ \A p, q \in DOMAIN f.held :
       \A j \in 1 .. f.held[p][2], k \in 1 .. f.held[q][2] : chain[p][j] = chain[q][k] => p = q

\* What Apart says of a file in which no call is running, with its own header.
Settled(f) ==
  \E A, rank, B, chain :
    /\ f.link \in Seq(Int) /\ DOMAIN f.data = DOMAIN f.link
    /\ f.hdr \in [end : Nat, free : Int] /\ f.hdr.end <= Len(f.link)
    /\ A \subseteq 1 .. f.hdr.end
    /\ B \in Nat /\ \A c \in 1 .. f.hdr.end : rank[c] \in Nat /\ rank[c] <= B
    /\ \A c \in A : f.link[c] # 0 => Abs(f.link[c]) \in A /\ rank[Abs(f.link[c])] < rank[c]
    /\ f.hdr.free # 0 => Abs(f.hdr.free) \in A
    /\ Structures(f, A, rank, chain)

\* Whatever the process is doing, the file can be left as it is.
LEMMA ViewSettled == Apart => Settled(View)
<1> SUFFICES ASSUME Apart PROVE Settled(View)
    OBVIOUS
<1> PICK A, rank, B, chain, w, H : Shape(A, rank, B, chain, w, H)
    BY DEF Apart
<1> PICK f : f = View
    OBVIOUS
<1>1. f.link = link /\ f.data = data /\ f.hdr = hdr /\ f.held = held
    BY DEF View
<1>2. /\ Typed /\ Inside(A, rank, B) /\ Alive(A, rank) /\ Heads(A) /\ Structs(A, rank, chain)
    BY DEF Shape
<1>3. /\ f.link \in Seq(Int) /\ DOMAIN f.data = DOMAIN f.link
      /\ f.hdr \in [end : Nat, free : Int] /\ f.hdr.end <= Len(f.link) /\ mem.end = f.hdr.end
    BY <1>1, <1>2 DEF Typed
<1>4. /\ A \subseteq 1 .. f.hdr.end
      /\ B \in Nat /\ \A c \in 1 .. f.hdr.end : rank[c] \in Nat /\ rank[c] <= B
      /\ \A c \in A : f.link[c] # 0 => Abs(f.link[c]) \in A /\ rank[Abs(f.link[c])] < rank[c]
      /\ f.hdr.free # 0 => Abs(f.hdr.free) \in A
    BY <1>1, <1>2, <1>3 DEF Inside, Alive, Heads
<1>5. Structures(f, A, rank, chain)
    BY <1>1, <1>2, <1>3 DEF Structs, Row, Structures
<1> QED
    BY <1>3, <1>4, <1>5 DEF Settled

\* What a kill leaves.
LEMMA CrashApart == Settled(disk) /\ Crash => Apart'
<1> SUFFICES ASSUME Settled(disk), Crash PROVE Apart'
    OBVIOUS
<1>1. /\ link' = disk.link /\ data' = disk.data /\ hdr' = disk.hdr /\ held' = disk.held
      /\ mem' = hdr' /\ pc' = "idle" /\ cur' = 0 /\ prev' = 0 /\ mark' = 0
    BY DEF Crash, Return
<1>2. PICK A, rank, B, chain :
    /\ link' \in Seq(Int) /\ DOMAIN data' = DOMAIN link'
    /\ hdr' \in [end : Nat, free : Int] /\ hdr'.end <= Len(link')
    /\ A \subseteq 1 .. hdr'.end
    /\ B \in Nat /\ \A c \in 1 .. hdr'.end : rank[c] \in Nat /\ rank[c] <= B
    /\ \A c \in A : link'[c] # 0 => Abs(link'[c]) \in A /\ rank[Abs(link'[c])] < rank[c]
    /\ hdr'.free # 0 => Abs(hdr'.free) \in A
    /\ Structures(disk, A, rank, chain)
    BY <1>1 DEF Settled
<1>3. Typed' /\ Inside(A, rank, B)' /\ Alive(A, rank)' /\ Heads(A)'
    BY <1>1, <1>2 DEF Typed, Placed, Inside, Alive, Heads
<1>4. Structs(A, rank, chain)'
    BY <1>1, <1>2 DEF Structs, Row, Structures
<1>5. PageReady' /\ Writing(A, rank, <<>>)' /\ Taking(A, rank, {})'
    BY <1>1 DEF PageReady, Writing, Taking
<1>6. Shape(A, rank, B, chain, <<>>, {})'
    BY <1>3, <1>4, <1>5 DEF Shape
<1> QED
    BY <1>6 DEF Apart

\* An access puts what was written before it into the file; nothing else does.
LEMMA DiskStep == [Next]_vars => disk' \in {disk, View}
<1> SUFFICES ASSUME [Next]_vars PROVE disk' \in {disk, View}
    OBVIOUS
<1> USE DEF NoAccess, Access, Flush, Put, PutHeader, WritePage
<1>1. CASE Step
    <2>1. CASE InitPage \/ InitHeader \/ WriteChunk \/ WriteNeedsPage \/ WritePageHeader
        BY <2>1 DEF InitPage, InitHeader, WriteChunk, WriteNeedsPage, WritePageHeader
    <2>2. CASE WriteChunkToPage \/ WriteLast \/ LastPage \/ LastPageHeader \/ WriteHeader
        BY <2>2 DEF WriteChunkToPage, WriteLast, LastPage, LastPageHeader, WriteHeader
    <2>3. CASE FreeChunk \/ FreeJoin \/ FreeHeader
        BY <2>3 DEF FreeChunk, FreeJoin, FreeHeader
    <2> QED
        BY <1>1, <2>1, <2>2, <2>3 DEF Step
<1>2. CASE Reopen \/ Crash \/ Fail
    BY <1>2 DEF Reopen, Crash, Fail
<1>3. ASSUME NEW n \in 1 .. MaxLen, NEW v \in Values, WriteBegin(n, v) PROVE disk' = disk
    BY <1>3 DEF WriteBegin
<1>4. ASSUME NEW p \in DOMAIN held, FreeBegin(p) PROVE disk' = disk
    BY <1>4 DEF FreeBegin
<1>5. CASE UNCHANGED vars
    BY <1>5 DEF vars
<1> QED
    BY <1>1, <1>2, <1>3, <1>4, <1>5 DEF Next

LEMMA NextApart == Apart /\ Settled(disk) /\ [Next]_vars => Apart'
<1> SUFFICES ASSUME Apart, Settled(disk), [Next]_vars PROVE Apart'
    OBVIOUS
<1> PICK A, rank, B, chain, w, H : Shape(A, rank, B, chain, w, H)
    BY DEF Apart
<1>1. CASE InitPage \/ WriteNeedsPage \/ LastPage
    BY <1>1, PageApart
<1>2. CASE InitHeader \/ WritePageHeader \/ LastPageHeader
    BY <1>2, HeaderApart
<1>3. CASE WriteChunk \/ WriteChunkToPage
    BY <1>3, WriteChunkApart
<1>4. CASE WriteLast
    BY <1>4, WriteLastApart
<1>5. CASE WriteHeader
    BY <1>5, WriteHeaderApart
<1>6. CASE FreeChunk \/ FreeJoin
    BY <1>6, FreeChunkApart
<1>7. CASE FreeHeader \/ Fail \/ Reopen
    BY <1>7, ReturnApart
<1>11. CASE Crash
    BY <1>11, CrashApart
<1>8. ASSUME NEW n \in 1 .. MaxLen, NEW v \in Values, WriteBegin(n, v) PROVE Apart'
    BY <1>8, WriteBeginApart
<1>9. ASSUME NEW p \in DOMAIN held, FreeBegin(p) PROVE Apart'
    BY <1>9, FreeBeginApart
<1>10. CASE UNCHANGED vars
    <2>1. UNCHANGED <<link, data, hdr, mem, pc, cur, prev, left, mark, val, held>>
        BY <1>10 DEF vars, file, call
    <2>2. (Typed /\ Inside(A, rank, B) /\ Alive(A, rank) /\ Heads(A))'
        BY <2>1 DEF Shape, Typed, Placed, Inside, Alive, Heads
    <2>3. Structs(A, rank, chain)'
        BY <2>1 DEF Shape, Structs, Row
    <2>4. PageReady' /\ Taking(A, rank, H)'
        BY <2>1 DEF Shape, PageReady, PageAt, Taking
    <2>5. Writing(A, rank, w)'
        BY <2>1 DEF Shape, Writing, Row
    <2>6. Shape(A, rank, B, chain, w, H)'
        BY <2>2, <2>3, <2>4, <2>5 DEF Shape
    <2> QED
        BY <2>6 DEF Apart
<1> QED
    BY <1>1, <1>2, <1>3, <1>4, <1>5, <1>6, <1>7, <1>8, <1>9, <1>10, <1>11 DEF Next, Step

-----------------------------------------------------------------------------
(* What that means for readers of the file.                                *)

\* s is what the links lead to from p on.
Follows(s, p, n) == s[1] = p /\ \A k \in 1 .. n - 1 : link[s[k]] = s[k + 1]

\* ReadStruct follows the row.
LEMMA ReadRow ==
  ASSUME NEW n \in Nat, NEW p, NEW s, Follows(s, p, n)
  PROVE  \A k \in 1 .. n : ReadIn(link, p, n)[k] = s[k]
<1> DEFINE at[k \in 1 .. n] == IF k = 1 THEN p ELSE link[at[k - 1]]
<1>0. s[1] = p /\ \A k \in 1 .. n - 1 : link[s[k]] = s[k + 1]
    BY DEF Follows
<1>1. ReadIn(link, p, n) = at
    BY DEF ReadIn
<1>2. PICK g : g = [k \in 1 .. n |-> s[k]]
    OBVIOUS
<1>3. \A k \in 1 .. n : g[k] = IF k = 1 THEN p ELSE link[g[k - 1]]
    <2> SUFFICES ASSUME NEW k \in 1 .. n PROVE g[k] = IF k = 1 THEN p ELSE link[g[k - 1]]
        OBVIOUS
    <2>1. CASE k = 1
        BY <1>0, <1>2, <2>1
    <2>2. CASE k # 1
        <3> PICK j : j = k - 1
            OBVIOUS
        <3>1. j \in 1 .. n - 1 /\ j \in 1 .. n /\ j + 1 = k
            BY <2>2
        <3>2. link[s[j]] = s[k] /\ g[j] = s[j] /\ g[k] = s[k]
            BY <1>0, <1>2, <3>1
        <3> QED
            BY <2>2, <3>2
    <2> QED
        BY <2>1, <2>2
<1>4. g = [k \in 1 .. n |-> IF k = 1 THEN p ELSE link[g[k - 1]]]
    <2>1. g = [k \in 1 .. n |-> g[k]]
        BY <1>2
    <2> QED
        BY <1>3, <2>1, Zenon
<1>5. \E h : h = [k \in 1 .. n |-> IF k = 1 THEN p ELSE link[h[k - 1]]]
    BY <1>4, Zenon
<1>6. at = [k \in 1 .. n |-> IF k = 1 THEN p ELSE link[at[k - 1]]]
    BY <1>5, Zenon
<1> HIDE DEF at
<1>7. \A k \in 1 .. n : at[k] = IF k = 1 THEN p ELSE link[at[k - 1]]
    BY <1>6, Zenon
<1> DEFINE T == {k \in 0 .. n : k > 0 => at[k] = s[k]}
<1>8. 0 \in T
    OBVIOUS
<1>9. ASSUME NEW i \in 0 .. n - 1, i \in T PROVE i + 1 \in T
    <2> PICK j : j = i + 1
        OBVIOUS
    <2>1. j \in 1 .. n /\ j > 0 /\ j \in 0 .. n /\ j - 1 = i
        OBVIOUS
    <2>2. CASE i = 0
        <3>1. at[j] = p /\ s[j] = p /\ j = 1
            BY <1>0, <1>7, <2>1, <2>2
        <3> QED
            BY <2>1, <3>1
    <2>3. CASE i # 0
        <3>1. i \in 1 .. n - 1 /\ j # 1
            BY <2>1, <2>3
        <3>2. at[i] = s[i]
            BY <1>9, <3>1
        <3>3. at[j] = link[at[i]] /\ s[j] = link[s[i]]
            BY <1>0, <1>7, <2>1, <3>1
        <3> QED
            BY <2>1, <3>2, <3>3
    <2> QED
        BY <2>2, <2>3
<1>10. \A k \in 0 .. n : k \in T
    <2> HIDE DEF T
    <2> QED
        BY <1>8, <1>9, UpTo
<1> QED
    BY <1>1, <1>10

\* The chunks of a structure that is held are the ones of its row.
LEMMA HeldRow ==
  ASSUME NEW A, NEW rank, NEW chain, Typed, Structs(A, rank, chain), NEW p \in DOMAIN held
  PROVE  /\ held[p][2] \in Nat \ {0}
         /\ \A k \in 1 .. held[p][2] : LET c == ReadIn(link, p, held[p][2])[k]
                                       IN c \in DOMAIN link /\ c \notin A /\ data[c] = held[p]
         /\ link[ReadIn(link, p, held[p][2])[held[p][2]]] = 0
<1> PICK n, s : n = held[p][2] /\ s = chain[p]
    OBVIOUS
<1>1. /\ n \in Nat \ {0} /\ s \in [1 .. n -> 1 .. mem.end]
      /\ \A k \in 1 .. n - 1 : link[s[k]] = s[k + 1]
      /\ s[1] = p /\ link[s[n]] = 0
      /\ \A k \in 1 .. n : data[s[k]] = held[p] /\ s[k] \notin A
    BY DEF Structs, Row
<1>2. n \in 1 .. n /\ \A k \in 1 .. n : s[k] \in DOMAIN link
    <2>1. n \in 1 .. n /\ \A k \in 1 .. n : s[k] \in 1 .. mem.end
        BY <1>1
    <2>2. \A c \in 1 .. mem.end : c \in DOMAIN link
        BY Covered
    <2> QED
        BY <2>1, <2>2
<1>4. \A k \in 1 .. n : ReadIn(link, p, n)[k] = s[k]
    <2>1. n \in Nat /\ Follows(s, p, n)
        BY <1>1 DEF Follows
    <2> QED
        BY <2>1, ReadRow
<1> QED
    BY <1>1, <1>2, <1>4

\* The positions a header offers, one after the other.
LEMMA OfferWalk ==
  ASSUME Typed, NEW h, h.free \in Int
  PROVE  \E at : /\ Offered(h) = {at[k] : k \in 0 .. MaxFile} \cap DOMAIN link
                 /\ at[0] = h.free
                 /\ \A k \in 1 .. MaxFile :
                      at[k] = IF at[k - 1] \in DOMAIN link /\ link[at[k - 1]] < 0
                              THEN -link[at[k - 1]] ELSE 0
<1> DEFINE at[k \in 0 .. MaxFile] ==
             IF k = 0 THEN h.free
             ELSE LET c == at[k - 1] IN
                  IF c \in DOMAIN link /\ link[c] < 0 THEN -link[c] ELSE 0
<1> PICK free : free = h.free
    OBVIOUS
<1> PICK step : step = [x \in Int |-> IF x \in DOMAIN link /\ link[x] < 0 THEN -link[x] ELSE 0]
    OBVIOUS
<1>1. free \in Int /\ MaxFile \in Nat
    BY SizesAssumption
<1>2. ASSUME NEW x \in Int PROVE step[x] \in Int
    <2>1. x \in DOMAIN link => link[x] \in Int
        BY LenProperties DEF Typed
    <2> QED
        BY <2>1
<1>3. step \in Steps(Int)
    BY <1>2 DEF Steps
<1>4. Offered(h) = {at[k] : k \in 0 .. MaxFile} \cap DOMAIN link
    BY DEF Offered, OfferedIn
<1> HIDE DEF at
<1>5. PICK g : IsWalk(g, MaxFile, Int, free, step)
    BY <1>1, <1>3, Iterate
<1>6. \A k \in 0 .. MaxFile : g[k] = IF k = 0 THEN h.free
                                     ELSE LET c == g[k - 1] IN
                                          IF c \in DOMAIN link /\ link[c] < 0 THEN -link[c] ELSE 0
    <2> SUFFICES ASSUME NEW k \in 0 .. MaxFile
                 PROVE  g[k] = IF k = 0 THEN h.free
                               ELSE LET c == g[k - 1] IN
                                    IF c \in DOMAIN link /\ link[c] < 0 THEN -link[c] ELSE 0
        OBVIOUS
    <2>1. CASE k = 0
        BY <1>5, <2>1 DEF IsWalk
    <2>2. CASE k # 0
        <3> PICK j : j = k - 1
            OBVIOUS
        <3>1. k \in 1 .. MaxFile /\ j \in 0 .. MaxFile
            BY <1>1, <2>2
        <3>2. g[k] = step[g[j]] /\ g[j] \in Int
            BY <1>5, <3>1 DEF IsWalk
        <3> QED
            BY <2>2, <3>2
    <2> QED
        BY <2>1, <2>2
<1>7. g = [k \in 0 .. MaxFile |-> IF k = 0 THEN h.free
                                  ELSE LET c == g[k - 1] IN
                                       IF c \in DOMAIN link /\ link[c] < 0 THEN -link[c] ELSE 0]
    <2>1. g = [k \in 0 .. MaxFile |-> g[k]]
        BY <1>5 DEF IsWalk
    <2> QED
        BY <1>6, <2>1, Zenon
<1>8. \E f : f = [k \in 0 .. MaxFile |-> IF k = 0 THEN h.free
                                         ELSE LET c == f[k - 1] IN
                                              IF c \in DOMAIN link /\ link[c] < 0 THEN -link[c] ELSE 0]
    BY <1>7, Zenon
<1>9. at = [k \in 0 .. MaxFile |-> IF k = 0 THEN h.free
                                   ELSE LET c == at[k - 1] IN
                                        IF c \in DOMAIN link /\ link[c] < 0 THEN -link[c] ELSE 0]
    BY <1>8, Zenon DEF at
<1>10. \A k \in 0 .. MaxFile : at[k] = IF k = 0 THEN h.free
                                       ELSE LET c == at[k - 1] IN
                                            IF c \in DOMAIN link /\ link[c] < 0 THEN -link[c] ELSE 0
    BY <1>9, Zenon
<1>11. at[0] = h.free
    BY <1>1, <1>10
<1>12. \A k \in 1 .. MaxFile : at[k] = IF at[k - 1] \in DOMAIN link /\ link[at[k - 1]] < 0
                                       THEN -link[at[k - 1]] ELSE 0
    <2>1. \A k \in 1 .. MaxFile : k \in 0 .. MaxFile /\ k # 0
        BY <1>1
    <2> QED
        BY <1>10, <2>1
<1> QED
    BY <1>4, <1>11, <1>12

\* A header offers only what can be reached.
LEMMA OffersReach ==
  ASSUME NEW A, NEW rank, NEW B, Typed, Inside(A, rank, B), Alive(A, rank),
         NEW h, h.free \in Int, h.free # 0 => Abs(h.free) \in A
  PROVE  Offered(h) \subseteq A
<1> DEFINE S == {x \in Int : x # 0 => Abs(x) \in A}
<1>1. PICK at : /\ Offered(h) = {at[k] : k \in 0 .. MaxFile} \cap DOMAIN link
                /\ at[0] = h.free
                /\ \A k \in 1 .. MaxFile :
                     at[k] = IF at[k - 1] \in DOMAIN link /\ link[at[k - 1]] < 0
                             THEN -link[at[k - 1]] ELSE 0
    BY OfferWalk
<1>2. ASSUME NEW x \in S, x \in DOMAIN link, link[x] < 0 PROVE -link[x] \in S
    <2>1. DOMAIN link = 1 .. Len(link) /\ link[x] \in Int
        BY <1>2, LenProperties DEF Typed
    <2>2. x # 0 /\ x \in Int /\ Abs(x) = x /\ link[x] # 0
        BY <1>2, <2>1 DEF Abs
    <2>3. Abs(link[x]) \in A
        BY <2>2 DEF Alive
    <2> QED
        BY <2>1, <2>3, OtherSign
<1>3. MaxFile \in Nat /\ 0 \in S
    BY SizesAssumption
<1> DEFINE T == {k \in 0 .. MaxFile : at[k] \in S}
<1>4. 0 \in T
    BY <1>1, <1>3
<1>5. ASSUME NEW i \in 0 .. MaxFile - 1, i \in T PROVE i + 1 \in T
    <2> PICK j : j = i + 1
        OBVIOUS
    <2>1. j \in 1 .. MaxFile /\ j \in 0 .. MaxFile /\ j - 1 = i
        BY <1>3
    <2>2. at[j] = IF at[i] \in DOMAIN link /\ link[at[i]] < 0 THEN -link[at[i]] ELSE 0
        BY <1>1, <2>1
    <2>3. at[i] \in S
        BY <1>5
    <2> HIDE DEF S
    <2>4. at[j] \in S
        BY <1>2, <1>3, <2>2, <2>3
    <2> QED
        BY <2>1, <2>4
<1>6. \A k \in 0 .. MaxFile : at[k] \in S
    <2>1. \A k \in 0 .. MaxFile : k \in T
        <3> HIDE DEF T
        <3> QED
            BY <1>3, <1>4, <1>5, UpTo
    <2> QED
        BY <2>1
<1>7. ASSUME NEW c \in Offered(h) PROVE c \in A
    <2>1. c \in S /\ c \in DOMAIN link
        BY <1>1, <1>6
    <2>2. DOMAIN link = 1 .. Len(link) /\ Len(link) \in Nat
        BY Covered
    <2> QED
        BY <2>1, <2>2 DEF Abs
<1> QED
    BY <1>7

\* No header of file f offers a chunk of a structure f holds.
Refuses(f) == OfferedIn(f.link, f.hdr) \cap HeldChunksIn(f.link, f.held) = {}

\* What is read in the file as the process sees it.
LEMMA ViewIntact == Apart => Intact(View)
<1> SUFFICES ASSUME Apart PROVE Intact(View)
    OBVIOUS
<1> PICK A, rank, B, chain, w, H : Shape(A, rank, B, chain, w, H)
    BY DEF Apart
<1>1. Typed /\ Structs(A, rank, chain)
    BY DEF Shape
<1>2. \A p \in DOMAIN held :
         LET n == held[p][2] IN
         /\ \A k \in 1 .. n : ReadIn(link, p, n)[k] \in DOMAIN link /\ data[ReadIn(link, p, n)[k]] = held[p]
         /\ link[ReadIn(link, p, n)[n]] = 0
    BY <1>1, HeldRow
<1> PICK f : f = View
    OBVIOUS
<1>3. f.link = link /\ f.data = data /\ f.held = held
    BY DEF View
<1>4. Intact(f)
    BY <1>2, <1>3 DEF Intact
<1> QED
    BY <1>4

LEMMA ViewRefuses ==
  Apart => Refuses(View) /\ (Offered(hdr) \cup Offered(mem)) \cap HeldChunks = {}
<1> SUFFICES ASSUME Apart PROVE Refuses(View) /\ (Offered(hdr) \cup Offered(mem)) \cap HeldChunks = {}
    OBVIOUS
<1> PICK A, rank, B, chain, w, H : Shape(A, rank, B, chain, w, H)
    BY DEF Apart
<1>1. Typed /\ Inside(A, rank, B) /\ Alive(A, rank) /\ Heads(A) /\ Structs(A, rank, chain)
    BY DEF Shape
<1>2. /\ hdr.free \in Int /\ (hdr.free # 0 => Abs(hdr.free) \in A)
      /\ mem.free \in Int /\ (mem.free # 0 => Abs(mem.free) \in A)
    BY <1>1 DEF Typed, Heads
<1>3. Offered(hdr) \subseteq A /\ Offered(mem) \subseteq A
    BY <1>1, <1>2, OffersReach
<1>4. \A c \in HeldChunks : c \notin A
    <2> SUFFICES ASSUME NEW p \in DOMAIN held, NEW k \in 1 .. held[p][2]
                 PROVE  ReadIn(link, p, held[p][2])[k] \notin A
        BY DEF HeldChunks, HeldChunksIn
    <2> QED
        BY <1>1, HeldRow
<1>5. (Offered(hdr) \cup Offered(mem)) \cap HeldChunks = {}
    BY <1>3, <1>4
<1>6. View.link = link /\ View.hdr = hdr /\ View.held = held
    BY DEF View
<1>7. Refuses(View)
    BY <1>5, <1>6 DEF Refuses, Offered, HeldChunks
<1> QED
    BY <1>5, <1>7

\* The file is what the process saw before its last access.
Behind == Settled(disk) /\ Intact(disk) /\ Refuses(disk)

Safe == Apart /\ Behind

LEMMA InitSafe == Init => Safe
<1> SUFFICES ASSUME Init PROVE Safe
    OBVIOUS
<1>1. Apart
    BY InitApart
<1>2. disk = View
    BY DEF Init
<1> QED
    BY <1>1, <1>2, ViewSettled, ViewIntact, ViewRefuses DEF Safe, Behind

LEMMA NextSafe == Safe /\ [Next]_vars => Safe'
<1> SUFFICES ASSUME Safe, [Next]_vars PROVE Safe'
    OBVIOUS
<1>1. Apart'
    BY NextApart DEF Safe, Behind
<1>2. Settled(View) /\ Intact(View) /\ Refuses(View)
    BY ViewSettled, ViewIntact, ViewRefuses DEF Safe
<1>3. disk' = disk \/ disk' = View
    BY DiskStep
<1>4. Behind'
    BY <1>2, <1>3 DEF Safe, Behind
<1> QED
    BY <1>1, <1>4 DEF Safe

LEMMA SafeInvariant == Spec => []Safe
    BY InitSafe, NextSafe, PTL DEF Spec

\* Whatever call is running, whatever writes have failed and however often the
\* process was killed, in the middle of which call ever, with its last write
\* still in the buffer: a structure that was written and not freed is read as it
\* was written, in the file too if an access has been made since; until a call
\* goes astray.
THEOREM HeldStaysIntact == Spec => []HeldIntact
<1>1. Safe => HeldIntact
    BY ViewIntact DEF Safe, Behind, HeldIntact
<1> QED
    BY <1>1, SafeInvariant, PTL

\* After any faults: the next write is given no chunk of a structure that is
\* held, neither by the header in memory nor by the one in the buffer, nor after
\* a kill by the one in the file one of those that the file accounts for.
THEOREM HeldNeverOffered == Spec => []NeverOffered
<1>1. Safe => NeverOffered
    BY ViewRefuses DEF Safe, Behind, Refuses, NeverOffered
<1> QED
    BY <1>1, SafeInvariant, PTL

-----------------------------------------------------------------------------
(* What a crash costs.  Until the first fault every chunk of the file is   *)
(* somebody's: own[c] is 0 for a chunk of the free list, p for one of the  *)
(* structure held at p and -1 for one of the batch that is being written   *)
(* or freed.  ord[c] counts the chunks from c to the end of its list.      *)

\* The chunk behind c is d, unless c is the last of its list.
Leads(own, ord, c, d) ==
  IF ord[c] = 1 THEN link[c] = 0
  ELSE d \in 1 .. mem.end /\ own[d] = own[c] /\ ord[d] = ord[c] - 1

Owned(own, ord) ==
  /\ mem.end \in Nat /\ mem.free \in Int /\ mark \in Int
  /\ \A c \in 1 .. mem.end : /\ own[c] \in {0, -1} \cup DOMAIN held
                             /\ ord[c] \in Nat \ {0} /\ link[c] \in Int
  /\ \A c, d \in 1 .. mem.end : own[c] = own[d] /\ ord[c] = ord[d] => c = d

\* Where the part of the free list begins that no call has taken.
FreeHead ==
  IF pc \in {"chunk", "pageHeader"} THEN -link[cur] ELSE IF Freeing THEN mark ELSE mem.free

FreeList(own, ord) ==
  /\ FreeHead # 0 => FreeHead \in 1 .. mem.end /\ own[FreeHead] = 0
  /\ \A c \in 1 .. mem.end : own[c] = 0 =>
       /\ FreeHead # 0 /\ ord[c] <= ord[FreeHead]
       /\ Leads(own, ord, c, -link[c])

HeldList(own, ord, p) ==
  /\ held[p][2] \in Nat \ {0} /\ p \in 1 .. mem.end
  /\ own[p] = p /\ ord[p] = held[p][2]
  /\ \A c \in 1 .. mem.end : own[c] = p =>
       ord[c] <= held[p][2] /\ Leads(own, ord, c, link[c])

HeldLists(own, ord) == \A p \in DOMAIN held : HeldList(own, ord, p)

InLast == pc \in {"lastPage", "lastPageHeader", "writeHeader"}
InWrite == pc \in {"chunk", "pageHeader", "chunkToPage"} \/ InLast

\* What WriteBytesBatch has written, up to the chunk it is at.
Written(own, ord) ==
  InWrite =>
    /\ val[2] \in Nat /\ left \in 1 .. val[2]
    /\ cur \in 1 .. mem.end /\ own[cur] = -1 /\ ord[cur] = left
    /\ mark \in 1 .. mem.end /\ own[mark] = -1 /\ ord[mark] = val[2]
    /\ \A c \in 1 .. mem.end : own[c] = -1 =>
         /\ ord[c] >= left /\ ord[c] <= val[2]
         /\ c # cur => data[c] = val /\ Leads(own, ord, c, link[c])
    /\ link[cur] <= 0
    /\ pc \in {"pageHeader", "chunkToPage"} => left > 1 /\ link[cur] = 0
    /\ pc = "chunkToPage" => mem.free # 0
    /\ InLast => left = 1 /\ link[cur] = 0

\* What FreeBytesBatch has taken apart, and what it has still before it.
Taken(own, ord) ==
  Freeing =>
    /\ val[2] \in Nat \ {0}
    /\ mem.free \in 1 .. mem.end /\ own[mem.free] = -1 /\ ord[mem.free] = val[2]
    /\ \A c \in 1 .. mem.end : own[c] = -1 => ord[c] <= val[2]
    /\ pc = "freeChunk" =>
         /\ cur # 0 => cur \in 1 .. mem.end /\ own[cur] = -1
         /\ cur = 0 => prev \in 1 .. mem.end /\ own[prev] = -1 /\ ord[prev] = 1
         /\ \A c \in 1 .. mem.end : own[c] = -1 =>
              Leads(own, ord, c, IF cur = 0 \/ ord[c] > ord[cur] THEN -link[c] ELSE link[c])
    /\ pc = "freeHeader" =>
         \A c \in 1 .. mem.end : own[c] = -1 =>
           IF ord[c] = 1 THEN link[c] = -mark ELSE Leads(own, ord, c, -link[c])

\* The header in the file is the one in memory until a call has changed that.
Headers(own) ==
  /\ ~InLast /\ ~Freeing => hdr = mem
  /\ Freeing => hdr.free = mark /\ mark # 0
  /\ InWrite => hdr.free \in 1 .. mem.end /\ own[hdr.free] \in {0, -1}
  /\ ~InWrite /\ ~Freeing => \A c \in 1 .. mem.end : own[c] # -1
  /\ pc \in {"initPage", "initHeader", "lastPage", "lastPageHeader"} => mem.free = 0

\* The bound of the model leaves room for the pages the call may need.
Fits(ord) ==
  /\ mem.end <= MaxFile
  /\ pc \in {"initPage", "initHeader", "lastPage", "lastPageHeader"} => mem.end + ChunksPerPage <= MaxFile
  /\ pc \in {"chunk", "pageHeader"} => \/ FreeHead # 0 /\ left <= ord[FreeHead]
                                       \/ mem.end + left * ChunksPerPage <= MaxFile
  /\ pc = "chunkToPage" => mem.end + (left - 1) * ChunksPerPage <= MaxFile

Books(own, ord) ==
  /\ Owned(own, ord) /\ FreeList(own, ord) /\ HeldLists(own, ord)
  /\ Written(own, ord) /\ Taken(own, ord) /\ Headers(own) /\ Fits(ord)

Ledger == faults = <<>> => \E own, ord : Books(own, ord)

-----------------------------------------------------------------------------

\* Their numbers tell the members of S apart, and nx leads from each to the one
\* with the number below.
Numbered(S, ord, nx, h) ==
  /\ \A c \in S : ord[c] \in Nat \ {0} /\ ord[c] <= ord[h]
  /\ \A c, d \in S : ord[c] = ord[d] => c = d
  /\ \A c \in S : ord[c] # 1 => nx[c] \in S /\ ord[nx[c]] = ord[c] - 1

\* s is the row of all of them.
InOrder(s, S, ord, nx, h) ==
  /\ s \in [1 .. ord[h] -> S]
  /\ s[1] = h
  /\ \A k \in 1 .. ord[h] - 1 : s[k + 1] = nx[s[k]]
  /\ \A k \in 1 .. ord[h] : ord[s[k]] = ord[h] + 1 - k
  /\ \A c \in S : c = s[ord[h] + 1 - ord[c]]

\* A list that numbers its chunks from the last one on is a row: whoever
\* follows nx from the chunk with the greatest number meets all of them.
LEMMA Numbering ==
  ASSUME NEW S, NEW ord, NEW nx, NEW h \in S, NEW E \in Nat, S \subseteq 1 .. E,
         Numbered(S, ord, nx, h)
  PROVE  /\ ord[h] <= E
         /\ \E s : InOrder(s, S, ord, nx, h)
<1> PICK n : n = ord[h]
    OBVIOUS
<1>0. n \in Nat /\ n >= 1
    BY DEF Numbered
<1>st. PICK step : step = [c \in S |-> IF ord[c] = 1 THEN c ELSE nx[c]]
    OBVIOUS
<1>1. step \in Steps(S)
    <2>1. \A c \in S : (IF ord[c] = 1 THEN c ELSE nx[c]) \in S
        BY DEF Numbered
    <2> QED
        BY <1>st, <2>1 DEF Steps
<1> PICK N : N = n - 1
    OBVIOUS
<1>2. PICK f : IsWalk(f, N, S, h, step)
    BY <1>0, <1>1, Iterate
<1>3. /\ f \in [0 .. N -> S] /\ f[0] = h
      /\ \A k \in 1 .. N : f[k] = step[f[k - 1]]
    BY <1>2 DEF IsWalk
<1> DEFINE T == {k \in 0 .. N : ord[f[k]] = n - k}
<1>4. 0 \in T
    BY <1>0, <1>3
<1>5. ASSUME NEW i \in 0 .. N - 1, i \in T PROVE i + 1 \in T
    <2> PICK j : j = i + 1
        OBVIOUS
    <2>1. j \in 1 .. N /\ j \in 0 .. N /\ j - 1 = i /\ i \in 0 .. N
        BY <1>0
    <2>2. ord[f[i]] = n - i /\ f[i] \in S
        BY <1>3, <1>5, <2>1
    <2>3. ord[f[i]] # 1
        BY <1>0, <2>2
    <2>4. f[j] = nx[f[i]]
        BY <1>st, <1>3, <2>1, <2>2, <2>3
    <2>5. ord[nx[f[i]]] = ord[f[i]] - 1
        BY <2>2, <2>3 DEF Numbered
    <2>6. ord[f[j]] = n - j
        BY <1>0, <2>2, <2>4, <2>5
    <2> QED
        BY <2>1, <2>6
<1>6. \A k \in 0 .. N : k \in T
    <2>1. N \in Nat
        BY <1>0
    <2> HIDE DEF T
    <2> QED
        BY <1>4, <1>5, <2>1, UpTo
<1>sq. PICK s : s = [k \in 1 .. n |-> f[k - 1]]
    OBVIOUS
<1>7. \A k \in 1 .. n : k - 1 \in 0 .. N /\ s[k] = f[k - 1] /\ s[k] \in S /\ ord[s[k]] = n + 1 - k
    <2> SUFFICES ASSUME NEW k \in 1 .. n
                 PROVE  k - 1 \in 0 .. N /\ s[k] = f[k - 1] /\ s[k] \in S /\ ord[s[k]] = n + 1 - k
        OBVIOUS
    <2>1. k - 1 \in 0 .. N /\ s[k] = f[k - 1]
        BY <1>sq, <1>0
    <2>2. ord[f[k - 1]] = n - (k - 1)
        BY <1>6, <2>1
    <2> QED
        BY <1>0, <1>3, <2>1, <2>2
<1>8. s \in [1 .. n -> S] /\ s[1] = h
    <2>1. s[1] = f[0]
        BY <1>sq, <1>0
    <2> QED
        BY <1>sq, <1>3, <1>7, <2>1
<1>9. \A k \in 1 .. n - 1 : s[k + 1] = nx[s[k]]
    <2> SUFFICES ASSUME NEW k \in 1 .. n - 1 PROVE s[k + 1] = nx[s[k]]
        OBVIOUS
    <2>1. k \in 1 .. n /\ k + 1 \in 1 .. n /\ k \in 1 .. N /\ (k + 1) - 1 = k
        BY <1>0
    <2>2. s[k + 1] = step[s[k]]
        BY <1>3, <1>7, <2>1
    <2>3. ord[s[k]] # 1 /\ s[k] \in S
        BY <1>0, <1>7, <2>1
    <2> QED
        BY <1>st, <2>2, <2>3
<1>10. ASSUME NEW c \in S PROVE c = s[n + 1 - ord[c]]
    <2> PICK k : k = n + 1 - ord[c]
        OBVIOUS
    <2>1. k \in 1 .. n /\ n + 1 - k = ord[c]
        BY <1>0 DEF Numbered
    <2>2. ord[s[k]] = ord[c] /\ s[k] \in S
        BY <1>7, <2>1
    <2> QED
        BY <2>2 DEF Numbered
<1>11. n <= E
    <2>1. ASSUME NEW j \in 1 .. n, NEW k \in 1 .. n, s[j] = s[k] PROVE j = k
        <3>1. n + 1 - j = n + 1 - k
            BY <1>7, <2>1
        <3> QED
            BY <1>0, <3>1
    <2>2. s \in [1 .. n -> 1 .. E]
        BY <1>8
    <2>3. IsFiniteSet(1 .. E) /\ Cardinality(1 .. E) = E
        <3>1. /\ IsFiniteSet(1 .. E)
              /\ Cardinality(1 .. E) = IF 1 > E THEN 0 ELSE E - 1 + 1
            BY FS_Interval
        <3> QED
            BY <3>1
    <2>4. n <= Cardinality(1 .. E)
        BY <1>0, <2>1, <2>2, <2>3, WalkBound
    <2> QED
        BY <2>3, <2>4
<1>12. \A k \in 1 .. n : ord[s[k]] = n + 1 - k
    BY <1>7
<1>13. InOrder(s, S, ord, nx, h)
    BY <1>8, <1>9, <1>10, <1>12 DEF InOrder
<1> QED
    BY <1>11, <1>13

\* A header with the head of the free list offers the chunks of it, and no more.
LEMMA OffersFree ==
  ASSUME Typed, NEW own, NEW ord, Owned(own, ord), FreeList(own, ord), mem.end <= MaxFile,
         NEW h, h.free = FreeHead, FreeHead # 0
  PROVE  /\ Offered(h) = {c \in 1 .. mem.end : own[c] = 0}
         /\ ord[FreeHead] \in Nat
         /\ Cardinality(Offered(h)) <= ord[FreeHead]
<1>s. PICK S : S = {c \in 1 .. mem.end : own[c] = 0}
    OBVIOUS
<1>e. /\ mem.end \in Nat /\ mem.end <= Len(link) /\ DOMAIN link = 1 .. Len(link) /\ Len(link) \in Nat
      /\ S \subseteq 1 .. mem.end /\ MaxFile \in Nat
    BY <1>s, Covered, SizesAssumption DEF Typed
<1>h. PICK hd, n : hd = FreeHead /\ n = ord[FreeHead]
    OBVIOUS
<1>n. PICK nx : nx = [c \in S |-> -link[c]]
    OBVIOUS
<1>1. hd \in S /\ n \in Nat /\ n >= 1 /\ h.free = hd /\ hd # 0 /\ hd \in Int /\ n = ord[hd]
    BY <1>s, <1>h DEF FreeList, Owned
<1>2. Numbered(S, ord, nx, hd)
    <2>1. \A c \in S : ord[c] \in Nat \ {0} /\ ord[c] <= ord[hd]
        BY <1>s, <1>h DEF FreeList, Owned
    <2>2. \A c, d \in S : ord[c] = ord[d] => c = d
        BY <1>s DEF Owned
    <2>3. \A c \in S : ord[c] # 1 => nx[c] \in S /\ ord[nx[c]] = ord[c] - 1
        BY <1>s, <1>n DEF FreeList, Leads
    <2> QED
        BY <2>1, <2>2, <2>3 DEF Numbered
<1>r. PICK s : InOrder(s, S, ord, nx, hd)
    BY <1>1, <1>2, <1>e, Numbering
<1>3. /\ s \in [1 .. n -> S]
      /\ s[1] = hd
      /\ \A k \in 1 .. n - 1 : s[k + 1] = nx[s[k]]
      /\ \A k \in 1 .. n : ord[s[k]] = n + 1 - k
      /\ \A c \in S : c = s[n + 1 - ord[c]]
    BY <1>1, <1>r DEF InOrder
<1>4. n <= MaxFile
    <2>1. n <= mem.end
        BY <1>1, <1>2, <1>e, Numbering
    <2> QED
        BY <1>1, <1>e, <2>1
<1>5. PICK at : /\ Offered(h) = {at[k] : k \in 0 .. MaxFile} \cap DOMAIN link
                /\ at[0] = h.free
                /\ \A k \in 1 .. MaxFile :
                     at[k] = IF at[k - 1] \in DOMAIN link /\ link[at[k - 1]] < 0
                             THEN -link[at[k - 1]] ELSE 0
    BY <1>1, OfferWalk
\* Each chunk of the list but the last leads to the next; the last leads to 0.
<1>6. \A c \in S : /\ c \in DOMAIN link /\ link[c] \in Int
                   /\ ord[c] = 1 => link[c] = 0
                   /\ ord[c] # 1 => link[c] < 0 /\ nx[c] = -link[c]
    <2> SUFFICES ASSUME NEW c \in S
                 PROVE  /\ c \in DOMAIN link /\ link[c] \in Int
                        /\ ord[c] = 1 => link[c] = 0
                        /\ ord[c] # 1 => link[c] < 0 /\ nx[c] = -link[c]
        OBVIOUS
    <2>1. c \in 1 .. mem.end /\ own[c] = 0 /\ c \in DOMAIN link /\ nx[c] = -link[c]
        BY <1>s, <1>n, <1>e
    <2>2. link[c] \in Int /\ Leads(own, ord, c, -link[c])
        BY <2>1 DEF Owned, FreeList
    <2>3. ord[c] # 1 => -link[c] \in 1 .. mem.end
        BY <2>2 DEF Leads
    <2> QED
        BY <1>e, <2>1, <2>2, <2>3 DEF Leads
<1> DEFINE T == {k \in 0 .. MaxFile : at[k] = IF k < n THEN s[k + 1] ELSE 0}
<1>7. 0 \in T
    BY <1>1, <1>3, <1>5, <1>e
<1>8. ASSUME NEW i \in 0 .. MaxFile - 1, i \in T PROVE i + 1 \in T
    <2> PICK j : j = i + 1
        OBVIOUS
    <2>1. j \in 1 .. MaxFile /\ j \in 0 .. MaxFile /\ j - 1 = i /\ i \in Nat
        BY <1>e
    <2>2. at[j] = IF at[i] \in DOMAIN link /\ link[at[i]] < 0 THEN -link[at[i]] ELSE 0
        BY <1>5, <2>1
    <2>3. at[i] = IF i < n THEN s[i + 1] ELSE 0
        BY <1>8
    <2>4. CASE i < n
        <3>0. j \in 1 .. n /\ at[i] = s[j]
            BY <1>1, <2>1, <2>3, <2>4
        <3>1. j \in 1 .. n /\ at[i] = s[j] /\ s[j] \in S /\ ord[s[j]] = n + 1 - j
            BY <1>3, <3>0
        <3>2. CASE j = n
            <4>1. ord[s[j]] = 1
                BY <1>1, <3>1, <3>2
            <4>2. link[s[j]] = 0
                BY <1>6, <3>1, <4>1
            <4>3. at[j] = 0
                BY <2>2, <3>1, <4>2
            <4> QED
                BY <1>1, <2>1, <3>2, <4>3
        <3>3. CASE j # n
            <4>1. ord[s[j]] # 1 /\ j \in 1 .. n - 1 /\ j < n
                BY <1>1, <3>1, <3>3
            <4>2. s[j] \in DOMAIN link /\ link[s[j]] < 0 /\ nx[s[j]] = -link[s[j]]
                BY <1>6, <3>1, <4>1
            <4>3. at[j] = s[j + 1]
                BY <1>3, <2>2, <3>1, <4>1, <4>2
            <4> QED
                BY <2>1, <4>1, <4>3
        <3> QED
            BY <3>2, <3>3
    <2>5. CASE ~(i < n)
        <3>1. at[i] = 0 /\ 0 \notin DOMAIN link /\ ~(j < n)
            BY <1>1, <1>e, <2>1, <2>3, <2>5
        <3>2. at[j] = 0
            BY <2>2, <3>1
        <3> QED
            BY <2>1, <3>1, <3>2
    <2> QED
        BY <2>4, <2>5
<1>9. \A k \in 0 .. MaxFile : at[k] = IF k < n THEN s[k + 1] ELSE 0
    <2>1. \A k \in 0 .. MaxFile : k \in T
        <3> HIDE DEF T
        <3> QED
            BY <1>7, <1>8, <1>e, UpTo
    <2> QED
        BY <2>1
<1> HIDE DEF T
<1>10. ASSUME NEW c \in Offered(h) PROVE c \in S
    <2>1. PICK k \in 0 .. MaxFile : c = at[k]
        BY <1>5
    <2>2. c \in DOMAIN link
        BY <1>5
    <2>3. k < n /\ c = s[k + 1]
        BY <1>9, <1>e, <2>1, <2>2
    <2>4. k + 1 \in 1 .. n
        BY <1>1, <2>3
    <2> QED
        BY <1>3, <2>3, <2>4
<1>11. ASSUME NEW c \in S PROVE c \in Offered(h)
    <2>1. ord[c] \in Nat \ {0} /\ ord[c] <= n /\ c = s[n + 1 - ord[c]]
        BY <1>1, <1>2, <1>3 DEF Numbered
    <2> PICK k : k = n - ord[c]
        OBVIOUS
    <2>2. k \in 0 .. MaxFile /\ k < n /\ k + 1 = n + 1 - ord[c]
        <3>1. PICK o : o = ord[c]
            OBVIOUS
        <3>2. o \in Nat /\ o >= 1 /\ o <= n /\ k = n - o /\ n \in Nat /\ MaxFile \in Nat
            BY <1>1, <1>e, <2>1, <3>1
        <3>3. k \in 0 .. MaxFile /\ k < n /\ k + 1 = n + 1 - o
            BY <1>4, <3>2
        <3> QED
            BY <3>1, <3>3
    <2>3. at[k] = c
        BY <1>9, <2>1, <2>2
    <2>4. c \in DOMAIN link
        BY <1>6
    <2> QED
        BY <1>5, <2>2, <2>3, <2>4
<1>12. Offered(h) = S
    BY <1>10, <1>11
<1>13. Cardinality(S) <= n
    <2>0. PICK t : t = [c \in S |-> ord[c]]
        OBVIOUS
    <2>1. t \in [S -> 1 .. n] /\ \A c, d \in S : t[c] = t[d] => c = d
        <3>1. \A c \in S : ord[c] \in 1 .. n
            BY <1>1, <1>2 DEF Numbered
        <3> QED
            BY <1>2, <2>0, <3>1 DEF Numbered
    <2>2. t \in Injection(S, 1 .. n)
        BY <2>1 DEF Injection, IsInjective
    <2>3. IsFiniteSet(1 .. n) /\ Cardinality(1 .. n) = n
        <3>1. n \in Int /\ 1 \in Int /\ ~(1 > n) /\ n - 1 + 1 = n
            BY <1>1
        <3> QED
            BY <3>1, FS_Interval
    <2>4. Cardinality(S) <= Cardinality(1 .. n)
        BY <2>2, <2>3, FS_Injection
    <2> QED
        BY <2>3, <2>4
<1> QED
    BY <1>s, <1>h, <1>1, <1>12, <1>13

\* Every chunk of a list that is held is read with its structure.
LEMMA HeldRead ==
  ASSUME NEW own, NEW ord, Owned(own, ord), HeldLists(own, ord),
         NEW c \in 1 .. mem.end, own[c] \in DOMAIN held
  PROVE  c \in HeldChunks
<1>p. PICK p, n : p = own[c] /\ n = held[p][2]
    OBVIOUS
<1>s. PICK S : S = {d \in 1 .. mem.end : own[d] = p}
    OBVIOUS
<1>n. PICK nx : nx = [d \in S |-> link[d]]
    OBVIOUS
<1>1. p \in DOMAIN held /\ n \in Nat \ {0} /\ p \in S /\ ord[p] = n /\ c \in S
    BY <1>p, <1>s DEF HeldLists, HeldList
<1>2. S \subseteq 1 .. mem.end /\ mem.end \in Nat
    BY <1>s DEF Owned
<1>3. Numbered(S, ord, nx, p)
    <2>1. \A d \in S : ord[d] \in Nat \ {0} /\ ord[d] <= ord[p]
        BY <1>p, <1>s, <1>1 DEF HeldLists, HeldList, Owned
    <2>2. \A d, e \in S : ord[d] = ord[e] => d = e
        BY <1>s DEF Owned
    <2>3. \A d \in S : ord[d] # 1 => nx[d] \in S /\ ord[nx[d]] = ord[d] - 1
        BY <1>s, <1>n, <1>1 DEF HeldLists, HeldList, Leads
    <2> QED
        BY <2>1, <2>2, <2>3 DEF Numbered
<1>4. PICK s : InOrder(s, S, ord, nx, p)
    BY <1>1, <1>2, <1>3, Numbering
<1>5. /\ s \in [1 .. n -> S] /\ s[1] = p
      /\ \A k \in 1 .. n - 1 : s[k + 1] = nx[s[k]]
      /\ c = s[n + 1 - ord[c]]
    BY <1>1, <1>4 DEF InOrder
<1>6. Follows(s, p, n)
    <2> SUFFICES ASSUME NEW k \in 1 .. n - 1 PROVE link[s[k]] = s[k + 1]
        BY <1>5 DEF Follows
    <2>1. k \in 1 .. n
        BY <1>1
    <2>2. s[k] \in S
        BY <1>5, <2>1
    <2> QED
        BY <1>5, <1>n, <2>2
<1>7. n + 1 - ord[c] \in 1 .. n
    <2>1. ord[c] \in Nat \ {0} /\ ord[c] <= n
        BY <1>1, <1>3 DEF Numbered
    <2> QED
        BY <1>1, <2>1
<1>8. c = ReadIn(link, p, n)[n + 1 - ord[c]]
    BY <1>1, <1>5, <1>6, <1>7, ReadRow
<1> QED
    BY <1>p, <1>1, <1>7, <1>8 DEF HeldChunks, HeldChunksIn

\* What the books say of a crash at this moment.
LEMMA LossCounted ==
  ASSUME Typed, NEW own, NEW ord, Books(own, ord)
  PROVE  /\ Idle => Lost = {}
         /\ Freeing => Cardinality(Lost) <= val[2]
         /\ hdr.free # 0 /\ link[hdr.free] > 0 => ~Idle /\ ~Freeing /\ data[hdr.free] = val
<1>0. /\ Owned(own, ord) /\ FreeList(own, ord) /\ HeldLists(own, ord) /\ Headers(own)
      /\ Written(own, ord) /\ Taken(own, ord) /\ mem.end <= MaxFile
    BY DEF Books, Fits
<1>1. hdr.end = mem.end
    BY DEF Typed
<1>2. ASSUME NEW c \in 1 .. mem.end, own[c] \in DOMAIN held PROVE c \in HeldChunks
    BY <1>0, <1>2, HeldRead
<1>3. ASSUME Idle \/ Freeing, NEW c \in 1 .. mem.end, own[c] = 0 PROVE c \in Offered(hdr)
    <2>1. hdr.free = FreeHead
        BY <1>0, <1>3 DEF FreeHead, Headers, Idle, Freeing, InLast
    <2>2. FreeHead # 0
        BY <1>0, <1>3 DEF FreeList
    <2> QED
        BY <1>0, <1>3, <2>1, <2>2, OffersFree
<1>4. Idle => Lost = {}
    <2> SUFFICES ASSUME Idle, NEW c \in Lost PROVE FALSE
        OBVIOUS
    <2>1. c \in 1 .. mem.end /\ c \notin Offered(hdr) /\ c \notin HeldChunks
        BY <1>1 DEF Lost, LostIn, Offered, HeldChunks
    <2>2. own[c] # -1
        BY <1>0, <2>1 DEF Headers, Idle, InWrite, InLast, Freeing
    <2> QED
        BY <1>0, <1>2, <1>3, <2>1, <2>2 DEF Owned
<1>5. Freeing => Cardinality(Lost) <= val[2]
    <2> SUFFICES ASSUME Freeing PROVE Cardinality(Lost) <= val[2]
        OBVIOUS
    <2>n. PICK n : n = val[2]
        OBVIOUS
    <2>t. PICK t : t = [c \in Lost |-> ord[c]]
        OBVIOUS
    <2>1. \A c \in Lost : c \in 1 .. mem.end /\ own[c] = -1
        <3> SUFFICES ASSUME NEW c \in Lost PROVE c \in 1 .. mem.end /\ own[c] = -1
            OBVIOUS
        <3>1. c \in 1 .. mem.end /\ c \notin Offered(hdr) /\ c \notin HeldChunks
            BY <1>1 DEF Lost, LostIn, Offered, HeldChunks
        <3> QED
            BY <1>0, <1>2, <1>3, <3>1 DEF Owned
    <2>2. n \in Nat /\ n >= 1 /\ \A c \in Lost : ord[c] \in 1 .. n
        <3>1. val[2] \in Nat \ {0} /\ \A c \in 1 .. mem.end : own[c] = -1 => ord[c] <= val[2]
            BY <1>0 DEF Taken
        <3>2. \A c \in 1 .. mem.end : ord[c] \in Nat \ {0}
            BY <1>0 DEF Owned
        <3> QED
            BY <2>n, <2>1, <3>1, <3>2
    <2>3. t \in [Lost -> 1 .. n] /\ \A c, d \in Lost : t[c] = t[d] => c = d
        BY <1>0, <2>t, <2>1, <2>2 DEF Owned
    <2>4. t \in Injection(Lost, 1 .. n)
        BY <2>3 DEF Injection, IsInjective
    <2>5. IsFiniteSet(1 .. n) /\ Cardinality(1 .. n) = n
        <3>1. n \in Int /\ 1 \in Int /\ ~(1 > n) /\ n - 1 + 1 = n
            BY <2>2
        <3> QED
            BY <3>1, FS_Interval
    <2>6. Cardinality(Lost) <= Cardinality(1 .. n)
        BY <2>4, <2>5, FS_Injection
    <2> QED
        BY <2>n, <2>5, <2>6
<1>6. ASSUME hdr.free # 0, link[hdr.free] > 0 PROVE ~Idle /\ ~Freeing /\ data[hdr.free] = val
    <2> PICK h : h = hdr.free
        OBVIOUS
    <2>1. ASSUME h \in 1 .. mem.end, own[h] = 0 PROVE FALSE
        <3>1. link[h] \in Int /\ Leads(own, ord, h, -link[h]) /\ mem.end \in Nat
            BY <1>0, <2>1 DEF FreeList, Owned
        <3>2. link[h] = 0 \/ -link[h] \in 1 .. mem.end
            BY <3>1 DEF Leads
        <3> QED
            BY <1>6, <3>1, <3>2
    <2>2. ASSUME ~InWrite PROVE h \in 1 .. mem.end /\ own[h] = 0
        <3>1. h = FreeHead
            BY <1>0, <2>2 DEF Headers, FreeHead, InWrite, InLast, Freeing
        <3> QED
            BY <1>0, <1>6, <3>1 DEF FreeList
    <2>3. InWrite
        BY <2>1, <2>2
    <2>4. h \in 1 .. mem.end /\ own[h] = -1
        BY <1>0, <2>1, <2>3 DEF Headers
    <2>5. h # cur
        BY <1>0, <1>6, <2>3, <2>4 DEF Written, Owned
    <2>6. data[h] = val
        BY <1>0, <2>3, <2>4, <2>5 DEF Written
    <2> QED
        BY <2>3, <2>6 DEF InWrite, InLast, Idle, Freeing
<1> QED
    BY <1>4, <1>5, <1>6

\* The shapes of the variables behind a step.
LEMMA NextShape ==
  ASSUME Typed'
  PROVE  /\ mem'.end \in Nat /\ mem'.free \in Int /\ mark' \in Int
         /\ \A c \in 1 .. mem'.end : link'[c] \in Int
<1>1. /\ mem'.end \in Nat /\ mem'.free \in Int /\ mark' \in Int
      /\ mem'.end <= Len(link') /\ link' \in Seq(Int)
    BY DEF Typed
<1>2. Len(link') \in Nat /\ \A c \in 1 .. Len(link') : link'[c] \in Int
    BY <1>1, LenProperties
<1> QED
    BY <1>1, <1>2

\* The list of a structure stays as it is when its links do.
LEMMA ListKept ==
  ASSUME NEW own, NEW ord, NEW own2, NEW ord2, NEW p, HeldList(own, ord, p),
         mem.end \in Nat, mem'.end \in Nat, mem.end <= mem'.end, held'[p] = held[p],
         \A c \in 1 .. mem'.end : own2[c] = p <=> c \in 1 .. mem.end /\ own[c] = p,
         \A c \in 1 .. mem.end : own[c] = p => ord2[c] = ord[c] /\ link'[c] = link[c]
  PROVE  HeldList(own2, ord2, p)'
<1>1. /\ held[p][2] \in Nat \ {0} /\ p \in 1 .. mem.end
      /\ own[p] = p /\ ord[p] = held[p][2]
      /\ \A c \in 1 .. mem.end : own[c] = p => ord[c] <= held[p][2] /\ Leads(own, ord, c, link[c])
    BY DEF HeldList
<1>2. p \in 1 .. mem'.end
    BY <1>1
<1>3. ASSUME NEW c \in 1 .. mem'.end, own2[c] = p
      PROVE  ord2[c] <= held[p][2] /\ Leads(own2, ord2, c, link[c])'
    <2>1. c \in 1 .. mem.end /\ own[c] = p
        BY <1>3
    <2>2. ord2[c] = ord[c] /\ link'[c] = link[c] /\ ord[c] <= held[p][2] /\ Leads(own, ord, c, link[c])
        BY <1>1, <2>1
    <2>3. CASE ord[c] = 1
        BY <2>2, <2>3 DEF Leads
    <2>4. CASE ord[c] # 1
        <3> PICK d : d = link[c]
            OBVIOUS
        <3>1. d \in 1 .. mem.end /\ own[d] = p /\ ord[d] = ord[c] - 1
            BY <2>1, <2>2, <2>4 DEF Leads
        <3>2. d \in 1 .. mem'.end /\ own2[d] = p /\ ord2[d] = ord[d]
            BY <3>1
        <3> QED
            BY <1>3, <2>2, <2>4, <3>1, <3>2 DEF Leads
    <2> QED
        BY <2>2, <2>3, <2>4
<1>4. own2[p] = p /\ ord2[p] = held'[p][2]
    BY <1>1, <1>2
<1> QED
    BY <1>1, <1>2, <1>3, <1>4 DEF HeldList

LEMMA HeldKept ==
  ASSUME NEW own, NEW ord, NEW own2, NEW ord2, HeldLists(own, ord),
         mem.end \in Nat, mem'.end \in Nat, mem.end <= mem'.end,
         \A p \in DOMAIN held' : p \in DOMAIN held /\ held'[p] = held[p],
         \A p \in DOMAIN held', c \in 1 .. mem'.end :
           own2[c] = p <=> c \in 1 .. mem.end /\ own[c] = p,
         \A c \in 1 .. mem.end : own[c] \in DOMAIN held' => ord2[c] = ord[c] /\ link'[c] = link[c]
  PROVE  HeldLists(own2, ord2)'
<1> SUFFICES ASSUME NEW p \in DOMAIN held' PROVE HeldList(own2, ord2, p)'
    BY DEF HeldLists
<1>1. HeldList(own, ord, p) /\ held'[p] = held[p]
    BY DEF HeldLists
<1> QED
    BY <1>1, ListKept

\* The books do not know of a page before its header.
LEMMA PageBooks ==
  ASSUME Typed, Typed', NEW own, NEW ord, Books(own, ord),
         InitPage \/ WriteNeedsPage \/ LastPage
  PROVE  Books(own, ord)'
<1>1. /\ WritePage
      /\ UNCHANGED <<mem, cur, prev, left, mark, val, held>>
      /\ \/ pc = "initPage" /\ pc' = "initHeader"
         \/ pc = "chunk" /\ pc' = "pageHeader" /\ left > 1 /\ link[cur] = 0
         \/ pc = "lastPage" /\ pc' = "lastPageHeader"
    BY DEF InitPage, WriteNeedsPage, LastPage
<1>s. /\ Owned(own, ord) /\ FreeList(own, ord) /\ HeldLists(own, ord)
      /\ Written(own, ord) /\ Headers(own) /\ Fits(ord)
    BY DEF Books
<1>2. hdr' = hdr /\ \A c \in 1 .. mem.end : link'[c] = link[c] /\ data'[c] = data[c]
    BY <1>1, PageWritten
<1>3. \A c \in 1 .. mem.end : \A d : Leads(own, ord, c, d)' <=> Leads(own, ord, c, d)
    BY <1>1, <1>2 DEF Leads
<1>4. Owned(own, ord)'
    BY <1>1, <1>s, NextShape DEF Owned
<1>5. FreeHead' = FreeHead /\ (InWrite => cur \in 1 .. mem.end)
    <2>1. InWrite => cur \in 1 .. mem.end
        BY <1>s DEF Written
    <2> QED
        BY <1>1, <1>2, <2>1 DEF FreeHead, InWrite, InLast, Freeing
<1>6. FreeList(own, ord)'
    BY <1>1, <1>2, <1>3, <1>5, <1>s DEF FreeList
<1>7. HeldLists(own, ord)'
    BY <1>1, <1>2, <1>3, <1>s DEF HeldLists, HeldList
<1>8. Written(own, ord)'
    <2>1. CASE pc = "initPage"
        BY <1>1, <2>1 DEF Written, InWrite, InLast
    <2>2. CASE pc # "initPage"
        <3>1. InWrite
            BY <1>1, <2>2 DEF InWrite, InLast
        <3> QED
            BY <1>1, <1>2, <1>3, <1>5, <1>s, <3>1 DEF Written, InLast
    <2> QED
        BY <2>1, <2>2
<1>9. Taken(own, ord)'
    BY <1>1 DEF Taken, Freeing
<1>10. Headers(own)'
    BY <1>1, <1>2, <1>s DEF Headers, InWrite, InLast, Freeing
<1>11. Fits(ord)'
    BY <1>1, <1>5, <1>s DEF Fits
<1> QED
    BY <1>4, <1>6, <1>7, <1>8, <1>9, <1>10, <1>11 DEF Books

\* The page joins the books with its header, as the free list: there was none.
LEMMA HeaderBooks ==
  ASSUME Typed, Typed', PageReady, NEW own, NEW ord, Books(own, ord),
         InitHeader \/ WritePageHeader \/ LastPageHeader
  PROVE  \E own2, ord2 : Books(own2, ord2)'
<1>1. /\ mem' = [end |-> mem.end + ChunksPerPage, free |-> mem.end + 1] /\ hdr' = mem'
      /\ UNCHANGED <<link, data, held>>
      /\ \/ pc = "initHeader" /\ pc' = "idle"
         \/ /\ UNCHANGED <<cur, prev, left, mark, val>>
            /\ \/ pc = "pageHeader" /\ pc' = "chunkToPage"
               \/ pc = "lastPageHeader" /\ pc' = "writeHeader"
    BY DEF InitHeader, WritePageHeader, LastPageHeader, PutHeader, WithPage, Return
<1>s. /\ Owned(own, ord) /\ FreeList(own, ord) /\ HeldLists(own, ord)
      /\ Written(own, ord) /\ Headers(own) /\ Fits(ord)
    BY DEF Books
<1>e. PICK e, e2 : e = mem.end /\ e2 = mem.end + ChunksPerPage
    OBVIOUS
<1>2. /\ e \in Nat /\ e2 \in Nat /\ e < e2 /\ e2 = e + ChunksPerPage /\ ChunksPerPage \in Nat
      /\ mem.end = e /\ mem'.end = e2 /\ mem'.free = e + 1 /\ e + 1 \in 1 .. e2
    <2>1. e \in Nat /\ ChunksPerPage \in Nat \ {0}
        BY <1>e, Covered
    <2>2. e2 = e + ChunksPerPage /\ mem.end = e /\ mem'.end = e2 /\ mem'.free = e + 1
        BY <1>1, <1>e
    <2> QED
        BY <2>1, <2>2
<1>3. \A c \in 1 .. e2 : c \notin 1 .. e => link[c] = IF c = e2 THEN 0 ELSE -(c + 1)
    <2>1. \A c \in 1 .. e2 : c \notin 1 .. e => c \in PageAt
        BY <1>2 DEF PageAt
    <2>2. \A c \in PageAt : link[c] = IF c = e2 THEN 0 ELSE -(c + 1)
        BY <1>1, <1>e DEF PageReady
    <2> QED
        BY <2>1, <2>2
<1>4. \A c \in 1 .. e : own[c] # 0
    <2>1. pc = "pageHeader" => link[cur] = 0
        BY <1>s DEF Written, InWrite
    <2>2. FreeHead = 0
        BY <1>1, <1>s, <2>1 DEF FreeHead, Headers, Freeing
    <2> QED
        BY <1>2, <1>s, <2>2 DEF FreeList
<1>5. PICK own2, ord2 :
        /\ \A c \in 1 .. e2 : c \notin 1 .. e => own2[c] = 0 /\ ord2[c] = e2 + 1 - c
        /\ \A c \in 1 .. e : own2[c] = own[c] /\ ord2[c] = ord[c]
    <2>1. PICK f, g : /\ f = [c \in 1 .. e2 |-> IF c \in 1 .. e THEN own[c] ELSE 0]
                      /\ g = [c \in 1 .. e2 |-> IF c \in 1 .. e THEN ord[c] ELSE e2 + 1 - c]
        OBVIOUS
    <2>2. \A c \in 1 .. e : c \in 1 .. e2
        BY <1>2
    <2>3. /\ \A c \in 1 .. e2 : c \notin 1 .. e => f[c] = 0 /\ g[c] = e2 + 1 - c
          /\ \A c \in 1 .. e : f[c] = own[c] /\ g[c] = ord[c]
        BY <2>1, <2>2
    <2> QED
        BY <2>3
<1>6. /\ \A c \in 1 .. e : c \in 1 .. e2 /\ own2[c] # 0
      /\ \A c \in 1 .. e2 : own2[c] = 0 <=> c \notin 1 .. e
    BY <1>2, <1>4, <1>5
<1>7. Owned(own2, ord2)'
    <2>1. \A c \in 1 .. e2 : own2[c] \in {0, -1} \cup DOMAIN held /\ ord2[c] \in Nat \ {0}
        BY <1>2, <1>5, <1>s DEF Owned
    <2>2. ASSUME NEW c \in 1 .. e2, NEW d \in 1 .. e2, own2[c] = own2[d], ord2[c] = ord2[d]
          PROVE  c = d
        <3>1. CASE own2[c] = 0
            <4>1. ord2[c] = e2 + 1 - c /\ ord2[d] = e2 + 1 - d
                BY <1>5, <1>6, <2>2, <3>1
            <4>2. e2 + 1 - c = e2 + 1 - d
                BY <2>2, <4>1
            <4> QED
                BY <1>2, <4>2
        <3>2. CASE own2[c] # 0
            <4>1. c \in 1 .. e /\ d \in 1 .. e
                BY <1>6, <2>2, <3>2
            <4>2. own[c] = own[d] /\ ord[c] = ord[d]
                BY <1>5, <2>2, <4>1
            <4> QED
                BY <1>2, <1>s, <4>1, <4>2 DEF Owned
        <3> QED
            BY <3>1, <3>2
    <2> QED
        BY <1>1, <1>2, <2>1, <2>2, NextShape DEF Owned
<1>8. FreeHead' = e + 1
    BY <1>1, <1>2 DEF FreeHead, Freeing
<1>9. FreeList(own2, ord2)'
    <2>1. e + 1 \in 1 .. e2 /\ own2[e + 1] = 0 /\ e + 1 # 0 /\ ord2[e + 1] = e2 - e
        BY <1>2, <1>5, <1>6
    <2>2. ASSUME NEW c \in 1 .. e2, own2[c] = 0
          PROVE  ord2[c] <= ord2[e + 1] /\ Leads(own2, ord2, c, -link[c])'
        <3>1. c \notin 1 .. e /\ ord2[c] = e2 + 1 - c /\ link[c] = IF c = e2 THEN 0 ELSE -(c + 1)
            BY <1>3, <1>5, <1>6, <2>2
        <3>2. ord2[c] <= ord2[e + 1]
            BY <1>2, <2>1, <3>1
        <3>3. CASE c = e2
            <4>1. ord2[c] = 1 /\ link'[c] = 0
                BY <1>1, <1>2, <3>1, <3>3
            <4> QED
                BY <3>2, <4>1 DEF Leads
        <3>4. CASE c # e2
            <4> PICK d : d = c + 1
                OBVIOUS
            <4>1. d \in 1 .. e2 /\ d \notin 1 .. e /\ -link[c] = d /\ ord2[c] # 1
                BY <1>2, <3>1, <3>4
            <4>2. own2[d] = 0 /\ ord2[d] = ord2[c] - 1
                BY <1>2, <1>5, <3>1, <4>1
            <4>3. link'[c] = link[c] /\ mem'.end = e2
                BY <1>1, <1>2
            <4> QED
                BY <2>2, <3>2, <4>1, <4>2, <4>3 DEF Leads
        <3> QED
            BY <3>3, <3>4
    <2> QED
        BY <1>2, <1>8, <2>1, <2>2 DEF FreeList
<1>10. HeldLists(own2, ord2)'
    <2>1. \A p \in DOMAIN held : p \in 1 .. e /\ p # 0
        BY <1>2, <1>s DEF HeldLists, HeldList
    <2>2. \A p \in DOMAIN held', c \in 1 .. mem'.end : own2[c] = p <=> c \in 1 .. mem.end /\ own[c] = p
        BY <1>1, <1>2, <1>5, <1>6, <2>1
    <2>3. \A c \in 1 .. mem.end : ord2[c] = ord[c] /\ link'[c] = link[c]
        BY <1>1, <1>2, <1>5
    <2>4. mem.end \in Nat /\ mem'.end \in Nat /\ mem.end <= mem'.end
        BY <1>2
    <2> QED
        BY <1>1, <1>s, <2>2, <2>3, <2>4, HeldKept
<1>11. Written(own2, ord2)'
    <2>1. CASE pc = "initHeader"
        BY <1>1, <2>1 DEF Written, InWrite, InLast
    <2>2. CASE pc # "initHeader"
        <3>1. /\ val[2] \in Nat /\ left \in 1 .. val[2]
              /\ cur \in 1 .. e /\ own[cur] = -1 /\ ord[cur] = left
              /\ mark \in 1 .. e /\ own[mark] = -1 /\ ord[mark] = val[2]
              /\ \A c \in 1 .. e : own[c] = -1 =>
                   /\ ord[c] >= left /\ ord[c] <= val[2]
                   /\ c # cur => data[c] = val /\ Leads(own, ord, c, link[c])
              /\ link[cur] <= 0
              /\ pc = "pageHeader" => left > 1 /\ link[cur] = 0
              /\ pc = "lastPageHeader" => left = 1 /\ link[cur] = 0
            BY <1>1, <1>2, <1>s, <2>2 DEF Written, InWrite, InLast
        <3>2. \A c \in 1 .. e2 : own2[c] = -1 => c \in 1 .. e /\ own[c] = -1 /\ ord2[c] = ord[c]
            BY <1>5, <1>6
        <3>3. ASSUME NEW c \in 1 .. e, own[c] = -1, c # cur
              PROVE  data[c] = val /\ Leads(own2, ord2, c, link[c])'
            <4>1. data[c] = val /\ Leads(own, ord, c, link[c])
                BY <3>1, <3>3
            <4>2. CASE ord[c] = 1
                BY <1>1, <1>5, <4>1, <4>2 DEF Leads
            <4>3. CASE ord[c] # 1
                <5>1. link[c] \in 1 .. e /\ own[link[c]] = -1 /\ ord[link[c]] = ord[c] - 1
                    BY <1>2, <3>3, <4>1, <4>3 DEF Leads
                <5>2. link[c] \in 1 .. e2 /\ own2[link[c]] = -1 /\ ord2[link[c]] = ord2[c] - 1 /\ own2[c] = -1
                    BY <1>5, <1>6, <3>3, <5>1
                <5> QED
                    BY <1>1, <1>2, <4>1, <4>3, <1>5, <5>2 DEF Leads
            <4> QED
                BY <4>2, <4>3, <4>1
        <3>4. /\ cur \in 1 .. e2 /\ own2[cur] = -1 /\ ord2[cur] = left
              /\ mark \in 1 .. e2 /\ own2[mark] = -1 /\ ord2[mark] = val[2]
            BY <1>5, <1>6, <3>1
        <3>5. \A c \in 1 .. e2 : own2[c] = -1 =>
                /\ ord2[c] >= left /\ ord2[c] <= val[2]
                /\ c # cur => data[c] = val /\ Leads(own2, ord2, c, link[c])'
            BY <3>1, <3>2, <3>3
        <3>6. mem'.free # 0 /\ mem'.end = e2
            BY <1>2
        <3>7. UNCHANGED <<cur, left, mark, val, link, data>>
            BY <1>1, <2>2
        <3>8. /\ pc' \in {"pageHeader", "chunkToPage"} => left > 1 /\ link[cur] = 0
              /\ InLast' => left = 1 /\ link[cur] = 0
            BY <1>1, <3>1 DEF InLast
        <3> QED
            BY <3>1, <3>4, <3>5, <3>6, <3>7, <3>8 DEF Written
    <2> QED
        BY <2>1, <2>2
<1>12. Taken(own2, ord2)'
    BY <1>1 DEF Taken, Freeing
<1>13. Headers(own2)'
    <2>1. pc = "initHeader" => \A c \in 1 .. e2 : own2[c] # -1
        <3>1. pc = "initHeader" => \A c \in 1 .. e : own[c] # -1
            BY <1>2, <1>s DEF Headers, InWrite, InLast, Freeing
        <3> QED
            BY <1>5, <1>6, <3>1
    <2>2. hdr'.free \in 1 .. e2 /\ own2[hdr'.free] = 0
        <3>1. hdr'.free = e + 1 /\ e + 1 \in 1 .. e2 /\ e + 1 \notin 1 .. e
            BY <1>1, <1>2
        <3> QED
            BY <1>5, <3>1
    <2> QED
        BY <1>1, <1>2, <2>1, <2>2 DEF Headers, InWrite, InLast, Freeing
<1>14. Fits(ord2)'
    <2>1. MaxFile \in Nat
        BY SizesAssumption
    <2>2. CASE pc = "pageHeader"
        <3>1. left \in Nat /\ left > 1 /\ FreeHead = 0
            BY <1>s, <2>2 DEF Written, InWrite, FreeHead
        <3>2. e + left * ChunksPerPage <= MaxFile
            BY <1>2, <1>s, <2>2, <3>1 DEF Fits
        <3>3. (left - 1) * ChunksPerPage = left * ChunksPerPage - ChunksPerPage
            BY <1>2, <3>1
        <3>4. left * ChunksPerPage \in Nat /\ (left - 1) * ChunksPerPage \in Nat
            BY <1>2, <3>1
        <3>5. e2 + (left - 1) * ChunksPerPage <= MaxFile /\ e2 <= MaxFile
            BY <1>2, <2>1, <3>2, <3>3, <3>4
        <3> QED
            BY <1>1, <1>2, <2>2, <3>5 DEF Fits
    <2>3. CASE pc # "pageHeader"
        <3>1. e2 <= MaxFile
            BY <1>1, <1>2, <1>s, <2>3 DEF Fits
        <3> QED
            BY <1>1, <1>2, <2>3, <3>1 DEF Fits
    <2> QED
        BY <2>2, <2>3
<1>15. Books(own2, ord2)'
    BY <1>7, <1>9, <1>10, <1>11, <1>12, <1>13, <1>14 DEF Books
<1> QED
    BY <1>15

\* h leaves the free list for the batch in progress, as its chunk number m.
Takes(own, ord, h, m, own2, ord2) ==
  \A c \in 1 .. mem.end : /\ own2[c] = IF c = h THEN -1 ELSE own[c]
                          /\ ord2[c] = IF c = h THEN m ELSE ord[c]

LEMMA TakeExists ==
  ASSUME NEW own, NEW ord, NEW h, NEW m
  PROVE  \E own2, ord2 : Takes(own, ord, h, m, own2, ord2)
<1>1. PICK f, g : /\ f = [c \in 1 .. mem.end |-> IF c = h THEN -1 ELSE own[c]]
                  /\ g = [c \in 1 .. mem.end |-> IF c = h THEN m ELSE ord[c]]
    OBVIOUS
<1>2. Takes(own, ord, h, m, f, g)
    BY <1>1 DEF Takes
<1> QED
    BY <1>2

\* The head leaves the list to the chunk behind it.
LEMMA HeadTaken ==
  ASSUME Typed, Typed', NEW own, NEW ord, Owned(own, ord), FreeList(own, ord), HeldLists(own, ord),
         NEW h, h = FreeHead, h # 0, NEW m \in Nat \ {0},
         \A c \in 1 .. mem.end : own[c] = -1 => ord[c] # m,
         NEW own2, NEW ord2, Takes(own, ord, h, m, own2, ord2),
         mem' = mem, held' = held,
         \A c \in 1 .. mem.end : own[c] # -1 => link'[c] = link[c],
         FreeHead' = -link[h]
  PROVE  /\ Owned(own2, ord2)' /\ FreeList(own2, ord2)' /\ HeldLists(own2, ord2)'
         /\ h \in 1 .. mem.end /\ own2[h] = -1 /\ ord2[h] = m
         /\ ord[h] \in Nat /\ link[h] \in Int /\ link[h] <= 0
         /\ IF FreeHead' = 0 THEN ord[h] = 1
            ELSE ord[h] > 1 /\ ord2[FreeHead'] = ord[h] - 1
<1> PICK e : e = mem.end
    OBVIOUS
<1>0. e \in Nat /\ mem'.end = e /\ mem.end = e
    BY Covered
<1>1. /\ h \in 1 .. e /\ own[h] = 0 /\ ord[h] \in Nat \ {0} /\ link[h] \in Int
      /\ own2[h] = -1 /\ ord2[h] = m /\ Leads(own, ord, h, -link[h])
    BY <1>0 DEF FreeList, Owned, Takes
<1>2. \A c \in 1 .. e : c # h => own2[c] = own[c] /\ ord2[c] = ord[c]
    BY <1>0 DEF Takes
<1>3. Owned(own2, ord2)'
    <2>1. \A c \in 1 .. e : own2[c] \in {0, -1} \cup DOMAIN held /\ ord2[c] \in Nat \ {0}
        BY <1>0, <1>1, <1>2 DEF Owned
    <2>2. ASSUME NEW c \in 1 .. e, NEW d \in 1 .. e, own2[c] = own2[d], ord2[c] = ord2[d] PROVE c = d
        <3>1. ASSUME NEW x \in 1 .. e, x # h, own2[x] = -1, ord2[x] = m PROVE FALSE
            BY <1>0, <1>2, <3>1
        <3>2. CASE c = h \/ d = h
            BY <1>1, <2>2, <3>1, <3>2
        <3>3. CASE c # h /\ d # h
            BY <1>0, <1>2, <2>2, <3>3 DEF Owned
        <3> QED
            BY <3>2, <3>3
    <2>3. mem'.end = e
        BY <1>0
    <2> QED
        BY <2>1, <2>2, <2>3, NextShape DEF Owned
\* What comes behind the head.
<1>4. IF link[h] = 0 THEN ord[h] = 1
      ELSE /\ ord[h] > 1 /\ -link[h] \in 1 .. e /\ own[-link[h]] = 0 /\ ord[-link[h]] = ord[h] - 1
    <2>1. CASE ord[h] = 1
        BY <1>1, <2>1 DEF Leads
    <2>2. CASE ord[h] # 1
        BY <1>0, <1>1, <2>2 DEF Leads
    <2> QED
        BY <2>1, <2>2
<1>5. ASSUME NEW c \in 1 .. e, own[c] = 0, c # h
      PROVE  link[h] # 0 /\ ord[c] <= ord[h] - 1 /\ ord[c] \in Nat \ {0}
    <2>1. ord[c] <= ord[h] /\ ord[c] \in Nat \ {0} /\ ord[c] # ord[h]
        BY <1>0, <1>1, <1>5 DEF FreeList, Owned
    <2>2. ord[h] # 1
        BY <1>1, <2>1
    <2> QED
        BY <1>1, <1>4, <2>1, <2>2
<1>6. link[h] # 0 => -link[h] # h
    BY <1>1, <1>4
<1>7. FreeList(own2, ord2)'
    <2>1. ASSUME NEW c \in 1 .. e, own2[c] = 0
          PROVE  /\ -link[h] # 0 /\ ord2[c] <= ord2[-link[h]]
                 /\ Leads(own2, ord2, c, -link[c])'
        <3>1. c # h /\ own[c] = 0
            BY <1>1, <1>2, <2>1
        <3>2. link[h] # 0 /\ ord[c] <= ord[h] - 1 /\ ord[c] \in Nat \ {0} /\ ord2[c] = ord[c]
            BY <1>2, <1>5, <3>1
        <3>3. ord2[-link[h]] = ord[h] - 1
            BY <1>2, <1>4, <1>6, <3>2
        <3>4. Leads(own, ord, c, -link[c]) /\ link'[c] = link[c]
            BY <1>0, <3>1 DEF FreeList
        <3>5. Leads(own2, ord2, c, -link[c])'
            <4>1. CASE ord[c] = 1
                BY <3>2, <3>4, <4>1 DEF Leads
            <4>2. CASE ord[c] # 1
                <5> PICK d : d = -link[c]
                    OBVIOUS
                <5>1. d \in 1 .. e /\ own[d] = 0 /\ ord[d] = ord[c] - 1
                    BY <1>0, <3>1, <3>4, <4>2 DEF Leads
                <5>2. d # h
                    BY <1>1, <3>2, <5>1
                <5>3. own2[d] = 0 /\ ord2[d] = ord2[c] - 1
                    BY <1>2, <3>2, <5>1, <5>2
                <5> QED
                    BY <1>0, <2>1, <3>2, <3>4, <4>2, <5>1, <5>3 DEF Leads
            <4> QED
                BY <4>1, <4>2
        <3> QED
            BY <1>1, <3>2, <3>3, <3>5
    <2>2. -link[h] # 0 => -link[h] \in 1 .. e /\ own2[-link[h]] = 0
        BY <1>1, <1>2, <1>4, <1>6
    <2> QED
        BY <1>0, <2>1, <2>2 DEF FreeList
<1>8. HeldLists(own2, ord2)'
    <2>1. \A p \in DOMAIN held : p \in 1 .. e /\ p # -1 /\ p # 0
        BY <1>0 DEF HeldLists, HeldList
    <2>2. \A p \in DOMAIN held', c \in 1 .. mem'.end : own2[c] = p <=> c \in 1 .. mem.end /\ own[c] = p
        BY <1>0, <1>1, <1>2, <2>1
    <2>3. \A c \in 1 .. mem.end : own[c] \in DOMAIN held' => ord2[c] = ord[c] /\ link'[c] = link[c]
        BY <1>0, <1>1, <1>2, <2>1
    <2> QED
        BY <1>0, <2>2, <2>3, HeldKept
<1>9. /\ link[h] <= 0
      /\ IF FreeHead' = 0 THEN ord[h] = 1
         ELSE ord[h] > 1 /\ ord2[FreeHead'] = ord[h] - 1
    BY <1>1, <1>2, <1>4, <1>6
<1> QED
    BY <1>0, <1>1, <1>3, <1>7, <1>8, <1>9

\* The first chunk of a batch is the head of the free list.
LEMMA WriteBeginBooks ==
  ASSUME Typed, Typed', NEW own, NEW ord, Books(own, ord),
         NEW n \in 1 .. MaxLen, NEW v, WriteBegin(n, v)
  PROVE  \E own2, ord2 : Books(own2, ord2)'
<1>1. /\ pc = "idle" /\ mem.free # 0 /\ Room(n)
      /\ pc' = "chunk" /\ cur' = mem.free /\ left' = n /\ mark' = mem.free /\ val' = <<v, n>>
      /\ UNCHANGED <<link, data, hdr, mem, held>>
    BY DEF WriteBegin, Idle, file
<1>s. /\ Owned(own, ord) /\ FreeList(own, ord) /\ HeldLists(own, ord)
      /\ Headers(own) /\ Fits(ord)
    BY DEF Books
<1>h. PICK h : h = mem.free
    OBVIOUS
<1>2. /\ h = FreeHead /\ h # 0 /\ hdr = mem
      /\ \A c \in 1 .. mem.end : own[c] # -1
    BY <1>1, <1>h, <1>s DEF FreeHead, Freeing, Headers, InWrite, InLast
<1>3. n \in Nat \ {0} /\ n \in 1 .. n
    BY SizesAssumption
<1>4. PICK own2, ord2 : Takes(own, ord, h, n, own2, ord2)
    BY TakeExists
<1>5. FreeHead' = -link[h]
    BY <1>1, <1>h DEF FreeHead
<1>6. /\ Owned(own2, ord2)' /\ FreeList(own2, ord2)' /\ HeldLists(own2, ord2)'
      /\ h \in 1 .. mem.end /\ own2[h] = -1 /\ ord2[h] = n
      /\ ord[h] \in Nat /\ link[h] \in Int /\ link[h] <= 0
      /\ IF FreeHead' = 0 THEN ord[h] = 1
         ELSE ord[h] > 1 /\ ord2[FreeHead'] = ord[h] - 1
    BY <1>1, <1>2, <1>3, <1>4, <1>5, <1>s, HeadTaken
<1>7. Written(own2, ord2)'
    <2>1. \A c \in 1 .. mem.end : own2[c] = -1 => c = h
        BY <1>2, <1>4 DEF Takes
    <2>2. n <= n
        BY <1>3
    <2> QED
        BY <1>1, <1>3, <1>6, <1>h, <2>1, <2>2 DEF Written, InLast
<1>8. Taken(own2, ord2)'
    BY <1>1 DEF Taken, Freeing
<1>9. Headers(own2)'
    BY <1>1, <1>2, <1>6, <1>h DEF Headers, InWrite, InLast, Freeing
<1>10. Fits(ord2)'
    <2>1. mem.end <= MaxFile
        BY <1>s DEF Fits
    <2>2. Cardinality(Offered(mem)) <= ord[h] /\ Offered(mem) = {c \in 1 .. mem.end : own[c] = 0}
        BY <1>2, <1>h, <1>s, <2>1, OffersFree
    <2>3. Cardinality(Offered(mem)) \in Nat
        <3>1. IsFiniteSet(1 .. mem.end)
            <4>1. mem.end \in Int /\ 1 \in Int
                BY Covered
            <4> QED
                BY <4>1, FS_Interval
        <3>2. Offered(mem) \subseteq 1 .. mem.end
            BY <2>2
        <3> QED
            BY <3>1, <3>2, FS_Subset, FS_CardinalityType
    <2>4. \/ FreeHead' # 0 /\ n <= ord2[FreeHead']
          \/ mem.end + n * ChunksPerPage <= MaxFile
        BY <1>1, <1>3, <1>6, <2>2, <2>3 DEF Room
    <2> QED
        BY <1>1, <2>1, <2>4 DEF Fits
<1>11. Books(own2, ord2)'
    BY <1>6, <1>7, <1>8, <1>9, <1>10 DEF Books
<1> QED
    BY <1>11

\* A chunk is written with the place of the next, the head of what is left of the
\* free list, or of a page.
LEMMA WriteChunkBooks ==
  ASSUME Typed, Typed', NEW own, NEW ord, Books(own, ord), WriteChunk \/ WriteChunkToPage
  PROVE  \E own2, ord2 : Books(own2, ord2)'
<1>h. PICK h, m : h = FreeHead /\ m = left - 1
    OBVIOUS
<1>s. /\ Owned(own, ord) /\ FreeList(own, ord) /\ HeldLists(own, ord)
      /\ Written(own, ord) /\ Headers(own) /\ Fits(ord)
    BY DEF Books
<1>0. /\ pc \in {"chunk", "chunkToPage"} /\ pc' = "chunk"
      /\ Put(cur, h, val) /\ h # 0 /\ left > 1
      /\ cur' = h /\ left' = m
      /\ UNCHANGED <<mem, mark, val, held>>
    <2>1. CASE WriteChunk
        <3>1. link[cur] # 0 /\ h = -link[cur] /\ pc = "chunk" /\ pc' = pc
            BY <1>h, <2>1 DEF WriteChunk, FreeHead
        <3>2. cur \in 1 .. mem.end
            BY <1>s, <3>1 DEF Written, InWrite
        <3>3. h # 0
            BY <1>s, <3>1, <3>2 DEF Owned
        <3> QED
            BY <1>h, <2>1, <3>1, <3>3 DEF WriteChunk
    <2>2. CASE WriteChunkToPage
        <3>1. h = mem.free /\ pc = "chunkToPage"
            BY <1>h, <2>2 DEF WriteChunkToPage, FreeHead, Freeing
        <3>2. left > 1 /\ mem.free # 0
            BY <1>s, <3>1 DEF Written, InWrite
        <3> QED
            BY <1>h, <2>2, <3>1, <3>2 DEF WriteChunkToPage
    <2> QED
        BY <2>1, <2>2
<1>1. /\ val[2] \in Nat /\ left \in 1 .. val[2]
      /\ cur \in 1 .. mem.end /\ own[cur] = -1 /\ ord[cur] = left
      /\ mark \in 1 .. mem.end /\ own[mark] = -1 /\ ord[mark] = val[2]
      /\ \A c \in 1 .. mem.end : own[c] = -1 =>
           /\ ord[c] >= left /\ ord[c] <= val[2]
           /\ c # cur => data[c] = val /\ Leads(own, ord, c, link[c])
    BY <1>0, <1>s DEF Written, InWrite
<1>2. m \in Nat \ {0} /\ m \in 1 .. val[2] /\ m < left /\ m + 1 = left /\ left \in Nat
    BY <1>0, <1>1, <1>h
<1>3. h \in 1 .. mem.end /\ own[h] = 0 /\ h \in Int
    BY <1>0, <1>h, <1>s DEF FreeList
<1>4. /\ hdr' = hdr
      /\ \A c \in 1 .. mem.end : /\ link'[c] = IF c = cur THEN h ELSE link[c]
                                 /\ data'[c] = IF c = cur THEN val ELSE data[c]
    BY <1>0, <1>1, <1>3, PutChunk
<1>5. PICK own2, ord2 : Takes(own, ord, h, m, own2, ord2)
    BY TakeExists
<1>6. h # cur /\ FreeHead' = -link[h]
    <2>1. h # cur
        BY <1>1, <1>3
    <2>2. link'[h] = link[h]
        BY <1>3, <1>4, <2>1
    <2> QED
        BY <1>0, <2>1, <2>2 DEF FreeHead
<1>7. /\ Owned(own2, ord2)' /\ FreeList(own2, ord2)' /\ HeldLists(own2, ord2)'
      /\ own2[h] = -1 /\ ord2[h] = m
      /\ ord[h] \in Nat /\ link[h] \in Int /\ link[h] <= 0
      /\ IF FreeHead' = 0 THEN ord[h] = 1
         ELSE ord[h] > 1 /\ ord2[FreeHead'] = ord[h] - 1
    <2>1. \A c \in 1 .. mem.end : own[c] = -1 => ord[c] # m
        BY <1>1, <1>2, <1>s DEF Owned
    <2>2. \A c \in 1 .. mem.end : own[c] # -1 => link'[c] = link[c]
        BY <1>1, <1>4
    <2> QED
        BY <1>0, <1>2, <1>5, <1>6, <1>h, <1>s, <2>1, <2>2, HeadTaken
<1>8. Written(own2, ord2)'
    <2>1. \A c \in 1 .. mem.end : c # h => own2[c] = own[c] /\ ord2[c] = ord[c]
        BY <1>5 DEF Takes
    <2>2. mark # h /\ own2[mark] = -1 /\ ord2[mark] = val[2]
        BY <1>1, <1>3, <2>1
    <2>3. ASSUME NEW c \in 1 .. mem.end, own2[c] = -1
          PROVE  /\ ord2[c] >= m /\ ord2[c] <= val[2]
                 /\ c # h => data'[c] = val /\ Leads(own2, ord2, c, link[c])'
        <3>1. CASE c = h
            BY <1>1, <1>2, <1>7, <3>1
        <3>2. CASE c # h
            <4>1. own[c] = -1 /\ ord2[c] = ord[c] /\ ord[c] \in Nat
                BY <1>s, <2>1, <2>3, <3>2 DEF Owned
            <4>2. ord2[c] >= m /\ ord2[c] <= val[2]
                BY <1>1, <1>2, <4>1
            <4>3. CASE c = cur
                <5>1. ord2[c] # 1 /\ ord2[h] = ord2[c] - 1
                    BY <1>0, <1>1, <1>2, <1>7, <4>1, <4>3
                <5>2. link'[c] = h /\ data'[c] = val /\ mem'.end = mem.end
                    BY <1>0, <1>4, <4>3
                <5> QED
                    BY <1>3, <1>7, <2>3, <4>2, <5>1, <5>2 DEF Leads
            <4>4. CASE c # cur
                <5>1. data'[c] = val /\ link'[c] = link[c] /\ Leads(own, ord, c, link[c])
                    BY <1>1, <1>4, <4>1, <4>4
                <5>2. CASE ord[c] = 1
                    BY <4>1, <4>2, <5>1, <5>2 DEF Leads
                <5>3. CASE ord[c] # 1
                    <6> PICK d : d = link[c]
                        OBVIOUS
                    <6>1. d \in 1 .. mem.end /\ own[d] = -1 /\ ord[d] = ord[c] - 1
                        BY <4>1, <5>1, <5>3 DEF Leads
                    <6>2. d # h
                        BY <1>3, <6>1
                    <6>3. own2[d] = -1 /\ ord2[d] = ord2[c] - 1
                        BY <2>1, <4>1, <6>1, <6>2
                    <6>4. mem'.end = mem.end
                        BY <1>0
                    <6> QED
                        BY <2>3, <4>1, <4>2, <5>1, <5>3, <6>1, <6>3, <6>4 DEF Leads
                <5> QED
                    BY <5>2, <5>3
            <4> QED
                BY <4>3, <4>4
        <3> QED
            BY <3>1, <3>2
    <2>4. link'[h] = link[h]
        BY <1>3, <1>4, <1>6
    <2> QED
        BY <1>0, <1>1, <1>2, <1>3, <1>7, <2>2, <2>3, <2>4 DEF Written, InLast
<1>9. Taken(own2, ord2)'
    BY <1>0 DEF Taken, Freeing
<1>10. Headers(own2)'
    <2>1. hdr = mem /\ hdr.free \in 1 .. mem.end /\ own[hdr.free] \in {0, -1}
        BY <1>0, <1>s DEF Headers, InWrite, InLast, Freeing
    <2>2. own2[hdr.free] \in {0, -1}
        BY <1>5, <2>1 DEF Takes
    <2> QED
        BY <1>0, <1>4, <2>1, <2>2 DEF Headers, InWrite, InLast, Freeing
<1>11. Fits(ord2)'
    <2>1. MaxFile \in Nat /\ mem.end \in Nat /\ ChunksPerPage \in Nat
        BY Covered, SizesAssumption
    <2>2. m * ChunksPerPage = left * ChunksPerPage - ChunksPerPage /\ left * ChunksPerPage \in Nat /\ m * ChunksPerPage \in Nat
        BY <1>2, <2>1
    <2>3. CASE pc = "chunk" /\ left <= ord[h]
        <3>1. ord[h] > 1
            BY <1>0, <1>2, <1>7, <2>3
        <3>2. FreeHead' # 0 /\ ord2[FreeHead'] = ord[h] - 1
            BY <1>7, <3>1
        <3>3. m <= ord2[FreeHead']
            BY <1>2, <1>7, <2>3, <3>2
        <3> QED
            BY <1>0, <1>s, <3>2, <3>3 DEF Fits
    <2>4. CASE ~(pc = "chunk" /\ left <= ord[h])
        <3>1. \/ mem.end + left * ChunksPerPage <= MaxFile
              \/ pc = "chunkToPage" /\ mem.end + m * ChunksPerPage <= MaxFile
            BY <1>0, <1>h, <1>s, <2>4 DEF Fits
        <3>2. mem.end + m * ChunksPerPage <= MaxFile
            BY <2>1, <2>2, <3>1
        <3> QED
            BY <1>0, <1>s, <3>2 DEF Fits
    <2> QED
        BY <2>3, <2>4
<1>12. Books(own2, ord2)'
    BY <1>7, <1>8, <1>9, <1>10, <1>11 DEF Books
<1> QED
    BY <1>12

\* The last chunk is written; what comes behind it is the list.
LEMMA WriteLastBooks ==
  ASSUME Typed, Typed', NEW own, NEW ord, Books(own, ord), WriteLast
  PROVE  Books(own, ord)'
<1>s. /\ Owned(own, ord) /\ FreeList(own, ord) /\ HeldLists(own, ord)
      /\ Written(own, ord) /\ Headers(own) /\ Fits(ord)
    BY DEF Books
<1>1. /\ pc = "chunk" /\ left = 1 /\ Put(cur, 0, val)
      /\ mem' = [mem EXCEPT !.free = -link[cur]]
      /\ pc' = IF link[cur] = 0 THEN "lastPage" ELSE "writeHeader"
      /\ UNCHANGED <<cur, left, mark, val, held>>
    BY DEF WriteLast
<1>2. mem'.end = mem.end /\ mem'.free = -link[cur] /\ hdr = mem
    <2>1. hdr = mem
        BY <1>1, <1>s DEF Headers, InLast, Freeing
    <2> QED
        BY <1>1, <2>1 DEF Typed
<1>3. /\ val[2] \in Nat /\ left \in 1 .. val[2]
      /\ cur \in 1 .. mem.end /\ own[cur] = -1 /\ ord[cur] = left
      /\ mark \in 1 .. mem.end /\ own[mark] = -1 /\ ord[mark] = val[2]
      /\ \A c \in 1 .. mem.end : own[c] = -1 =>
           /\ ord[c] >= left /\ ord[c] <= val[2]
           /\ c # cur => data[c] = val /\ Leads(own, ord, c, link[c])
    BY <1>1, <1>s DEF Written, InWrite
<1>4. /\ hdr' = hdr
      /\ \A c \in 1 .. mem.end : /\ link'[c] = IF c = cur THEN 0 ELSE link[c]
                                 /\ data'[c] = IF c = cur THEN val ELSE data[c]
    <2>1. PICK z : z = 0
        OBVIOUS
    <2>2. Put(cur, z, val) /\ z \in Int
        BY <1>1, <2>1
    <2>3. /\ hdr' = hdr
          /\ \A c \in 1 .. mem.end : /\ link'[c] = IF c = cur THEN z ELSE link[c]
                                     /\ data'[c] = IF c = cur THEN val ELSE data[c]
        BY <1>3, <2>2, PutChunk
    <2> QED
        BY <2>1, <2>3
<1>5. FreeHead = -link[cur] /\ FreeHead' = FreeHead
    BY <1>1, <1>2 DEF FreeHead, Freeing
<1>6. \A c \in 1 .. mem.end : c # cur => \A d : Leads(own, ord, c, d)' <=> Leads(own, ord, c, d)
    BY <1>2, <1>4 DEF Leads
<1>7. \A c \in 1 .. mem.end : own[c] # -1 => c # cur /\ link'[c] = link[c]
    BY <1>3, <1>4
<1>8. Owned(own, ord)'
    BY <1>1, <1>2, <1>s, NextShape DEF Owned
<1>9. FreeList(own, ord)'
    <2>1. \A c \in 1 .. mem.end : own[c] = 0 => c # cur /\ link'[c] = link[c]
        BY <1>7
    <2> QED
        BY <1>2, <1>5, <1>6, <1>s, <2>1 DEF FreeList
<1>10. HeldLists(own, ord)'
    <2>1. \A p \in DOMAIN held : p # -1
        BY <1>s, Covered DEF HeldLists, HeldList
    <2>2. \A c \in 1 .. mem.end : own[c] \in DOMAIN held' => link'[c] = link[c]
        BY <1>1, <1>7, <2>1
    <2>3. mem.end \in Nat /\ mem'.end \in Nat /\ mem.end <= mem'.end
        BY <1>2, Covered
    <2> QED
        BY <1>1, <1>2, <1>s, <2>2, <2>3, HeldKept
<1>11. Written(own, ord)'
    <2>1. \A c \in 1 .. mem.end : own[c] = -1 /\ c # cur =>
            data'[c] = val /\ Leads(own, ord, c, link[c])'
        BY <1>3, <1>4, <1>6
    <2>2. link'[cur] = 0
        BY <1>3, <1>4
    <2> QED
        BY <1>1, <1>2, <1>3, <2>1, <2>2 DEF Written, InLast
<1>12. Taken(own, ord)'
    BY <1>1 DEF Taken, Freeing
<1>13. Headers(own)'
    <2>1. hdr.free \in 1 .. mem.end /\ own[hdr.free] \in {0, -1}
        BY <1>1, <1>s DEF Headers, InWrite
    <2> QED
        BY <1>1, <1>2, <1>4, <2>1 DEF Headers, InWrite, InLast, Freeing
<1>14. Fits(ord)'
    <2>1. link[cur] = 0 => mem.end + ChunksPerPage <= MaxFile
        <3> SUFFICES ASSUME link[cur] = 0 PROVE mem.end + ChunksPerPage <= MaxFile
            OBVIOUS
        <3>1. FreeHead = 0
            <4>1. FreeHead # 0 => FreeHead \in 1 .. mem.end /\ mem.end \in Nat
                BY <1>s DEF FreeList, Owned
            <4>2. PICK z : z = link[cur]
                OBVIOUS
            <4>3. z = 0 /\ FreeHead = -z
                BY <1>5, <4>2
            <4> QED
                BY <4>1, <4>3
        <3>2. mem.end + left * ChunksPerPage <= MaxFile
            BY <1>1, <1>s, <3>1 DEF Fits
        <3>3. 1 * ChunksPerPage = ChunksPerPage
            BY Covered
        <3> QED
            BY <1>1, <3>2, <3>3
    <2> QED
        BY <1>1, <1>2, <1>s, <2>1 DEF Fits
<1> QED
    BY <1>8, <1>9, <1>10, <1>11, <1>12, <1>13, <1>14 DEF Books

\* The batch becomes a structure that is held, at its first chunk.
LEMMA WriteHeaderBooks ==
  ASSUME Typed, Typed', NEW own, NEW ord, Books(own, ord), WriteHeader
  PROVE  \E own2, ord2 : Books(own2, ord2)'
<1>s. /\ Owned(own, ord) /\ FreeList(own, ord) /\ HeldLists(own, ord)
      /\ Written(own, ord) /\ Headers(own) /\ Fits(ord)
    BY DEF Books
<1>1. /\ pc = "writeHeader" /\ pc' = "idle" /\ hdr' = mem
      /\ UNCHANGED <<link, data, mem>>
      /\ held' = [q \in DOMAIN held \cup {mark} |-> IF q = mark THEN val ELSE held[q]]
    BY DEF WriteHeader, PutHeader, Holding, Return
<1>2. /\ val[2] \in Nat \ {0} /\ left = 1 /\ link[cur] = 0
      /\ cur \in 1 .. mem.end /\ own[cur] = -1 /\ ord[cur] = left
      /\ mark \in 1 .. mem.end /\ own[mark] = -1 /\ ord[mark] = val[2]
      /\ \A c \in 1 .. mem.end : own[c] = -1 =>
           /\ ord[c] >= left /\ ord[c] <= val[2]
           /\ c # cur => Leads(own, ord, c, link[c])
    BY <1>1, <1>s DEF Written, InWrite, InLast
<1>3. mark \notin DOMAIN held /\ mark \in Nat /\ mark # 0 /\ mem.end \in Nat
    BY <1>2, <1>s, Covered DEF HeldLists, HeldList
<1>4. /\ held'[mark] = val /\ mark \in DOMAIN held'
      /\ \A p \in DOMAIN held' : p # mark => p \in DOMAIN held /\ held'[p] = held[p]
      /\ DOMAIN held' = DOMAIN held \cup {mark}
    BY <1>1
<1>5. \A p \in DOMAIN held : p \in 1 .. mem.end /\ p # -1 /\ p # 0
    BY <1>3, <1>s DEF HeldLists, HeldList
<1>6. PICK own2 : \A c \in 1 .. mem.end : own2[c] = IF own[c] = -1 THEN mark ELSE own[c]
    <2>1. PICK f : f = [c \in 1 .. mem.end |-> IF own[c] = -1 THEN mark ELSE own[c]]
        OBVIOUS
    <2>2. \A c \in 1 .. mem.end : f[c] = IF own[c] = -1 THEN mark ELSE own[c]
        BY <2>1
    <2> QED
        BY <2>2
<1>7. \A c \in 1 .. mem.end : /\ own[c] # mark
                              /\ own2[c] = mark <=> own[c] = -1
                              /\ \A o \in {0} \cup DOMAIN held : own2[c] = o <=> own[c] = o
    BY <1>3, <1>5, <1>6, <1>s DEF Owned
<1>8. Owned(own2, ord)'
    <2>1. \A c \in 1 .. mem.end : own2[c] \in {0, -1} \cup DOMAIN held' /\ ord[c] \in Nat \ {0}
        BY <1>4, <1>6, <1>s DEF Owned
    <2>2. ASSUME NEW c \in 1 .. mem.end, NEW d \in 1 .. mem.end, own2[c] = own2[d], ord[c] = ord[d]
          PROVE  c = d
        <3>1. own[c] = own[d]
            BY <1>6, <1>7, <2>2
        <3> QED
            BY <1>s, <2>2, <3>1 DEF Owned
    <2> QED
        BY <1>1, <2>1, <2>2, NextShape DEF Owned
<1>9. FreeHead' = FreeHead /\ FreeHead' = mem.free
    BY <1>1 DEF FreeHead, Freeing
<1>10. \A c \in 1 .. mem.end : \A d : Leads(own, ord, c, d) => Leads(own2, ord, c, d)'
    BY <1>1, <1>6 DEF Leads
<1>11. FreeList(own2, ord)'
    BY <1>1, <1>7, <1>9, <1>10, <1>s DEF FreeList
<1>12. HeldLists(own2, ord)'
    <2> SUFFICES ASSUME NEW p \in DOMAIN held' PROVE HeldList(own2, ord, p)'
        BY DEF HeldLists
    <2>1. CASE p = mark
        <3>1. ASSUME NEW c \in 1 .. mem.end, own2[c] = mark
              PROVE  ord[c] <= val[2] /\ Leads(own2, ord, c, link[c])'
            <4>1. own[c] = -1 /\ ord[c] <= val[2]
                BY <1>2, <1>7, <3>1
            <4>2. CASE c = cur
                BY <1>1, <1>2, <4>1, <4>2 DEF Leads
            <4>3. CASE c # cur
                BY <1>1, <1>2, <1>10, <4>1, <4>3
            <4> QED
                BY <4>2, <4>3
        <3>2. own2[mark] = mark
            BY <1>2, <1>6
        <3> QED
            BY <1>1, <1>2, <1>4, <2>1, <3>1, <3>2 DEF HeldList
    <2>2. CASE p # mark
        <3>1. p \in DOMAIN held /\ held'[p] = held[p] /\ HeldList(own, ord, p)
            BY <1>4, <1>s, <2>2 DEF HeldLists
        <3>2. \A c \in 1 .. mem.end : own2[c] = p <=> own[c] = p
            BY <1>7, <3>1
        <3>3. mem'.end = mem.end /\ mem.end <= mem'.end /\ \A c \in 1 .. mem.end : link'[c] = link[c]
            BY <1>1, <1>3
        <3> QED
            BY <1>3, <3>1, <3>2, <3>3, ListKept
    <2> QED
        BY <2>1, <2>2
<1>13. Written(own2, ord)' /\ Taken(own2, ord)'
    BY <1>1 DEF Written, Taken, InWrite, InLast, Freeing
<1>14. Headers(own2)'
    <2>1. \A c \in 1 .. mem.end : own2[c] # -1
        BY <1>3, <1>6
    <2> QED
        BY <1>1, <2>1 DEF Headers, InWrite, InLast, Freeing
<1>15. Fits(ord)'
    BY <1>1, <1>s DEF Fits
<1>16. Books(own2, ord)'
    BY <1>8, <1>11, <1>12, <1>13, <1>14, <1>15 DEF Books
<1> QED
    BY <1>16

\* The structure becomes a batch again.
LEMMA FreeBeginBooks ==
  ASSUME Typed, Typed', NEW own, NEW ord, Books(own, ord), NEW p \in DOMAIN held, FreeBegin(p)
  PROVE  \E own2, ord2 : Books(own2, ord2)'
<1>s. /\ Owned(own, ord) /\ FreeList(own, ord) /\ HeldLists(own, ord) /\ Headers(own) /\ Fits(ord)
    BY DEF Books
<1>1. /\ pc = "idle" /\ mem.free # 0 /\ mem' = [mem EXCEPT !.free = p]
      /\ pc' = "freeChunk" /\ cur' = p /\ mark' = mem.free /\ val' = held[p]
      /\ held' = [q \in DOMAIN held \ {p} |-> held[q]]
      /\ UNCHANGED <<link, data, hdr>>
    BY DEF FreeBegin, Idle, file
<1>2. mem'.end = mem.end /\ mem'.free = p /\ hdr = mem /\ mem.end \in Nat
    <2>1. hdr = mem
        BY <1>1, <1>s DEF Headers, InLast, Freeing
    <2> QED
        BY <1>1, <2>1, Covered DEF Typed
<1>3. /\ held[p][2] \in Nat \ {0} /\ p \in 1 .. mem.end /\ own[p] = p /\ ord[p] = held[p][2]
      /\ \A c \in 1 .. mem.end : own[c] = p => ord[c] <= held[p][2] /\ Leads(own, ord, c, link[c])
      /\ \A c \in 1 .. mem.end : own[c] # -1
    <2>1. \A c \in 1 .. mem.end : own[c] # -1
        BY <1>1, <1>s DEF Headers, InWrite, InLast, Freeing
    <2> QED
        BY <1>s, <2>1 DEF HeldLists, HeldList
<1>4. \A q \in DOMAIN held : q \in 1 .. mem.end /\ q # -1 /\ q # 0
    BY <1>2, <1>s DEF HeldLists, HeldList
<1>5. PICK own2 : \A c \in 1 .. mem.end : own2[c] = IF own[c] = p THEN -1 ELSE own[c]
    <2>1. PICK f : f = [c \in 1 .. mem.end |-> IF own[c] = p THEN -1 ELSE own[c]]
        OBVIOUS
    <2>2. \A c \in 1 .. mem.end : f[c] = IF own[c] = p THEN -1 ELSE own[c]
        BY <2>1
    <2> QED
        BY <2>2
<1>6. \A c \in 1 .. mem.end : /\ own2[c] = -1 <=> own[c] = p
                              /\ own2[c] # p
                              /\ \A o \in {0} \cup DOMAIN held : o # p => (own2[c] = o <=> own[c] = o)
    BY <1>3, <1>4, <1>5
<1>7. /\ DOMAIN held' = DOMAIN held \ {p}
      /\ \A q \in DOMAIN held' : q \in DOMAIN held /\ q # p /\ held'[q] = held[q]
    BY <1>1
<1>8. Owned(own2, ord)'
    <2>1. \A c \in 1 .. mem.end : own2[c] \in {0, -1} \cup DOMAIN held' /\ ord[c] \in Nat \ {0}
        BY <1>5, <1>7, <1>s DEF Owned
    <2>2. ASSUME NEW c \in 1 .. mem.end, NEW d \in 1 .. mem.end, own2[c] = own2[d], ord[c] = ord[d]
          PROVE  c = d
        <3>1. own[c] = own[d]
            BY <1>5, <1>6, <2>2
        <3> QED
            BY <1>s, <2>2, <3>1 DEF Owned
    <2> QED
        BY <1>2, <2>1, <2>2, NextShape DEF Owned
<1>9. FreeHead' = mem.free /\ FreeHead = mem.free
    BY <1>1 DEF FreeHead, Freeing
<1>10. \A c \in 1 .. mem.end : \A d : Leads(own, ord, c, d) => Leads(own2, ord, c, d)'
    BY <1>1, <1>2, <1>5 DEF Leads
<1>11. FreeList(own2, ord)'
    <2>1. \A c \in 1 .. mem.end : own2[c] = 0 <=> own[c] = 0
        BY <1>4, <1>6
    <2> QED
        BY <1>1, <1>2, <1>9, <1>10, <1>s, <2>1 DEF FreeList
<1>12. HeldLists(own2, ord)'
    <2>1. \A q \in DOMAIN held', c \in 1 .. mem'.end : own2[c] = q <=> c \in 1 .. mem.end /\ own[c] = q
        <3> SUFFICES ASSUME NEW q \in DOMAIN held', NEW c \in 1 .. mem.end
                     PROVE  own2[c] = q <=> own[c] = q
            BY <1>2
        <3>1. q \in {0} \cup DOMAIN held /\ q # p
            BY <1>7
        <3> QED
            BY <1>6, <3>1
    <2>2. \A c \in 1 .. mem.end : link'[c] = link[c]
        BY <1>1
    <2> QED
        BY <1>2, <1>7, <1>s, <2>1, <2>2, HeldKept
<1>13. Written(own2, ord)'
    BY <1>1 DEF Written, InWrite, InLast
<1>14. Taken(own2, ord)'
    <2>1. val'[2] \in Nat \ {0} /\ own2[p] = -1 /\ ord[p] = val'[2]
        BY <1>1, <1>3, <1>6
    <2>2. ASSUME NEW c \in 1 .. mem.end, own2[c] = -1
          PROVE  ord[c] <= ord[p] /\ ~(ord[c] > ord[p]) /\ Leads(own2, ord, c, link[c])'
        <3>1. own[c] = p /\ ord[c] <= ord[p] /\ ord[c] \in Nat /\ ord[p] \in Nat /\ link'[c] = link[c]
            BY <1>1, <1>3, <1>6, <1>s, <2>2 DEF Owned
        <3> QED
            BY <1>3, <1>10, <3>1
    <2>3. p # 0
        BY <1>4
    <2> QED
        BY <1>1, <1>2, <1>3, <2>1, <2>2, <2>3 DEF Taken
<1>15. Headers(own2)'
    BY <1>1, <1>2 DEF Headers, InWrite, InLast, Freeing
<1>16. Fits(ord)'
    BY <1>1, <1>2, <1>s DEF Fits
<1>17. Books(own2, ord)'
    BY <1>8, <1>11, <1>12, <1>13, <1>14, <1>15, <1>16 DEF Books
<1> QED
    BY <1>17

\* One link more is turned round, or the last one joined to the free list: that
\* of a chunk which is neither on the list nor held.
LEMMA FreeChunkBooks ==
  ASSUME Typed, Typed', NEW own, NEW ord, Books(own, ord), FreeChunk \/ FreeJoin
  PROVE  Books(own, ord)'
<1>s. /\ Owned(own, ord) /\ FreeList(own, ord) /\ HeldLists(own, ord)
      /\ Taken(own, ord) /\ Headers(own) /\ Fits(ord)
    BY DEF Books
<1>c. PICK x, l : x = (IF cur = 0 THEN prev ELSE cur) /\ l = (IF cur = 0 THEN -mark ELSE -link[x])
    OBVIOUS
<1>1. /\ pc = "freeChunk" /\ Put(x, l, Zero) /\ UNCHANGED <<mem, mark, val, held>>
      /\ \/ cur # 0 /\ pc' = "freeChunk" /\ cur' = link[cur] /\ prev' = cur
         \/ cur = 0 /\ pc' = "freeHeader"
    BY <1>c DEF FreeChunk, FreeJoin
<1>2. /\ val[2] \in Nat \ {0}
      /\ mem.free \in 1 .. mem.end /\ own[mem.free] = -1 /\ ord[mem.free] = val[2]
      /\ x \in 1 .. mem.end /\ own[x] = -1 /\ (cur = 0 => ord[x] = 1)
      /\ \A c \in 1 .. mem.end : own[c] = -1 =>
           /\ ord[c] <= val[2]
           /\ Leads(own, ord, c, IF cur = 0 \/ ord[c] > ord[cur] THEN -link[c] ELSE link[c])
    BY <1>1, <1>c, <1>s DEF Taken, Freeing
<1>3. mem.end \in Nat /\ link[x] \in Int /\ mark \in Int /\ l \in Int
    <2>1. mem.end \in Nat /\ link[x] \in Int /\ mark \in Int
        BY <1>2, <1>s DEF Owned
    <2> QED
        BY <1>c, <2>1
<1>4. /\ hdr' = hdr
      /\ \A c \in 1 .. mem.end : link'[c] = IF c = x THEN l ELSE link[c]
    <2>1. /\ hdr' = hdr
          /\ \A c \in 1 .. mem.end : /\ link'[c] = IF c = x THEN l ELSE link[c]
                                     /\ data'[c] = IF c = x THEN Zero ELSE data[c]
        <3>1. Put(x, l, Zero) /\ x \in 1 .. mem.end /\ l \in Int
            BY <1>1, <1>2, <1>3
        <3> QED
            BY <3>1, PutChunk
    <2> QED
        BY <2>1
<1>5. \A c \in 1 .. mem.end : c # x => \A d : Leads(own, ord, c, d)' <=> Leads(own, ord, c, d)
    BY <1>1, <1>4 DEF Leads
<1>6. \A c \in 1 .. mem.end : own[c] # -1 => c # x /\ link'[c] = link[c]
    BY <1>2, <1>4
<1>7. Owned(own, ord)'
    BY <1>1, <1>s, NextShape DEF Owned
<1>8. FreeList(own, ord)'
    <2>1. FreeHead' = FreeHead
        BY <1>1 DEF FreeHead, Freeing
    <2>2. \A c \in 1 .. mem.end : own[c] = 0 => c # x /\ link'[c] = link[c]
        BY <1>6
    <2> QED
        BY <1>1, <1>5, <1>s, <2>1, <2>2 DEF FreeList
<1>9. HeldLists(own, ord)'
    <2>1. \A p \in DOMAIN held : p # -1
        BY <1>3, <1>s DEF HeldLists, HeldList
    <2>2. \A c \in 1 .. mem.end : own[c] \in DOMAIN held' => link'[c] = link[c]
        BY <1>1, <1>6, <2>1
    <2>3. mem'.end = mem.end /\ mem.end <= mem'.end
        BY <1>1, <1>3
    <2> QED
        BY <1>1, <1>3, <1>s, <2>2, <2>3, HeldKept
<1>10. Written(own, ord)'
    BY <1>1 DEF Written, InWrite, InLast
<1>o. \A c \in 1 .. mem.end : ord[c] \in Nat /\ ord[c] >= 1 /\ link[c] \in Int
    BY <1>s DEF Owned
<1>11. Taken(own, ord)'
    <2>1. CASE cur = 0
        <3>1. ASSUME NEW c \in 1 .. mem.end, own[c] = -1
              PROVE  IF ord[c] = 1 THEN link'[c] = -mark ELSE Leads(own, ord, c, -link[c])'
            <4>1. CASE ord[c] = 1
                <5>1. c = x
                    BY <1>2, <1>s, <2>1, <3>1, <4>1 DEF Owned
                <5> QED
                    BY <1>4, <1>c, <2>1, <4>1, <5>1
            <4>2. CASE ord[c] # 1
                <5>1. c # x /\ Leads(own, ord, c, -link[c]) /\ link'[c] = link[c]
                    BY <1>2, <1>4, <2>1, <3>1, <4>2
                <5> QED
                    BY <1>5, <4>2, <5>1
            <4> QED
                BY <4>1, <4>2
        <3> QED
            BY <1>1, <1>2, <2>1, <3>1 DEF Taken
    <2>2. CASE cur # 0
        <3>0. x = cur /\ l = -link[x] /\ pc' = "freeChunk" /\ cur' = link[x] /\ prev' = x
            BY <1>1, <1>c, <2>2
        <3>1. Leads(own, ord, x, link[x])
            BY <1>2, <1>o, <2>2, <3>0
        <3>2. CASE ord[x] = 1
            <4>1. cur' = 0 /\ link'[x] = 0
                BY <1>2, <1>4, <3>0, <3>1, <3>2 DEF Leads
            <4>2. ASSUME NEW c \in 1 .. mem.end, own[c] = -1 PROVE Leads(own, ord, c, -link[c])'
                <5>1. CASE c = x
                    BY <3>2, <4>1, <5>1 DEF Leads
                <5>2. CASE c # x
                    <6>1. ord[c] > ord[cur]
                        BY <1>2, <1>o, <1>s, <3>0, <3>2, <4>2, <5>2 DEF Owned
                    <6>2. Leads(own, ord, c, -link[c]) /\ link'[c] = link[c]
                        BY <1>2, <1>4, <4>2, <5>2, <6>1
                    <6> QED
                        BY <1>5, <5>2, <6>2
                <5> QED
                    BY <5>1, <5>2
            <4> QED
                BY <1>1, <1>2, <3>0, <3>2, <4>1, <4>2 DEF Taken
        <3>3. CASE ord[x] # 1
            <4> PICK d : d = link[x]
                OBVIOUS
            <4>1. d \in 1 .. mem.end /\ own[d] = -1 /\ ord[d] = ord[x] - 1 /\ cur' = d /\ d # 0
                BY <1>2, <3>0, <3>1, <3>3 DEF Leads
            <4>2. ASSUME NEW c \in 1 .. mem.end, own[c] = -1
                  PROVE  Leads(own, ord, c, IF ord[c] > ord[d] THEN -link[c] ELSE link[c])'
                <5>1. CASE c = x
                    <6>1. ord[c] > ord[d] /\ link'[c] = -d /\ -(-d) = d
                        BY <1>2, <1>4, <1>o, <3>0, <4>1, <5>1
                    <6>2. Leads(own, ord, c, d)'
                        BY <1>1, <1>2, <3>3, <4>1, <5>1 DEF Leads
                    <6> QED
                        BY <6>1, <6>2
                <5>2. CASE c # x
                    <6>1. ord[c] # ord[x]
                        BY <1>2, <1>s, <4>2, <5>2 DEF Owned
                    <6>2. ord[c] > ord[d] <=> ord[c] > ord[cur]
                        BY <1>2, <1>o, <3>0, <4>1, <6>1
                    <6>3. Leads(own, ord, c, IF ord[c] > ord[cur] THEN -link[c] ELSE link[c]) /\ link'[c] = link[c]
                        BY <1>2, <1>4, <2>2, <4>2, <5>2
                    <6> QED
                        BY <1>5, <5>2, <6>2, <6>3
                <5> QED
                    BY <5>1, <5>2
            <4> QED
                BY <1>1, <1>2, <3>0, <4>1, <4>2 DEF Taken
        <3> QED
            BY <3>2, <3>3
    <2> QED
        BY <2>1, <2>2
<1>12. Headers(own)'
    BY <1>1, <1>4, <1>s DEF Headers, InWrite, InLast, Freeing
<1>13. Fits(ord)'
    BY <1>1, <1>s DEF Fits
<1> QED
    BY <1>7, <1>8, <1>9, <1>10, <1>11, <1>12, <1>13 DEF Books

\* The batch goes before the list.
LEMMA FreeHeaderBooks ==
  ASSUME Typed, Typed', NEW own, NEW ord, Books(own, ord), FreeHeader
  PROVE  \E own2, ord2 : Books(own2, ord2)'
<1>s. /\ Owned(own, ord) /\ FreeList(own, ord) /\ HeldLists(own, ord)
      /\ Taken(own, ord) /\ Headers(own) /\ Fits(ord)
    BY DEF Books
<1>1. /\ pc = "freeHeader" /\ pc' = "idle" /\ hdr' = mem
      /\ UNCHANGED <<link, data, mem, held>>
    BY DEF FreeHeader, PutHeader, Return
<1>m. PICK m, f, n : m = ord[mark] /\ f = mem.free /\ n = val[2]
    OBVIOUS
<1>2. /\ n \in Nat /\ f \in 1 .. mem.end /\ own[f] = -1 /\ ord[f] = n
      /\ \A c \in 1 .. mem.end : own[c] = -1 =>
           /\ ord[c] <= n
           /\ IF ord[c] = 1 THEN link[c] = -mark ELSE Leads(own, ord, c, -link[c])
    BY <1>1, <1>m, <1>s DEF Taken, Freeing
<1>3. /\ FreeHead = mark /\ mark \in 1 .. mem.end /\ own[mark] = 0 /\ m \in Nat \ {0} /\ mem.end \in Nat
      /\ \A c \in 1 .. mem.end : own[c] = 0 => ord[c] <= m /\ Leads(own, ord, c, -link[c])
    <2>1. FreeHead = mark /\ mark # 0
        BY <1>1, <1>s DEF FreeHead, Headers, Freeing
    <2>2. mark \in 1 .. mem.end /\ own[mark] = 0
        BY <1>s, <2>1 DEF FreeList
    <2> QED
        BY <1>m, <1>s, <2>1, <2>2 DEF FreeList, Owned
<1>4. PICK own2, ord2 :
        \A c \in 1 .. mem.end : /\ own2[c] = IF own[c] = -1 THEN 0 ELSE own[c]
                                /\ ord2[c] = IF own[c] = -1 THEN ord[c] + m ELSE ord[c]
    <2>1. PICK g, h : /\ g = [c \in 1 .. mem.end |-> IF own[c] = -1 THEN 0 ELSE own[c]]
                      /\ h = [c \in 1 .. mem.end |-> IF own[c] = -1 THEN ord[c] + m ELSE ord[c]]
        OBVIOUS
    <2>2. \A c \in 1 .. mem.end : /\ g[c] = IF own[c] = -1 THEN 0 ELSE own[c]
                                  /\ h[c] = IF own[c] = -1 THEN ord[c] + m ELSE ord[c]
        BY <2>1
    <2> QED
        BY <2>2
<1>5. /\ \A p \in DOMAIN held : p # -1 /\ p # 0
      /\ \A c \in 1 .. mem.end : ord[c] \in Nat /\ ord[c] >= 1 /\ link[c] \in Int
    BY <1>3, <1>s DEF HeldLists, HeldList, Owned
<1>6. Owned(own2, ord2)'
    <2>1. \A c \in 1 .. mem.end : own2[c] \in {0, -1} \cup DOMAIN held /\ ord2[c] \in Nat \ {0}
        BY <1>3, <1>4, <1>5, <1>s DEF Owned
    <2>2. ASSUME NEW c \in 1 .. mem.end, NEW d \in 1 .. mem.end, own2[c] = own2[d], ord2[c] = ord2[d]
          PROVE  c = d
        <3>1. ASSUME NEW a \in 1 .. mem.end, NEW b \in 1 .. mem.end, own[a] = -1, own[b] = 0, ord2[a] = ord2[b]
              PROVE  FALSE
            <4>1. ord2[a] = ord[a] + m /\ ord2[b] = ord[b] /\ ord[b] <= m
                BY <1>3, <1>4, <3>1
            <4>2. PICK x, y : x = ord[a] /\ y = ord[b]
                OBVIOUS
            <4>3. x + m = y /\ y <= m /\ x \in Nat /\ x >= 1 /\ y \in Nat /\ m \in Nat
                BY <1>3, <1>5, <3>1, <4>1, <4>2
            <4> QED
                BY <4>3
        <3>2. own[c] = own[d]
            BY <1>4, <2>2, <3>1
        <3>3. ord[c] = ord[d]
            BY <1>3, <1>4, <1>5, <2>2, <3>2
        <3> QED
            BY <1>s, <3>2, <3>3 DEF Owned
    <2> QED
        BY <1>1, <2>1, <2>2, NextShape DEF Owned
<1>7. FreeList(own2, ord2)'
    <2>1. FreeHead' = f /\ f # 0 /\ own2[f] = 0 /\ ord2[f] = n + m
        BY <1>1, <1>2, <1>3, <1>4, <1>m DEF FreeHead, Freeing
    <2>2. ASSUME NEW c \in 1 .. mem.end, own2[c] = 0
          PROVE  ord2[c] <= n + m /\ Leads(own2, ord2, c, -link[c])'
        <3>1. CASE own[c] = 0
            <4>1. ord2[c] = ord[c] /\ ord[c] <= m /\ Leads(own, ord, c, -link[c])
                BY <1>3, <1>4, <3>1
            <4>2. ord2[c] <= n + m
                BY <1>2, <1>3, <1>5, <4>1
            <4>3. CASE ord[c] = 1
                BY <1>1, <4>1, <4>2, <4>3 DEF Leads
            <4>4. CASE ord[c] # 1
                <5> PICK d : d = -link[c]
                    OBVIOUS
                <5>1. d \in 1 .. mem.end /\ own[d] = 0 /\ ord[d] = ord[c] - 1
                    BY <3>1, <4>1, <4>4 DEF Leads
                <5>2. own2[d] = 0 /\ ord2[d] = ord2[c] - 1
                    BY <1>4, <4>1, <5>1
                <5> QED
                    BY <1>1, <2>2, <4>1, <4>2, <4>4, <5>1, <5>2 DEF Leads
            <4> QED
                BY <4>3, <4>4
        <3>2. CASE own[c] = -1
            <4>1. ord2[c] = ord[c] + m /\ ord[c] <= n /\ ord2[c] # 1 /\ ord2[c] <= n + m
                BY <1>2, <1>3, <1>4, <1>5, <3>2
            <4> PICK d : d = -link[c]
                OBVIOUS
            <4>2. d \in 1 .. mem.end /\ own2[d] = 0 /\ ord2[d] = ord2[c] - 1
                <5>1. CASE ord[c] = 1
                    <6>1. d = mark
                        BY <1>2, <1>3, <3>2, <5>1
                    <6>2. own2[mark] = 0 /\ ord2[mark] = m
                        BY <1>3, <1>4, <1>m
                    <6> QED
                        BY <1>3, <4>1, <5>1, <6>1, <6>2
                <5>2. CASE ord[c] # 1
                    <6>1. d \in 1 .. mem.end /\ own[d] = -1 /\ ord[d] = ord[c] - 1
                        BY <1>2, <3>2, <5>2 DEF Leads
                    <6>2. own2[d] = 0 /\ ord2[d] = ord[d] + m
                        BY <1>4, <6>1
                    <6> QED
                        BY <1>3, <1>5, <4>1, <6>1, <6>2
                <5> QED
                    BY <5>1, <5>2
            <4> QED
                BY <1>1, <2>2, <4>1, <4>2 DEF Leads
        <3> QED
            BY <1>4, <2>2, <3>1, <3>2
    <2> QED
        BY <1>1, <1>2, <2>1, <2>2 DEF FreeList
<1>8. HeldLists(own2, ord2)'
    <2>1. \A p \in DOMAIN held', c \in 1 .. mem'.end : own2[c] = p <=> c \in 1 .. mem.end /\ own[c] = p
        BY <1>1, <1>4, <1>5
    <2>2. \A c \in 1 .. mem.end : own[c] \in DOMAIN held' => ord2[c] = ord[c] /\ link'[c] = link[c]
        BY <1>1, <1>4, <1>5
    <2>3. mem'.end = mem.end /\ mem.end <= mem'.end
        BY <1>1, <1>3
    <2> QED
        BY <1>1, <1>3, <1>s, <2>1, <2>2, <2>3, HeldKept
<1>9. Written(own2, ord2)' /\ Taken(own2, ord2)'
    BY <1>1 DEF Written, Taken, InWrite, InLast, Freeing
<1>10. Headers(own2)'
    <2>1. \A c \in 1 .. mem.end : own2[c] # -1
        BY <1>4
    <2> QED
        BY <1>1, <2>1 DEF Headers, InWrite, InLast, Freeing
<1>11. Fits(ord2)'
    BY <1>1, <1>s DEF Fits
<1>12. Books(own2, ord2)'
    BY <1>6, <1>7, <1>8, <1>9, <1>10, <1>11 DEF Books
<1> QED
    BY <1>12

\* The file of a database that has met no fault, at its creation.
LEMMA InitLedger == Init => Ledger
<1> SUFFICES ASSUME Init PROVE Books(<<>>, <<>>)
    BY DEF Ledger
<1>1. /\ hdr = mem /\ mem = [end |-> 0, free |-> 0] /\ pc = "initPage" /\ mark = 0 /\ DOMAIN held = {}
    BY DEF Init
<1>2. mem.end = 0 /\ mem.free = 0 /\ FreeHead = 0
    BY <1>1 DEF FreeHead, Freeing
<1>3. Owned(<<>>, <<>>) /\ FreeList(<<>>, <<>>) /\ HeldLists(<<>>, <<>>)
    BY <1>1, <1>2 DEF Owned, FreeList, HeldLists
<1>4. Written(<<>>, <<>>) /\ Taken(<<>>, <<>>) /\ Headers(<<>>)
    BY <1>1, <1>2 DEF Written, Taken, Headers, InWrite, InLast, Freeing
<1>5. Fits(<<>>)
    BY <1>1, <1>2, SizesAssumption DEF Fits
<1> QED
    BY <1>3, <1>4, <1>5 DEF Books

LEMMA SameBooks ==
  ASSUME NEW own, NEW ord, Books(own, ord),
         UNCHANGED <<link, data, hdr, mem, pc, cur, prev, left, mark, val, held>>
  PROVE  Books(own, ord)'
<1>2. /\ Owned(own, ord) /\ FreeList(own, ord) /\ HeldLists(own, ord)
      /\ Written(own, ord) /\ Taken(own, ord) /\ Headers(own) /\ Fits(ord)
    BY DEF Books
<1>3. FreeHead' = FreeHead /\ \A c, d : Leads(own, ord, c, d)' <=> Leads(own, ord, c, d)
    BY DEF FreeHead, Freeing, Leads
<1>4. Owned(own, ord)' /\ FreeList(own, ord)' /\ HeldLists(own, ord)'
    BY <1>2, <1>3 DEF Owned, FreeList, HeldLists, HeldList
<1>5. Written(own, ord)'
    BY <1>2, <1>3 DEF Written, InWrite, InLast
<1>6. Taken(own, ord)'
    BY <1>2, <1>3 DEF Taken, Freeing
<1>7. Headers(own)' /\ Fits(ord)'
    BY <1>2, <1>3 DEF Headers, InWrite, InLast, Freeing, Fits
<1> QED
    BY <1>4, <1>5, <1>6, <1>7 DEF Books

\* A file that is opened again between calls is the same.
LEMMA ReopenBooks ==
  ASSUME NEW own, NEW ord, Books(own, ord), Reopen
  PROVE  Books(own, ord)'
<1>1. UNCHANGED <<link, data, hdr, pc, cur, prev, left, mark, val, held>> /\ mem' = hdr /\ pc = "idle"
    BY DEF Reopen, Load, Idle, file, call
<1>2. hdr = mem
    BY <1>1 DEF Books, Headers, InLast, Freeing
<1>3. UNCHANGED mem
    BY <1>1, <1>2
<1> QED
    BY <1>1, <1>3, SameBooks

\* What is no fault leaves the faults as they are.
LEMMA FaultsStay == [Next]_vars /\ ~Crash /\ ~Fail => UNCHANGED faults
    BY DEF Next, Step, vars, InitPage, InitHeader, WriteChunk, WriteNeedsPage, WritePageHeader,
       WriteChunkToPage, WriteLast, LastPage, LastPageHeader, WriteHeader, FreeChunk, FreeJoin,
       FreeHeader, WriteBegin, FreeBegin, Reopen

LEMMA NextLedger == Apart /\ Apart' /\ Ledger /\ [Next]_vars => Ledger'
<1> SUFFICES ASSUME Apart, Apart', Ledger, [Next]_vars, faults' = <<>>
             PROVE  \E own2, ord2 : Books(own2, ord2)'
    BY DEF Ledger
<1>s. Typed /\ Typed' /\ PageReady
    BY DEF Apart, Shape
<1>f. ASSUME NEW kind, Strikes(kind) PROVE FALSE
    <2>1. faults' = Append(faults, kind) /\ Len(faults) \in Nat
        BY <1>f DEF Strikes
    <2> QED
        BY <2>1
<1>n. ~Crash /\ ~Fail
    BY <1>f DEF Crash, Fail
<1>u. faults = <<>>
    BY <1>n, FaultsStay
<1>b. PICK own, ord : Books(own, ord)
    BY <1>u DEF Ledger
<1>1. CASE InitPage \/ WriteNeedsPage \/ LastPage
    BY <1>1, <1>b, <1>s, PageBooks
<1>2. CASE InitHeader \/ WritePageHeader \/ LastPageHeader
    BY <1>2, <1>b, <1>s, HeaderBooks
<1>3. CASE WriteChunk \/ WriteChunkToPage
    BY <1>3, <1>b, <1>s, WriteChunkBooks
<1>4. CASE WriteLast
    BY <1>4, <1>b, <1>s, WriteLastBooks
<1>5. CASE WriteHeader
    BY <1>5, <1>b, <1>s, WriteHeaderBooks
<1>6. CASE FreeChunk \/ FreeJoin
    BY <1>6, <1>b, <1>s, FreeChunkBooks
<1>7. CASE FreeHeader
    BY <1>7, <1>b, <1>s, FreeHeaderBooks
<1>8. ASSUME NEW n \in 1 .. MaxLen, NEW v \in Values, WriteBegin(n, v)
      PROVE  \E own2, ord2 : Books(own2, ord2)'
    BY <1>8, <1>b, <1>s, WriteBeginBooks
<1>9. ASSUME NEW p \in DOMAIN held, FreeBegin(p) PROVE \E own2, ord2 : Books(own2, ord2)'
    BY <1>9, <1>b, <1>s, FreeBeginBooks
<1>10. CASE UNCHANGED vars
    <2>1. UNCHANGED <<link, data, hdr, mem, pc, cur, prev, left, mark, val, held>>
        BY <1>10 DEF vars, file, call
    <2> QED
        BY <1>b, <2>1, SameBooks
<1>11. CASE Reopen
    BY <1>11, <1>b, ReopenBooks
<1> QED
    BY <1>n, <1>1, <1>2, <1>3, <1>4, <1>5, <1>6, <1>7, <1>8, <1>9, <1>10, <1>11 DEF Next, Step

\* What has been lost, by the header the process reads.
Loss ==
  /\ Idle => Lost = {}
  /\ Freeing => Cardinality(Lost) <= val[2]
  /\ hdr.free # 0 /\ link[hdr.free] > 0 => ~Idle /\ ~Freeing /\ data[hdr.free] = val
  /\ val = Zero => Lost = {} /\ ~UsedHead(link, hdr)

DiskLoss ==
  /\ latest = Untouched => DiskLost = {}
  /\ latest.freeing => Cardinality(DiskLost) <= latest.batch[2]
  /\ UsedHead(disk.link, disk.hdr) =>
       latest.batch # Zero /\ ~latest.freeing /\ disk.data[disk.hdr.free] = latest.batch

\* Without a batch there is no call, but at the creation of the file.
Batched ==
  /\ val = Zero => pc \in {"idle", "initPage", "initHeader"}
  /\ pc \in {"initPage", "initHeader"} => val = Zero /\ hdr = [end |-> 0, free |-> 0]

LEMMA InitBatched == Init => Batched
    BY DEF Init, Batched

LEMMA NextBatched == Apart /\ Batched /\ [Next]_vars => Batched'
<1> SUFFICES ASSUME Apart, Batched, [Next]_vars PROVE Batched'
    OBVIOUS
<1> USE DEF Batched
<1>1. CASE Step
    <2>1. CASE InitPage \/ InitHeader
        BY <2>1 DEF InitPage, InitHeader, WritePage, Return
    <2>2. CASE WriteChunk \/ WriteNeedsPage \/ WritePageHeader \/ WriteChunkToPage
        BY <2>2 DEF WriteChunk, WriteNeedsPage, WritePageHeader, WriteChunkToPage
    <2>3. CASE WriteLast \/ LastPage \/ LastPageHeader \/ WriteHeader
        BY <2>3 DEF WriteLast, LastPage, LastPageHeader, WriteHeader, Return
    <2>4. CASE FreeChunk \/ FreeJoin \/ FreeHeader
        BY <2>4 DEF FreeChunk, FreeJoin, FreeHeader, Return
    <2> QED
        BY <1>1, <2>1, <2>2, <2>3, <2>4 DEF Step
<1>2. CASE Crash \/ Fail
    BY <1>2 DEF Crash, Fail, Return
<1>3. CASE Reopen
    BY <1>3 DEF Reopen, Idle, call, file
<1>4. ASSUME NEW n \in 1 .. MaxLen, NEW v \in Values, WriteBegin(n, v) PROVE Batched'
    <2>1. val' = <<v, n>> /\ pc' = "chunk" /\ n # 0
        BY <1>4, SizesAssumption DEF WriteBegin
    <2>2. val'[2] = n /\ Zero[2] = 0
        BY <2>1 DEF Zero
    <2> QED
        BY <2>1, <2>2
<1>5. ASSUME NEW p \in DOMAIN held, FreeBegin(p) PROVE Batched'
    <2>1. val' = held[p] /\ pc' = "freeChunk"
        BY <1>5 DEF FreeBegin
    <2>2. held[p][2] # 0
        BY DEF Apart, Shape, Structs
    <2>3. Zero[2] = 0
        BY DEF Zero
    <2> QED
        BY <2>1, <2>2, <2>3
<1>6. CASE UNCHANGED vars
    BY <1>6 DEF vars, file, call
<1> QED
    BY <1>1, <1>2, <1>3, <1>4, <1>5, <1>6 DEF Next

\* Until the first fault.
LEMMA LossKnown == Apart /\ Batched /\ Ledger /\ faults = <<>> => Loss
<1> SUFFICES ASSUME Apart, Batched, Ledger, faults = <<>> PROVE Loss
    OBVIOUS
<1>1. Typed
    BY DEF Apart, Shape
<1>2. PICK own, ord : Books(own, ord)
    BY DEF Ledger
<1>3. /\ Idle => Lost = {}
      /\ Freeing => Cardinality(Lost) <= val[2]
      /\ hdr.free # 0 /\ link[hdr.free] > 0 => ~Idle /\ ~Freeing /\ data[hdr.free] = val
    BY <1>1, <1>2, LossCounted
<1>4. ASSUME val = Zero PROVE Lost = {} /\ ~UsedHead(link, hdr)
    <2>1. CASE Idle
        BY <1>3, <2>1 DEF UsedHead
    <2>2. CASE ~Idle
        <3>1. hdr.end = 0 /\ hdr.free = 0
            BY <1>4, <2>2 DEF Batched, Idle
        <3> QED
            BY <3>1 DEF UsedHead, Lost, LostIn
    <2> QED
        BY <2>1, <2>2
<1> QED
    BY <1>3, <1>4 DEF Loss

\* The file changes with an access, or when it is closed.
LEMMA LastStep ==
  ASSUME [Next]_vars, ~Crash, ~Fail
  PROVE  UNCHANGED <<disk, latest>> \/ Access \/ (Reopen /\ Idle /\ disk' = View /\ latest' = Untouched)
<1> USE DEF NoAccess, Put, PutHeader, WritePage
<1>1. CASE Step
    <2>1. CASE InitPage \/ InitHeader \/ WriteChunk \/ WriteNeedsPage \/ WritePageHeader
        BY <2>1 DEF InitPage, InitHeader, WriteChunk, WriteNeedsPage, WritePageHeader
    <2>2. CASE WriteChunkToPage \/ WriteLast \/ LastPage \/ LastPageHeader \/ WriteHeader
        BY <2>2 DEF WriteChunkToPage, WriteLast, LastPage, LastPageHeader, WriteHeader
    <2>3. CASE FreeChunk \/ FreeJoin \/ FreeHeader
        BY <2>3 DEF FreeChunk, FreeJoin, FreeHeader
    <2> QED
        BY <1>1, <2>1, <2>2, <2>3 DEF Step
<1>2. CASE Reopen
    BY <1>2 DEF Reopen, Flush
<1>3. ASSUME NEW n \in 1 .. MaxLen, NEW v \in Values, WriteBegin(n, v) PROVE UNCHANGED <<disk, latest>>
    BY <1>3 DEF WriteBegin
<1>4. ASSUME NEW p \in DOMAIN held, FreeBegin(p) PROVE UNCHANGED <<disk, latest>>
    BY <1>4 DEF FreeBegin
<1>5. CASE UNCHANGED vars
    BY <1>5 DEF vars
<1> QED
    BY <1>1, <1>2, <1>3, <1>4, <1>5 DEF Next

LossInv == Safe /\ Batched /\ Ledger /\ (faults = <<>> => DiskLoss)

LEMMA InitLossInv == Init => LossInv
<1> SUFFICES ASSUME Init PROVE LossInv
    OBVIOUS
<1>1. Safe /\ Batched /\ Ledger
    BY InitSafe, InitBatched, InitLedger
<1>2. disk = View /\ latest = Untouched /\ hdr = [end |-> 0, free |-> 0] /\ Zero = <<0, 0>>
    BY DEF Init, Zero
<1>3. disk.hdr.end = 0 /\ disk.hdr.free = 0 /\ ~latest.freeing
    BY <1>2 DEF View, Untouched
<1>4. DiskLost = {} /\ ~UsedHead(disk.link, disk.hdr)
    BY <1>3 DEF DiskLost, LostIn, UsedHead
<1> QED
    BY <1>1, <1>3, <1>4 DEF LossInv, DiskLoss

LEMMA NextLossInv == LossInv /\ [Next]_vars => LossInv'
<1> SUFFICES ASSUME LossInv, [Next]_vars PROVE LossInv'
    OBVIOUS
<1>1. Safe' /\ Batched' /\ Ledger'
    BY NextSafe, NextBatched, NextLedger DEF LossInv, Safe
<1>2. ASSUME faults' = <<>> PROVE DiskLoss'
    <2>1. ~Crash /\ ~Fail
        <3> SUFFICES ASSUME NEW kind, Strikes(kind) PROVE FALSE
            BY DEF Crash, Fail
        <3>1. faults' = Append(faults, kind) /\ Len(faults) \in Nat
            BY DEF Strikes
        <3> QED
            BY <1>2, <3>1
    <2>2. faults = <<>>
        BY <2>1, <1>2, FaultsStay
    <2>3. Loss /\ DiskLoss
        BY <2>2, LossKnown DEF LossInv, Safe
    <2>4. CASE UNCHANGED <<disk, latest>>
        BY <2>3, <2>4 DEF DiskLoss, DiskLost
    <2>5. ASSUME disk' = View
          PROVE  /\ DiskLost' = Lost
                 /\ UsedHead(disk.link, disk.hdr)' <=> UsedHead(link, hdr)
                 /\ disk'.data[disk'.hdr.free] = data[hdr.free]
        <3>1. disk'.link = link /\ disk'.hdr = hdr /\ disk'.held = held /\ disk'.data = data
            BY <2>5 DEF View
        <3> QED
            BY <3>1 DEF DiskLost, Lost, UsedHead
    <2>6. CASE Access
        <3>1. disk' = View /\ latest' = [freeing |-> Freeing, batch |-> val]
            BY <2>6 DEF Access, Flush
        <3>2. latest'.batch = val /\ (latest'.freeing <=> Freeing)
            BY <3>1
        <3>3. latest' = Untouched => val = Zero
            BY <3>2 DEF Untouched
        <3> QED
            BY <2>3, <2>5, <3>1, <3>2, <3>3 DEF Loss, DiskLoss, UsedHead
    <2>7. CASE Idle /\ disk' = View /\ latest' = Untouched
        <3>1. ~latest'.freeing
            BY <2>7 DEF Untouched
        <3> QED
            BY <2>3, <2>5, <2>7, <3>1 DEF Loss, DiskLoss, UsedHead
    <2> QED
        BY <2>1, <2>4, <2>6, <2>7, LastStep
<1> QED
    BY <1>1, <1>2 DEF LossInv

\* The first kill, whenever it comes: before the next access after a write of a
\* structure it may lose the list behind that; after any other, at most the
\* structure that is freed, or was.
THEOREM CrashLossBounded == Spec => []CrashLoss
<1>1. LossInv => CrashLoss
    <2> SUFFICES ASSUME LossInv, faults = <<>>
                 PROVE  (Idle => Lost = {}) /\ DiskLoss
        BY DEF CrashLoss, DiskLoss
    <2> QED
        BY LossKnown DEF LossInv, Safe, Loss
<1> QED
    BY <1>1, InitLossInv, NextLossInv, PTL DEF Spec
=============================================================================
