-------------------------- MODULE ChunkStoreProofs --------------------------
(***************************************************************************)
(* The inductive invariant of ChunkStore, proved for every number of       *)
(* lists, size of page, length of structure and size of file, and what     *)
(* follows from it.  One lemma per action; in each, the type facts come    *)
(* first, then what the action does, then one step per part of IInv.  The  *)
(* last parts are about walks: free lists and structures are met whole,    *)
(* and each step of a call is one of ChunkHeap or changes nothing there.   *)
(***************************************************************************)
EXTENDS ChunkStore, WalkProofs, SequenceTheorems, TLAPS

\* The facts about types the leaves need.
LEMMA TypeFacts ==
  ASSUME IInv
  PROVE  /\ NumLists \in Nat \ {0} /\ MaxLen \in Nat \ {0} /\ MaxFile \in Nat
         /\ ChunksPerPage \in Nat \ {0}
         /\ fileEnd \in Nat /\ fileEnd <= MaxFile
         /\ marker \in [Chunks -> 0 .. NumLists]
         /\ nxt \in [Chunks -> Link]
         /\ firstFree \in [Lists -> Ptr]
         /\ lst \in Lists
         /\ held \subseteq Chunks
         /\ owner \in [Chunks -> Ptr]
         /\ rank \in [Chunks -> Nat]
BY SizesAssumption DEF IInv, TypeOK

\* An allocated chunk is a chunk, and what is recorded for it is a number.
LEMMA ChunkFacts ==
  ASSUME IInv, NEW c \in Allocated
  PROVE  /\ c \in Chunks /\ c \in Nat /\ c # 0 /\ c \in Ptr /\ c \in Link
         /\ nxt[c] \in Int /\ rank[c] \in Nat /\ owner[c] \in Nat
         /\ marker[c] \in Nat
<1>1. c \in Chunks /\ c \in Nat /\ c # 0
  BY TypeFacts DEF Allocated, Chunks
<1>2. nxt[c] \in Link /\ rank[c] \in Nat /\ owner[c] \in Ptr /\ marker[c] \in 0 .. NumLists
  BY TypeFacts, <1>1
<1>3. c \in Ptr /\ c \in Link
  BY TypeFacts, <1>1 DEF Chunks, Ptr, Link
<1> QED
  BY <1>1, <1>2, <1>3, TypeFacts DEF Link, Ptr

\* Zero is a pointer and a length; there is a first list.
LEMMA Defaults == 0 \in Ptr /\ 1 \in Lists /\ 0 \in 0 .. MaxLen
BY SizesAssumption DEF Ptr, Lists

\* While no call is in progress the free lists start at their heads and the
\* structures are the ones callers hold.
LEMMA IdleShape ==
  ASSUME pc \in {"init", "idle", "rewrite"}
  PROVE  /\ \A l \in Lists : Top(l) = firstFree[l]
         /\ Structures = held
         /\ \A p \in held : FirstOf(p) = p
BY DEF Top, Structures, FirstOf

\* A structure in use starts at a used chunk, a free list at a free one.
LEMMA HeldIsUsed ==
  ASSUME IInv, NEW p \in Structures, FirstOf(p) = p
  PROVE  p \in Allocated /\ owner[p] = p /\ Used(p)
<1>1. p \in Allocated /\ owner[p] = p
  BY DEF IInv, UsedTops
<1> QED
  BY <1>1, ChunkFacts DEF Used

-----------------------------------------------------------------------------

LEMMA InitIInv == Init => IInv
<1> SUFFICES ASSUME Init PROVE IInv
  OBVIOUS
<1>1. TypeOK
  <2>1. 0 \in Link /\ 0 \in 0 .. NumLists /\ 0 \in 0 .. MaxFile
    BY SizesAssumption DEF Link
  <2>2. data \in [Chunks -> (Values \cup {NoVal}) \X (0 .. MaxLen)]
    BY Defaults DEF Init, Zero
  <2> QED
    BY Defaults, <2>1, <2>2 DEF Init, TypeOK
<1>2. Allocated = {}
  BY DEF Init, Allocated
<1>3. Pages
  BY <1>2 DEF Init, Pages, Free
<1>4. Open = {} /\ Structures = {}
  BY DEF Init, Open, Structures
<1>5. InitCall
  BY SizesAssumption, FileAssumption DEF Init, InitCall
<1>6. WriteCall /\ FreeCall /\ RewriteCall
  BY DEF Init, WriteCall, FreeCall, RewriteCall
<1> QED
  BY <1>1, <1>2, <1>3, <1>4, <1>5, <1>6
  DEF IInv, FreeTops, FreeLinks, FreeRanks, UsedTops, UsedLinks, UsedRanks

-----------------------------------------------------------------------------
(* The calls begin.                                                        *)

LEMMA RewriteBeginInv ==
  ASSUME IInv, NEW p \in Chunks, NEW v \in Values, RewriteBegin(p, v)
  PROVE  IInv'
<1>a. /\ pc = "idle" /\ p \in held
      /\ pc' = "rewrite" /\ lst' = marker[p] /\ cur' = p /\ mark' = p
      /\ left' = rank[p] /\ val' = v /\ tgt' = tgt
  BY DEF RewriteBegin
<1>b. UNCHANGED <<fileEnd, marker, nxt, data, firstFree, held, owner, rank>>
  BY DEF RewriteBegin, file, ghosts
<1>c. /\ \A l \in Lists : Top(l) = firstFree[l] /\ Top(l)' = firstFree[l]
      /\ Structures = held /\ Structures' = held
      /\ \A q \in held : FirstOf(q) = q /\ FirstOf(q)' = q
      /\ Open = Lists /\ Open' = Lists /\ Allocated' = Allocated
      /\ \A c : Free(c)' = Free(c) /\ Used(c)' = Used(c)
  BY <1>a, <1>b DEF Top, Structures, FirstOf, Open, Allocated, Free, Used
<1>d. p \in Allocated /\ owner[p] = p /\ Used(p)
  BY <1>a, <1>c, HeldIsUsed
<1>e. UsedLink(p)
  BY <1>d DEF IInv, UsedLinks
<1>f. rank[p] \in 1 .. MaxLen
  BY <1>d, <1>e, ChunkFacts, TypeFacts DEF UsedLink
<1>g. marker[p] \in Lists
  BY <1>c, <1>d DEF IInv, Pages
<1>1. TypeOK'
  <2>1. p \in Ptr /\ rank[p] \in 0 .. MaxLen
    BY <1>f, TypeFacts DEF Ptr, Chunks
  <2> QED
    BY <1>a, <1>b, <1>g, <2>1 DEF IInv, TypeOK
<1>2. Pages' /\ FreeTops'
  BY <1>b, <1>c DEF IInv, Pages, FreeTops
<1>3. FreeLinks' /\ FreeRanks'
  BY <1>a, <1>b, <1>c DEF IInv, Pages, FreeLinks, FreeLink, FreeRanks
<1>4. UsedTops' /\ UsedRanks'
  BY <1>b, <1>c DEF IInv, UsedTops, UsedRanks
<1>5. UsedLinks'
  BY <1>a, <1>b, <1>c DEF IInv, UsedLinks, UsedLink
<1>6. RewriteCall'
  BY <1>a, <1>b, <1>c, <1>d, <1>f DEF RewriteCall
<1>7. InitCall' /\ WriteCall' /\ FreeCall'
  BY <1>a DEF IInv, InitCall, WriteCall, FreeCall
<1> QED
  BY <1>1, <1>2, <1>3, <1>4, <1>5, <1>6, <1>7 DEF IInv

LEMMA WriteBeginInv ==
  ASSUME IInv, NEW l \in Lists, NEW n \in 1 .. MaxLen, NEW v \in Values, WriteBegin(l, n, v)
  PROVE  IInv'
<1>a. /\ pc = "idle" /\ Room(l, n)
      /\ pc' = "write" /\ lst' = l /\ left' = n /\ val' = v
      /\ cur' = firstFree[l] /\ mark' = firstFree[l] /\ tgt' = tgt
  BY DEF WriteBegin
<1>b. UNCHANGED <<fileEnd, marker, nxt, data, firstFree, held, owner, rank>>
  BY DEF WriteBegin, file, ghosts
<1>c. /\ \A k \in Lists : Top(k) = firstFree[k] /\ Top(k)' = firstFree[k]
      /\ Structures = held /\ Structures' = held
      /\ \A q \in held : FirstOf(q) = q /\ FirstOf(q)' = q
      /\ Open = Lists /\ Open' = Lists /\ Allocated' = Allocated
      /\ \A c : Free(c)' = Free(c) /\ Used(c)' = Used(c)
  BY <1>a, <1>b DEF Top, Structures, FirstOf, Open, Allocated, Free, Used
<1>d. firstFree[l] \in Allocated /\ marker[firstFree[l]] = l /\ Free(firstFree[l])
  BY <1>c DEF IInv, FreeTops
<1>e. firstFree[l] \notin held
  BY <1>c, <1>d, HeldIsUsed DEF Free, Used
<1>f. \A c \in Allocated : owner[c] # firstFree[l]
  <2> SUFFICES ASSUME NEW c \in Allocated, owner[c] = firstFree[l] PROVE FALSE
    OBVIOUS
  <2>1. Used(c)
    BY <1>d, ChunkFacts DEF Used
  <2> QED
    BY <1>c, <1>e, <2>1 DEF IInv, UsedLinks, UsedLink
<1>1. TypeOK'
  <2>1. firstFree[l] \in Ptr /\ n \in 0 .. MaxLen
    BY TypeFacts
  <2> QED
    BY <1>a, <1>b, <2>1 DEF IInv, TypeOK
<1>2. Pages' /\ FreeTops'
  BY <1>b, <1>c DEF IInv, Pages, FreeTops
<1>3. FreeLinks' /\ FreeRanks'
  BY <1>a, <1>b, <1>c DEF IInv, Pages, FreeLinks, FreeLink, FreeRanks
<1>4. UsedTops' /\ UsedRanks'
  BY <1>b, <1>c DEF IInv, UsedTops, UsedRanks
<1>5. UsedLinks'
  BY <1>a, <1>b, <1>c, <1>f DEF IInv, UsedLinks, UsedLink
<1>6. WriteCall'
  <2>1. n < rank[firstFree[l]] \/ fileEnd + n * ChunksPerPage <= MaxFile
    BY <1>a DEF Room
  <2> QED
    BY <1>a, <1>b, <1>c, <1>d, <1>e, <1>f, <2>1 DEF WriteCall
<1>7. InitCall' /\ RewriteCall' /\ FreeCall'
  BY <1>a DEF IInv, InitCall, RewriteCall, FreeCall
<1> QED
  BY <1>1, <1>2, <1>3, <1>4, <1>5, <1>6, <1>7 DEF IInv

LEMMA FreeBeginInv ==
  ASSUME IInv, NEW p \in Chunks, FreeBegin(p)
  PROVE  IInv'
<1>a. /\ pc = "idle" /\ p \in held
      /\ pc' = "free" /\ lst' = marker[p] /\ mark' = firstFree[marker[p]]
      /\ cur' = p /\ tgt' = tgt /\ left' = left /\ val' = val
  BY DEF FreeBegin
<1>b. /\ firstFree' = [firstFree EXCEPT ![marker[p]] = p]
      /\ held' = held \ {p}
      /\ UNCHANGED <<fileEnd, marker, nxt, data, owner, rank>>
  BY DEF FreeBegin
<1>c. /\ \A k \in Lists : Top(k) = firstFree[k]
      /\ Structures = held
      /\ \A q \in held : FirstOf(q) = q
      /\ Open = Lists /\ Open' = Lists /\ Allocated' = Allocated
      /\ tgt = 0
      /\ \A c : Free(c)' = Free(c) /\ Used(c)' = Used(c)
  BY <1>a, <1>b DEF IInv, FreeCall, Top, Structures, FirstOf, Open, Allocated, Free, Used
<1>d. p \in Allocated /\ owner[p] = p /\ Used(p) /\ p # 0
  BY <1>a, <1>c, HeldIsUsed, ChunkFacts
<1>e. marker[p] \in Lists /\ p \in Ptr
  BY <1>c, <1>d, TypeFacts DEF IInv, Pages, Chunks, Ptr
<1>f. firstFree'[marker[p]] = p
  BY <1>b, <1>e, TypeFacts
<1>g. /\ mark' \in Allocated /\ marker[mark'] = marker[p] /\ Free(mark')
  BY <1>a, <1>c, <1>e DEF IInv, FreeTops
<1>h. \A k \in Lists : Top(k)' = firstFree[k]
  BY <1>a, <1>b, <1>c, TypeFacts DEF Top
<1>i. /\ Structures' = held
      /\ \A q \in held : FirstOf(q)' = q
  BY <1>a, <1>b, <1>d, <1>f DEF Structures, FirstOf
<1>1. TypeOK'
  <2>1. firstFree' \in [Lists -> Ptr] /\ firstFree[marker[p]] \in Ptr /\ held' \subseteq Chunks
    BY <1>b, <1>e, TypeFacts
  <2> QED
    BY <1>a, <1>b, <1>e, <2>1 DEF IInv, TypeOK
<1>2. Pages' /\ FreeTops'
  BY <1>b, <1>c, <1>h DEF IInv, Pages, FreeTops
<1>3. FreeLinks' /\ FreeRanks'
  <2>1. \A c \in Allocated : Free(c) => c # tgt
    BY <1>c, ChunkFacts
  <2> QED
    BY <1>a, <1>b, <1>c, <1>h, <2>1 DEF IInv, Pages, FreeLinks, FreeLink, FreeRanks
<1>4. UsedTops' /\ UsedRanks'
  BY <1>b, <1>c, <1>i DEF IInv, UsedTops, UsedRanks
<1>5. UsedLinks'
  BY <1>a, <1>b, <1>c, <1>i DEF IInv, UsedLinks, UsedLink
<1>6. FreeCall'
  BY <1>a, <1>b, <1>c, <1>d, <1>f, <1>g DEF FreeCall
<1>7. InitCall' /\ RewriteCall' /\ WriteCall'
  BY <1>a DEF IInv, InitCall, RewriteCall, WriteCall
<1> QED
  BY <1>1, <1>2, <1>3, <1>4, <1>5, <1>6, <1>7 DEF IInv

-----------------------------------------------------------------------------
(* RewriteBytesBatch.                                                      *)

LEMMA RewriteNextInv ==
  ASSUME IInv, RewriteNext
  PROVE  IInv'
<1>a. /\ pc = "rewrite" /\ left > 1 /\ pc' = "rewrite"
      /\ data' = [data EXCEPT ![cur] = <<val, left>>]
      /\ cur' = nxt[cur] /\ left' = left - 1
  BY DEF RewriteNext
<1>b. UNCHANGED <<fileEnd, marker, nxt, firstFree, lst, tgt, mark, val, held, owner, rank>>
  BY DEF RewriteNext, ghosts
<1>c. /\ \A k \in Lists : Top(k) = firstFree[k] /\ Top(k)' = firstFree[k]
      /\ Structures = held /\ Structures' = held
      /\ \A q \in held : FirstOf(q) = q /\ FirstOf(q)' = q
      /\ Open = Lists /\ Open' = Lists /\ Allocated' = Allocated
      /\ \A c : Free(c)' = Free(c) /\ Used(c)' = Used(c)
  BY <1>a, <1>b DEF Top, Structures, FirstOf, Open, Allocated, Free, Used
<1>d. /\ val \in Values /\ mark \in held
      /\ cur \in Allocated /\ owner[cur] = mark /\ rank[cur] = left
  BY <1>a DEF IInv, RewriteCall
<1>e. Used(cur) /\ UsedLink(cur)
  BY <1>d, TypeFacts DEF IInv, UsedLinks, Used, Chunks
<1>f. left \in 0 .. MaxLen /\ left - 1 \in 0 .. MaxLen
  BY <1>a, TypeFacts DEF IInv, TypeOK
<1>g. /\ nxt[cur] \in Allocated /\ owner[nxt[cur]] = mark /\ rank[nxt[cur]] = left - 1
  BY <1>a, <1>d, <1>e, <1>f DEF UsedLink
<1>1. TypeOK'
  <2>1. data' \in [Chunks -> (Values \cup {NoVal}) \X (0 .. MaxLen)]
    BY <1>a, <1>d, <1>f DEF IInv, TypeOK
  <2>2. nxt[cur] \in Ptr
    BY <1>g, TypeFacts, ChunkFacts DEF Ptr, Chunks
  <2> QED
    BY <1>a, <1>b, <1>f, <2>1, <2>2 DEF IInv, TypeOK
<1>2. Pages' /\ FreeTops'
  BY <1>b, <1>c DEF IInv, Pages, FreeTops
<1>3. FreeLinks' /\ FreeRanks'
  BY <1>a, <1>b, <1>c DEF IInv, Pages, FreeLinks, FreeLink, FreeRanks
<1>4. UsedTops' /\ UsedRanks'
  BY <1>b, <1>c DEF IInv, UsedTops, UsedRanks
<1>5. UsedLinks'
  BY <1>a, <1>b, <1>c DEF IInv, UsedLinks, UsedLink
<1>6. RewriteCall'
  BY <1>a, <1>b, <1>c, <1>d, <1>f, <1>g DEF RewriteCall
<1>7. InitCall' /\ WriteCall' /\ FreeCall'
  BY <1>a, <1>b DEF IInv, InitCall, WriteCall, FreeCall
<1> QED
  BY <1>1, <1>2, <1>3, <1>4, <1>5, <1>6, <1>7 DEF IInv

LEMMA RewriteLastInv ==
  ASSUME IInv, RewriteLast
  PROVE  IInv'
<1>a. /\ pc = "rewrite" /\ left = 1
      /\ data' = [data EXCEPT ![cur] = <<val, 1>>]
      /\ nxt' = [nxt EXCEPT ![cur] = 0]
      /\ pc' = "idle" /\ lst' = 1 /\ cur' = 0 /\ tgt' = 0 /\ left' = 0 /\ mark' = 0
      /\ val' = NoVal
  BY DEF RewriteLast, Return
<1>b. UNCHANGED <<fileEnd, marker, firstFree, held, owner, rank>>
  BY DEF RewriteLast, ghosts
<1>c. /\ \A k \in Lists : Top(k) = firstFree[k] /\ Top(k)' = firstFree[k]
      /\ Structures = held /\ Structures' = held
      /\ \A q \in held : FirstOf(q) = q /\ FirstOf(q)' = q
      /\ Open = Lists /\ Open' = Lists /\ Allocated' = Allocated
      /\ \A c : Free(c)' = Free(c) /\ Used(c)' = Used(c)
  BY <1>a, <1>b DEF Top, Structures, FirstOf, Open, Allocated, Free, Used
<1>d. /\ val \in Values /\ mark \in held
      /\ cur \in Allocated /\ owner[cur] = mark /\ rank[cur] = 1
  BY <1>a DEF IInv, RewriteCall
<1>e. Used(cur) /\ UsedLink(cur)
  BY <1>d, TypeFacts DEF IInv, UsedLinks, Used, Chunks
<1>f. nxt[cur] = 0
  <2> SUFFICES ASSUME nxt[cur] # 0 PROVE FALSE
    OBVIOUS
  <2>1. nxt[cur] \in Allocated /\ owner[nxt[cur]] = owner[cur] /\ rank[nxt[cur]] = rank[cur] - 1
    BY <1>a, <1>e DEF UsedLink
  <2>2. Used(nxt[cur])
    BY <1>e, <2>1 DEF Used
  <2>3. 1 <= rank[nxt[cur]]
    BY <2>1, <2>2 DEF IInv, UsedLinks, UsedLink
  <2> QED
    BY <1>d, <2>1, <2>3
<1>g. nxt' = nxt
  BY <1>a, <1>d, <1>f, TypeFacts, ChunkFacts
<1>1. TypeOK'
  <2>1. data' \in [Chunks -> (Values \cup {NoVal}) \X (0 .. MaxLen)]
    <3>1. 1 \in 0 .. MaxLen
      BY TypeFacts
    <3> QED
      BY <1>a, <1>d, <3>1 DEF IInv, TypeOK
  <2> QED
    BY <1>a, <1>b, <1>g, <2>1, Defaults DEF IInv, TypeOK
<1>2. Pages' /\ FreeTops'
  BY <1>b, <1>c DEF IInv, Pages, FreeTops
<1>3. FreeLinks' /\ FreeRanks'
  BY <1>a, <1>b, <1>c, <1>g DEF IInv, Pages, FreeLinks, FreeLink, FreeRanks
<1>4. UsedTops' /\ UsedRanks'
  BY <1>b, <1>c DEF IInv, UsedTops, UsedRanks
<1>5. UsedLinks'
  BY <1>a, <1>b, <1>c, <1>g DEF IInv, UsedLinks, UsedLink
<1>6. InitCall' /\ WriteCall' /\ FreeCall' /\ RewriteCall'
  BY <1>a, <1>b DEF InitCall, WriteCall, FreeCall, RewriteCall
<1> QED
  BY <1>1, <1>2, <1>3, <1>4, <1>5, <1>6 DEF IInv

-----------------------------------------------------------------------------
(* FreeBytesBatch.                                                         *)

LEMMA FreeLastInv ==
  ASSUME IInv, FreeLast
  PROVE  IInv'
<1>a. /\ pc = "free" /\ cur = 0
      /\ nxt' = [nxt EXCEPT ![tgt] = -mark]
      /\ pc' = "idle" /\ lst' = 1 /\ cur' = 0 /\ tgt' = 0 /\ left' = 0 /\ mark' = 0
      /\ val' = NoVal
  BY DEF FreeLast, Return
<1>b. UNCHANGED <<fileEnd, marker, data, firstFree, held, owner, rank>>
  BY DEF FreeLast, ghosts
<1>c. /\ firstFree[lst] \in Allocated /\ firstFree[lst] \notin held
      /\ mark \in Allocated /\ Free(mark) /\ marker[mark] = lst
  BY <1>a DEF IInv, FreeCall
<1>d. tgt # 0
  BY <1>a, <1>c, ChunkFacts DEF IInv, FreeCall
<1>e. /\ tgt \in Allocated /\ Free(tgt) /\ marker[tgt] = lst
      /\ rank[tgt] = rank[mark] + 1
  BY <1>a, <1>c, <1>d, ChunkFacts DEF IInv, FreeCall
<1>f. /\ \A k \in Lists : Top(k) = firstFree[k] /\ Top(k)' = firstFree[k]
      /\ Structures = held /\ Structures' = held
      /\ \A q \in held : FirstOf(q) = q /\ FirstOf(q)' = q
      /\ Open = Lists /\ Open' = Lists /\ Allocated' = Allocated
      /\ \A c : Free(c)' = Free(c) /\ Used(c)' = Used(c)
  BY <1>a, <1>b, <1>c, <1>d DEF Top, Structures, FirstOf, Open, Allocated, Free, Used
<1>g. \A c \in Allocated : nxt'[c] = IF c = tgt THEN -mark ELSE nxt[c]
  BY <1>a, TypeFacts, ChunkFacts
<1>1. TypeOK'
  <2>1. -mark \in Link
    BY <1>c, ChunkFacts, TypeFacts DEF Link, Chunks
  <2>2. nxt' \in [Chunks -> Link]
    BY <1>a, <2>1, TypeFacts
  <2> QED
    BY <1>a, <1>b, <2>2, Defaults DEF IInv, TypeOK
<1>2. Pages' /\ FreeTops'
  BY <1>b, <1>f DEF IInv, Pages, FreeTops
<1>3. FreeLinks'
  <2> SUFFICES ASSUME NEW c \in Allocated, Free(c) PROVE FreeLink(c)'
    BY <1>f DEF FreeLinks
  <2>1. FreeLink(c)
    BY DEF IInv, FreeLinks
  <2>2. CASE c # tgt
    BY <1>a, <1>b, <1>f, <1>g, <2>1, <2>2 DEF IInv, Pages, FreeLink
  <2>3. CASE c = tgt
    <3>1. nxt'[c] = -mark /\ -nxt'[c] = mark /\ nxt'[c] # 0 /\ nxt'[c] <= 0
      BY <1>c, <1>g, <2>3, ChunkFacts
    <3>2. rank[mark] = rank[c] - 1
      BY <1>c, <1>e, <2>3, ChunkFacts
    <3> QED
      BY <1>b, <1>c, <1>e, <1>f, <2>1, <2>3, <3>1, <3>2 DEF IInv, Pages, FreeLink
  <2> QED
    BY <2>2, <2>3
<1>4. UsedTops' /\ UsedRanks' /\ FreeRanks'
  BY <1>b, <1>f DEF IInv, UsedTops, UsedRanks, FreeRanks
<1>5. UsedLinks'
  <2> SUFFICES ASSUME NEW c \in Allocated, Used(c) PROVE UsedLink(c)'
    BY <1>f DEF UsedLinks
  <2>1. UsedLink(c)
    BY DEF IInv, UsedLinks
  <2>2. nxt'[c] = nxt[c]
    BY <1>e, <1>g DEF Free, Used
  <2> QED
    BY <1>a, <1>b, <1>f, <2>1, <2>2 DEF UsedLink
<1>6. InitCall' /\ WriteCall' /\ FreeCall' /\ RewriteCall'
  BY <1>a, <1>b DEF InitCall, WriteCall, FreeCall, RewriteCall
<1> QED
  BY <1>1, <1>2, <1>3, <1>4, <1>5, <1>6 DEF IInv

LEMMA FreeNextInv ==
  ASSUME IInv, FreeNext
  PROVE  IInv'
<1> DEFINE s == firstFree[lst]
<1>a. /\ pc = "free" /\ cur # 0 /\ pc' = "free"
      /\ nxt' = [nxt EXCEPT ![cur] = -nxt[cur]]
      /\ data' = [data EXCEPT ![cur] = Zero]
      /\ tgt' = cur /\ cur' = nxt[cur]
      /\ owner' = [owner EXCEPT ![cur] = 0]
      /\ rank' = [rank EXCEPT ![cur] = rank[cur] + rank[mark]]
  BY DEF FreeNext
<1>b. UNCHANGED <<fileEnd, marker, firstFree, lst, left, mark, val, held>>
  BY DEF FreeNext
\* Before the step.
<1>c. /\ s \in Allocated /\ marker[s] = lst /\ s \notin held
      /\ mark \in Allocated /\ Free(mark) /\ marker[mark] = lst
      /\ tgt = 0 => cur = s
      /\ tgt # 0 => /\ tgt \in Allocated /\ Free(tgt) /\ marker[tgt] = lst
                    /\ nxt[tgt] = -cur
                    /\ rank[tgt] = rank[mark] + 1 + rank[cur]
                    /\ \A c \in Allocated :
                         Free(c) /\ marker[c] = lst => rank[c] <= rank[mark] \/ rank[tgt] <= rank[c]
  BY <1>a DEF IInv, FreeCall
<1>d. Structures = held \cup {s} /\ FirstOf(s) = cur /\ \A q \in held : FirstOf(q) = q
  BY <1>a, <1>c DEF Structures, FirstOf
<1>e. cur \in Allocated /\ owner[cur] = s /\ Used(cur)
  BY <1>c, <1>d, ChunkFacts DEF IInv, UsedTops, Used
<1>f. UsedLink(cur)
  BY <1>e DEF IInv, UsedLinks
<1>g. /\ marker[cur] = lst /\ 1 <= rank[cur] /\ 0 <= nxt[cur]
      /\ nxt[cur] = 0 => rank[cur] = 1
      /\ nxt[cur] # 0 => nxt[cur] \in Allocated /\ owner[nxt[cur]] = s /\ rank[nxt[cur]] = rank[cur] - 1
  BY <1>a, <1>c, <1>e, <1>f DEF UsedLink
<1>h. /\ \A k \in Lists : Top(k) = IF k = lst /\ tgt = 0 THEN mark ELSE firstFree[k]
      /\ \A k \in Lists : Top(k)' = firstFree[k]
      /\ Open = Lists /\ Open' = Lists /\ Allocated' = Allocated
  BY <1>a, <1>b, <1>e, ChunkFacts DEF Top, Open, Allocated
\* The chunks after the step.
<1>i. \A c \in Allocated : /\ nxt'[c] = IF c = cur THEN -nxt[c] ELSE nxt[c]
                           /\ owner'[c] = IF c = cur THEN 0 ELSE owner[c]
                           /\ rank'[c] = IF c = cur THEN rank[c] + rank[mark] ELSE rank[c]
  BY <1>a, TypeFacts, ChunkFacts
<1>j. \A c \in Allocated : /\ Free(c)' <=> Free(c) \/ c = cur
                           /\ Used(c)' <=> Used(c) /\ c # cur
  BY <1>e, <1>i DEF Free, Used
<1>k. \A c \in Allocated : Free(c) /\ marker[c] = lst =>
        /\ rank[c] # rank[cur] + rank[mark]
        /\ tgt = 0 => rank[c] <= rank[mark]
        /\ tgt # 0 => rank[c] <= rank[s] /\ (rank[c] <= rank[mark] \/ rank[tgt] <= rank[c])
  <2> SUFFICES ASSUME NEW c \in Allocated, Free(c), marker[c] = lst
               PROVE /\ rank[c] # rank[cur] + rank[mark]
                     /\ tgt = 0 => rank[c] <= rank[mark]
                     /\ tgt # 0 => rank[c] <= rank[s] /\ (rank[c] <= rank[mark] \/ rank[tgt] <= rank[c])
    OBVIOUS
  <2>1. rank[c] <= rank[IF tgt = 0 THEN mark ELSE s]
    BY <1>h, TypeFacts DEF IInv, FreeLinks, FreeLink
  <2>2. rank[c] \in Nat /\ rank[mark] \in Nat /\ rank[cur] \in Nat
    BY <1>c, <1>e, ChunkFacts
  <2> QED
    BY <1>c, <1>g, <2>1, <2>2
<1>l. rank'[s] >= rank[cur] + rank[mark] /\ owner'[s] = 0
  <2>1. CASE tgt = 0
    BY <1>c, <1>i, <2>1, ChunkFacts
  <2>2. CASE tgt # 0
    <3>1. Free(s) /\ s # cur
      BY <1>e, <1>h, <2>2, TypeFacts DEF IInv, FreeTops, Free, Used
    <3>2. rank[tgt] <= rank[s] /\ rank'[s] = rank[s] /\ owner'[s] = owner[s]
      BY <1>c, <1>i, <1>k, <2>2, <3>1
    <3> QED
      BY <1>c, <1>e, <2>2, <3>1, <3>2, ChunkFacts DEF Free
  <2> QED
    BY <2>1, <2>2
<1>1. TypeOK'
  <2>1. -nxt[cur] \in Link /\ nxt[cur] \in Ptr /\ cur \in Chunks /\ cur \in Ptr
    BY <1>e, <1>g, ChunkFacts, TypeFacts DEF Link, Ptr, Chunks
  <2>2. nxt' \in [Chunks -> Link] /\ owner' \in [Chunks -> Ptr]
    BY <1>a, <2>1, TypeFacts, Defaults
  <2>3. rank' \in [Chunks -> Nat]
    <3>1. rank[cur] + rank[mark] \in Nat
      BY <1>c, <1>e, ChunkFacts
    <3> QED
      BY <1>a, <3>1, TypeFacts
  <2>4. data' \in [Chunks -> (Values \cup {NoVal}) \X (0 .. MaxLen)]
    BY <1>a, Defaults DEF IInv, TypeOK, Zero
  <2> QED
    BY <1>a, <1>b, <2>1, <2>2, <2>3, <2>4 DEF IInv, TypeOK
<1>2. Pages'
  <2>1. \A c \in Chunks : owner[c] = 0 => owner'[c] = 0
    BY <1>a, TypeFacts
  <2> QED
    BY <1>b, <1>h, <2>1 DEF IInv, Pages, Free
<1>3. FreeTops'
  <2> SUFFICES ASSUME NEW k \in Lists
               PROVE firstFree[k] \in Allocated /\ marker[firstFree[k]] = k /\ owner'[firstFree[k]] = 0
    BY <1>b, <1>h DEF FreeTops, Free
  <2>1. CASE k = lst
    BY <1>c, <1>l, <2>1
  <2>2. CASE k # lst
    <3>1. firstFree[k] \in Allocated /\ marker[firstFree[k]] = k /\ owner[firstFree[k]] = 0
      BY <1>h, <2>2 DEF IInv, FreeTops, Free
    <3> QED
      BY <1>i, <3>1
  <2> QED
    BY <2>1, <2>2
<1>4. FreeLinks'
  <2> SUFFICES ASSUME NEW c \in Allocated, Free(c) \/ c = cur PROVE FreeLink(c)'
    BY <1>h, <1>j DEF FreeLinks
  <2>1. marker[c] \in Lists
    BY <1>h DEF IInv, Pages
  <2>2. CASE c = cur
    <3>1. nxt'[c] <= 0 /\ 1 <= rank'[c] /\ rank'[c] <= rank'[s]
      BY <1>c, <1>e, <1>g, <1>i, <1>l, <2>2, ChunkFacts
    <3> QED
      BY <1>a, <1>b, <1>g, <1>h, <2>2, <3>1, TypeFacts DEF FreeLink
  <2>3. CASE c # cur
    <3>1. Free(c) /\ nxt'[c] = nxt[c] /\ rank'[c] = rank[c]
      BY <1>i, <2>3
    <3>2. FreeLink(c)
      BY <3>1 DEF IInv, FreeLinks
    <3>3. 1 <= rank[c] /\ nxt[c] <= 0
      BY <3>2 DEF FreeLink
    <3>4. rank[c] <= rank'[firstFree[marker[c]]]
      <4>1. CASE marker[c] = lst
        <5>1. CASE tgt = 0
          BY <1>c, <1>e, <1>k, <1>l, <3>1, <4>1, <5>1, <1>i, ChunkFacts
        <5>2. CASE tgt # 0
          <6>1. s # cur
            BY <1>e, <1>h, <5>2, TypeFacts DEF IInv, FreeTops, Free, Used
          <6> QED
            BY <1>c, <1>i, <1>k, <3>1, <4>1, <5>2, <6>1
        <5> QED
          BY <5>1, <5>2
      <4>2. CASE marker[c] # lst
        <5>1. firstFree[marker[c]] \in Allocated /\ Free(firstFree[marker[c]])
          BY <1>h, <2>1, <4>2 DEF IInv, FreeTops
        <5> QED
          BY <1>e, <1>h, <1>i, <2>1, <3>2, <4>2, <5>1 DEF FreeLink, Free, Used
      <4> QED
        BY <4>1, <4>2
    <3>5. /\ nxt[c] = 0 => rank[c] = 1
          /\ nxt[c] # 0 => /\ -nxt[c] \in Allocated
                           /\ owner'[-nxt[c]] = 0
                           /\ marker[-nxt[c]] = marker[c]
                           /\ rank'[-nxt[c]] = rank[c] - 1
      <4>1. CASE c = tgt
        <5>1. -nxt[c] = cur /\ nxt[c] # 0
          BY <1>c, <1>e, <4>1, ChunkFacts
        <5>2. rank[tgt] = rank[mark] + 1 + rank[cur] /\ marker[c] = lst /\ tgt # 0
          BY <1>c, <4>1, ChunkFacts
        <5> QED
          BY <1>c, <1>e, <1>g, <1>i, <4>1, <5>1, <5>2, ChunkFacts
      <4>2. CASE c # tgt
        BY <1>e, <1>i, <3>2, <4>2 DEF FreeLink, Free, Used
      <4> QED
        BY <4>1, <4>2
    <3> QED
      BY <1>b, <1>h, <2>1, <3>1, <3>3, <3>4, <3>5 DEF FreeLink, Free
  <2> QED
    BY <2>2, <2>3
<1>5. FreeRanks'
  BY <1>b, <1>g, <1>h, <1>i, <1>j, <1>k DEF IInv, FreeRanks
<1>6. /\ Structures' = held \cup {q \in {s} : nxt[cur] # 0}
      /\ s' = s /\ \A q : q = s => FirstOf(q)' = nxt[cur]
      /\ \A q \in held : FirstOf(q)' = q
  BY <1>a, <1>b, <1>c DEF Structures, FirstOf
<1>7. UsedTops'
  <2> SUFFICES ASSUME NEW q \in Structures'
               PROVE FirstOf(q)' \in Allocated /\ owner'[FirstOf(q)'] = q
    BY <1>h DEF UsedTops
  <2>1. CASE q \in held
    <3>1. q \in Allocated /\ owner[q] = q
      BY <1>d, <2>1 DEF IInv, UsedTops
    <3>2. q # cur
      BY <1>c, <1>e, <2>1, <3>1
    <3> QED
      BY <1>i, <1>6, <2>1, <3>1, <3>2
  <2>2. CASE q = s /\ nxt[cur] # 0
    <3>1. nxt[cur] # cur
      BY <1>e, <1>g, <2>2, ChunkFacts
    <3> QED
      BY <1>g, <1>i, <1>6, <2>2, <3>1
  <2> QED
    BY <1>6, <2>1, <2>2
<1>8. UsedLinks'
  <2> SUFFICES ASSUME NEW c \in Allocated, Used(c), c # cur PROVE UsedLink(c)'
    BY <1>h, <1>j DEF UsedLinks
  <2>1. UsedLink(c) /\ nxt'[c] = nxt[c] /\ owner'[c] = owner[c] /\ rank'[c] = rank[c]
    BY <1>i DEF IInv, UsedLinks
  <2>2. CASE owner[c] = s
    <3>1. rank[c] < rank[cur]
      <4>1. rank[c] <= rank[cur]
        BY <1>d, <2>1, <2>2 DEF UsedLink
      <4>2. rank[c] # rank[cur]
        BY <1>e, <2>2 DEF IInv, UsedRanks
      <4> QED
        BY <1>e, <4>1, <4>2, ChunkFacts
    <3>2. 1 <= rank[c]
      BY <2>1 DEF UsedLink
    <3>3. nxt[cur] # 0 /\ rank[c] <= rank[nxt[cur]] /\ nxt[cur] # cur
      BY <1>e, <1>g, <3>1, <3>2, ChunkFacts
    <3>4. s \in Structures' /\ rank'[FirstOf(s)'] = rank[nxt[cur]]
      BY <1>g, <1>i, <1>6, <3>3
    <3>5. nxt[c] # 0 => nxt[c] # cur
      BY <1>a, <1>e, <2>1, <3>1, ChunkFacts DEF UsedLink
    <3> QED
      BY <1>a, <1>b, <1>h, <1>i, <2>1, <2>2, <3>3, <3>4, <3>5 DEF UsedLink
  <2>3. CASE owner[c] # s
    <3>1. owner[c] \in held /\ owner[c] # cur
      BY <1>c, <1>d, <1>e, <2>1, <2>3 DEF UsedLink, IInv, UsedTops
    <3>2. owner[c] \in Allocated
      BY <1>d, <3>1 DEF IInv, UsedTops
    <3>3. owner[c] \in Structures' /\ FirstOf(owner[c]) = owner[c] /\ FirstOf(owner[c])' = owner[c]
      BY <1>d, <1>6, <2>1, <3>1
    <3>4. nxt[c] # 0 => nxt[c] # cur
      BY <1>a, <1>e, <2>1, <2>3 DEF UsedLink
    <3> QED
      BY <1>a, <1>b, <1>h, <1>i, <2>1, <3>1, <3>2, <3>3, <3>4 DEF UsedLink
  <2> QED
    BY <2>2, <2>3
<1>9. UsedRanks'
  <2> SUFFICES ASSUME NEW a \in Allocated, NEW b \in Allocated, Used(a)', Used(b)',
                      owner'[a] = owner'[b], rank'[a] = rank'[b]
               PROVE  a = b
    BY <1>h DEF UsedRanks, Used
  <2>1. Used(a) /\ a # cur /\ Used(b) /\ b # cur
    BY <1>j
  <2>2. owner[a] = owner[b] /\ rank[a] = rank[b]
    BY <1>i, <2>1
  <2> QED
    BY <2>1, <2>2 DEF IInv, UsedRanks
<1>10. FreeCall'
  <2>1. mark # cur
    BY <1>c, <1>e DEF Free, Used
  <2>2. rank'[cur] = rank[mark] + 1 + (IF nxt[cur] = 0 THEN 0 ELSE rank'[nxt[cur]])
    <3>1. CASE nxt[cur] = 0
      BY <1>c, <1>e, <1>g, <1>i, <3>1, ChunkFacts
    <3>2. CASE nxt[cur] # 0
      <4>1. nxt[cur] # cur
        BY <1>e, <1>g, <3>2, ChunkFacts
      <4> QED
        BY <1>c, <1>e, <1>g, <1>i, <3>2, <4>1, ChunkFacts
    <3> QED
      BY <3>1, <3>2
  <2>3. \A c \in Allocated :
          Free(c)' /\ marker[c] = lst => rank'[c] <= rank[mark] \/ rank'[cur] <= rank'[c]
    <3> SUFFICES ASSUME NEW c \in Allocated, Free(c) \/ c = cur, marker[c] = lst
                 PROVE rank'[c] <= rank[mark] \/ rank'[cur] <= rank'[c]
      BY <1>j
    <3>1. CASE c = cur
      BY <1>c, <1>e, <1>i, <3>1, ChunkFacts
    <3>2. CASE c # cur
      <4>1. Free(c) /\ rank'[c] = rank[c] /\ rank'[cur] = rank[cur] + rank[mark]
        BY <1>e, <1>i, <3>2
      <4>2. tgt # 0 => rank[tgt] = rank[mark] + 1 + rank[cur] /\ rank[tgt] \in Nat
        BY <1>c, ChunkFacts
      <4>3. rank[c] \in Nat /\ rank[cur] \in Nat /\ rank[mark] \in Nat
        BY <1>c, <1>e, ChunkFacts
      <4> QED
        BY <1>k, <4>1, <4>2, <4>3
    <3> QED
      BY <3>1, <3>2
  <2>4. /\ rank'[mark] = rank[mark] /\ owner'[mark] = 0 /\ owner'[cur] = 0 /\ nxt'[cur] = -nxt[cur]
    BY <1>c, <1>e, <1>i, <2>1 DEF Free
  <2> QED
    BY <1>a, <1>b, <1>c, <1>e, <1>g, <1>h, <2>2, <2>3, <2>4 DEF FreeCall, Free
<1>11. InitCall' /\ WriteCall' /\ RewriteCall'
  BY <1>a DEF InitCall, WriteCall, RewriteCall
<1> QED
  BY <1>1, <1>2, <1>3, <1>4, <1>5, <1>7, <1>8, <1>9, <1>10, <1>11 DEF IInv

-----------------------------------------------------------------------------
(* WriteBytesBatch.                                                        *)

\* What the state says before an iteration of WriteBytesBatch.
LEMMA WriteState ==
  ASSUME IInv, pc = "write"
  PROVE  /\ val \in Values /\ left \in Nat /\ 1 <= left /\ left <= MaxLen
         /\ mark \in Allocated /\ marker[mark] = lst /\ mark \notin held
         /\ cur \in Allocated /\ marker[cur] = lst /\ Free(cur) /\ FreeLink(cur)
         /\ Free(mark) <=> mark = cur
         /\ \A c \in Allocated : owner[c] = mark => left < rank[c]
         /\ left < rank[cur] \/ fileEnd + left * ChunksPerPage <= MaxFile
         /\ \A k \in Lists : Top(k) = IF k = lst THEN cur ELSE firstFree[k]
         /\ Open = Lists
         /\ Structures = held \cup {p \in {mark} : p # cur}
         /\ \A p : FirstOf(p) = p
<1>1. /\ val \in Values /\ 1 <= left
      /\ mark \in Allocated /\ marker[mark] = lst /\ mark \notin held
      /\ Free(mark) <=> mark = cur
      /\ \A c \in Allocated : owner[c] = mark => left < rank[c]
      /\ left < rank[cur] \/ fileEnd + left * ChunksPerPage <= MaxFile
  BY DEF IInv, WriteCall
<1>2. left \in 0 .. MaxLen
  BY DEF IInv, TypeOK
<1>3. /\ \A k \in Lists : Top(k) = IF k = lst THEN cur ELSE firstFree[k]
      /\ Open = Lists
      /\ Structures = held \cup {p \in {mark} : p # cur}
      /\ \A p : FirstOf(p) = p
  BY DEF Top, Open, Structures, FirstOf
<1>4. cur \in Allocated /\ marker[cur] = lst /\ Free(cur)
  BY <1>3, TypeFacts DEF IInv, FreeTops
<1>5. FreeLink(cur)
  BY <1>4 DEF IInv, FreeLinks
<1> QED
  BY <1>1, <1>2, <1>3, <1>4, <1>5, TypeFacts

\* Claiming cur, whatever it is then linked to, keeps the structures in order:
\* the chunk written before leads to it, and no other chunk does.
LEMMA ClaimOthers ==
  ASSUME IInv, pc = "write", NEW c \in Allocated, Used(c)
  PROVE  /\ c # cur /\ owner[c] # cur /\ UsedLink(c)
         /\ owner[c] \in Allocated /\ Used(owner[c])
         /\ owner[c] = mark => left < rank[c]
         /\ owner[c] = mark /\ rank[c] = left + 1 => nxt[c] = cur
         /\ ~(owner[c] = mark /\ rank[c] = left + 1) /\ nxt[c] # 0 =>
              /\ nxt[c] \in Allocated /\ nxt[c] # cur
              /\ owner[nxt[c]] = owner[c] /\ rank[nxt[c]] = rank[c] - 1
         /\ ~(owner[c] = mark /\ rank[c] = left + 1) /\ nxt[c] = 0 => rank[c] = 1
<1>1. c # cur
  BY WriteState DEF Free, Used
<1>2. UsedLink(c)
  BY DEF IInv, UsedLinks
<1>3. owner[c] \in Structures
  BY <1>2 DEF UsedLink
<1>4. owner[c] \in Allocated /\ Used(owner[c])
  BY <1>3, WriteState, HeldIsUsed
<1>5. owner[c] # cur
  BY <1>4, WriteState DEF Free, Used
<1>6. owner[c] = mark => left < rank[c]
  BY WriteState
<1>7. /\ owner[c] = mark /\ rank[c] = left + 1 => nxt[c] = cur
      /\ ~(owner[c] = mark /\ rank[c] = left + 1) /\ nxt[c] # 0 =>
           /\ nxt[c] \in Allocated
           /\ owner[nxt[c]] = owner[c] /\ rank[nxt[c]] = rank[c] - 1
      /\ ~(owner[c] = mark /\ rank[c] = left + 1) /\ nxt[c] = 0 => rank[c] = 1
  BY <1>2 DEF UsedLink
<1>8. owner[cur] # owner[c]
  BY WriteState DEF Free, Used
<1> QED
  BY <1>1, <1>2, <1>4, <1>5, <1>6, <1>7, <1>8

LEMMA WriteNextInv ==
  ASSUME IInv, WriteNext
  PROVE  IInv'
<1> DEFINE h == -nxt[cur]
<1>a. /\ pc = "write" /\ left > 1 /\ nxt[cur] # 0 /\ pc' = "write"
      /\ data' = [data EXCEPT ![cur] = <<val, left>>]
      /\ owner' = [owner EXCEPT ![cur] = mark]
      /\ nxt' = [nxt EXCEPT ![cur] = h]
      /\ rank' = [rank EXCEPT ![cur] = left]
      /\ cur' = h /\ left' = left - 1
  BY DEF WriteNext, Claim
<1>b. UNCHANGED <<fileEnd, marker, firstFree, lst, tgt, mark, val, held>>
  BY DEF WriteNext
<1>c. /\ h \in Allocated /\ Free(h) /\ marker[h] = lst /\ rank[h] = rank[cur] - 1
      /\ h # cur /\ h \in Nat
  <2>1. h \in Allocated /\ Free(h) /\ marker[h] = marker[cur] /\ rank[h] = rank[cur] - 1
    BY <1>a, WriteState DEF FreeLink
  <2> QED
    BY <1>a, <2>1, WriteState, ChunkFacts
<1>d. \A c \in Allocated : /\ nxt'[c] = IF c = cur THEN h ELSE nxt[c]
                           /\ owner'[c] = IF c = cur THEN mark ELSE owner[c]
                           /\ rank'[c] = IF c = cur THEN left ELSE rank[c]
  BY <1>a, TypeFacts, ChunkFacts
<1>e. \A c \in Allocated : /\ Free(c)' <=> Free(c) /\ c # cur
                           /\ Used(c)' <=> Used(c) \/ c = cur
  BY <1>a, <1>d, WriteState, ChunkFacts DEF Free, Used
<1>f. /\ \A k \in Lists : Top(k)' = IF k = lst THEN h ELSE firstFree[k]
      /\ Open' = Lists /\ Allocated' = Allocated
      /\ \A p : FirstOf(p)' = p
  BY <1>a, <1>b DEF Top, Open, Allocated, FirstOf
<1>g. mark # h /\ Structures' = held \cup {mark}
  <2>1. mark # h
    BY <1>a, <1>c, WriteState
  <2> QED
    BY <1>a, <1>b, <2>1 DEF Structures
<1>1. TypeOK'
  <2>1. h \in Link /\ h \in Ptr /\ mark \in Ptr
    BY <1>a, <1>c, WriteState, ChunkFacts
  <2>4. left - 1 \in 0 .. MaxLen /\ left \in 0 .. MaxLen /\ left \in Nat
    BY <1>a, WriteState, TypeFacts
  <2>2. nxt' \in [Chunks -> Link] /\ owner' \in [Chunks -> Ptr] /\ rank' \in [Chunks -> Nat]
    BY <1>a, <2>1, <2>4, TypeFacts
  <2>3. data' \in [Chunks -> (Values \cup {NoVal}) \X (0 .. MaxLen)]
    BY <1>a, <2>4, WriteState DEF IInv, TypeOK
  <2> QED
    BY <1>a, <1>b, <2>1, <2>2, <2>3, <2>4 DEF IInv, TypeOK
<1>2. Pages'
  <2>1. \A c \in Chunks \ Allocated : owner'[c] = owner[c]
    BY <1>a, WriteState, TypeFacts
  <2> QED
    BY <1>b, <1>f, <2>1, WriteState, <1>a DEF IInv, Pages, Free
<1>3. FreeTops'
  <2> SUFFICES ASSUME NEW k \in Lists
               PROVE /\ Top(k)' \in Allocated
                     /\ marker[Top(k)'] = k
                     /\ owner'[Top(k)'] = 0
    BY <1>b, <1>f DEF FreeTops, Free
  <2>1. CASE k = lst
    BY <1>c, <1>d, <1>f, <2>1 DEF Free
  <2>2. CASE k # lst
    <3>1. firstFree[k] \in Allocated /\ marker[firstFree[k]] = k /\ owner[firstFree[k]] = 0
      BY <1>a, <2>2, WriteState DEF IInv, FreeTops, Free
    <3> QED
      BY <1>a, <1>d, <1>f, <2>2, <3>1, WriteState
  <2> QED
    BY <2>1, <2>2
<1>4. FreeLinks'
  <2> SUFFICES ASSUME NEW c \in Allocated, Free(c), c # cur PROVE FreeLink(c)'
    BY <1>e, <1>f DEF FreeLinks
  <2>1. FreeLink(c) /\ nxt'[c] = nxt[c] /\ rank'[c] = rank[c] /\ marker[c] \in Lists
    BY <1>a, <1>d, WriteState DEF IInv, FreeLinks, Pages
  <2>2. marker[c] = lst => rank[c] < rank[cur]
    <3>1. marker[c] = lst => rank[c] <= rank[cur]
      BY <1>a, <2>1, WriteState DEF FreeLink
    <3>2. marker[c] = lst => rank[c] # rank[cur]
      BY <1>a, WriteState DEF IInv, FreeRanks
    <3> QED
      BY <1>a, <3>1, <3>2, WriteState, ChunkFacts
  <2>3. rank[c] <= rank'[Top(marker[c])']
    <3>1. CASE marker[c] = lst
      BY <1>a, <1>b, <1>c, <1>d, <1>f, <2>1, <2>2, <3>1, WriteState, ChunkFacts
    <3>2. CASE marker[c] # lst
      <4>1. firstFree[marker[c]] \in Allocated /\ marker[firstFree[marker[c]]] = marker[c]
        BY <1>a, <2>1, <3>2, WriteState DEF IInv, FreeTops
      <4>2. rank[c] <= rank[firstFree[marker[c]]]
        BY <1>a, <2>1, <3>2, WriteState DEF FreeLink
      <4> QED
        BY <1>a, <1>b, <1>d, <1>f, <2>1, <3>2, <4>1, <4>2, WriteState
    <3> QED
      BY <3>1, <3>2
  <2>4. nxt[c] # 0 => -nxt[c] # cur
    BY <1>a, <2>1, <2>2, WriteState, ChunkFacts DEF FreeLink
  <2> QED
    BY <1>a, <1>b, <1>d, <1>f, <2>1, <2>3, <2>4 DEF FreeLink, Free
<1>5. FreeRanks'
  BY <1>b, <1>d, <1>e, <1>f DEF IInv, FreeRanks
<1>6. UsedTops'
  <2> SUFFICES ASSUME NEW p \in held \cup {mark} PROVE p \in Allocated /\ owner'[p] = p
    BY <1>f, <1>g DEF UsedTops
  <2>1. CASE p = cur
    BY <1>a, <1>d, <2>1, WriteState, HeldIsUsed DEF Free, Used
  <2>2. CASE p # cur
    <3>1. p \in Structures /\ FirstOf(p) = p
      BY <1>a, <2>2, WriteState
    <3> QED
      BY <1>d, <2>2, <3>1, HeldIsUsed
  <2> QED
    BY <2>1, <2>2
<1>7. UsedLinks'
  <2> SUFFICES ASSUME NEW c \in Allocated, Used(c) \/ c = cur PROVE UsedLink(c)'
    BY <1>e, <1>f DEF UsedLinks
  <2>1. CASE c = cur
    <3>1. left <= rank'[mark]
      BY <1>a, <1>d, WriteState, HeldIsUsed, ChunkFacts, <1>6, <1>f, <1>g DEF UsedTops
    <3>2. /\ owner'[c] = mark /\ rank'[c] = left /\ nxt'[c] = h /\ left = left' + 1
      BY <1>a, <1>d, <2>1, WriteState
    <3> QED
      BY <1>a, <1>b, <1>c, <1>f, <1>g, <2>1, <3>1, <3>2, WriteState DEF UsedLink
  <2>2. CASE Used(c)
    <3>1. /\ c # cur /\ owner[c] # cur /\ UsedLink(c) /\ owner[c] \in Allocated
          /\ nxt'[c] = nxt[c] /\ owner'[c] = owner[c] /\ rank'[c] = rank[c]
      BY <1>a, <1>d, <2>2, ClaimOthers
    <3>2. /\ owner[c] \in Structures' /\ marker[c] = marker[owner[c]]
          /\ 1 <= rank[c] /\ rank[c] <= rank'[owner[c]] /\ rank[c] <= MaxLen /\ 0 <= nxt[c]
      BY <1>a, <1>d, <1>g, <3>1, WriteState DEF UsedLink
    <3>3. ~(owner[c] = mark /\ rank[c] = left)
      BY <1>a, <2>2, WriteState, ChunkFacts
    <3>4. /\ nxt[c] = 0 => rank[c] = 1
          /\ nxt[c] # 0 => nxt[c] \in Allocated /\ owner'[nxt[c]] = owner[c] /\ rank'[nxt[c]] = rank[c] - 1
      BY <1>a, <1>d, <2>2, WriteState, ClaimOthers, ChunkFacts
    <3> QED
      BY <1>a, <1>b, <1>f, <3>1, <3>2, <3>3, <3>4, WriteState DEF UsedLink
  <2> QED
    BY <2>1, <2>2
<1>8. UsedRanks'
  <2> SUFFICES ASSUME NEW a \in Allocated, NEW b \in Allocated, Used(a)', Used(b)',
                      owner'[a] = owner'[b], rank'[a] = rank'[b]
               PROVE  a = b
    BY <1>f DEF UsedRanks, Used
  <2>1. \A c \in Allocated : Used(c) => c # cur /\ (owner[c] = mark => rank[c] # left)
    BY <1>a, WriteState, ClaimOthers, ChunkFacts
  <2> QED
    BY <1>d, <1>e, <2>1 DEF IInv, UsedRanks
<1>9. WriteCall'
  <2>1. left' < rank'[cur'] \/ fileEnd' + left' * ChunksPerPage <= MaxFile
    <3>1. CASE left < rank[cur]
      BY <1>a, <1>c, <1>d, <3>1, WriteState, ChunkFacts
    <3>2. CASE fileEnd + left * ChunksPerPage <= MaxFile
      <4>1. (left - 1) * ChunksPerPage = left * ChunksPerPage - ChunksPerPage
        BY <1>a, WriteState, TypeFacts
      <4>2. left * ChunksPerPage \in Nat
        BY <1>a, WriteState, TypeFacts
      <4> QED
        BY <1>a, <1>b, <3>2, <4>1, <4>2, TypeFacts
    <3> QED
      BY <1>a, <3>1, <3>2, WriteState
  <2>2. /\ val' \in Values /\ 1 <= left' /\ mark' \in Allocated' /\ marker'[mark'] = lst' /\ mark' \notin held'
    BY <1>a, <1>b, <1>f, WriteState
  <2>3. owner'[mark] # 0
    BY <1>6, <1>f, <1>g, <1>a, WriteState, ChunkFacts DEF UsedTops
  <2>4. \A c \in Allocated : owner'[c] = mark => left' < rank'[c]
    BY <1>a, <1>d, WriteState, ChunkFacts
  <2> QED
    BY <1>a, <1>b, <1>f, <1>g, <2>1, <2>2, <2>3, <2>4 DEF WriteCall, Free
<1>10. InitCall' /\ FreeCall' /\ RewriteCall'
  BY <1>a, <1>b DEF IInv, InitCall, FreeCall, RewriteCall
<1> QED
  BY <1>1, <1>2, <1>3, <1>4, <1>5, <1>6, <1>7, <1>8, <1>9, <1>10 DEF IInv

LEMMA WriteLastInv ==
  ASSUME IInv, WriteLast
  PROVE  IInv'
<1> DEFINE h == -nxt[cur]
<1>a. /\ pc = "write" /\ left = 1 /\ nxt[cur] # 0
      /\ data' = [data EXCEPT ![cur] = <<val, left>>]
      /\ owner' = [owner EXCEPT ![cur] = mark]
      /\ nxt' = [nxt EXCEPT ![cur] = 0]
      /\ rank' = [rank EXCEPT ![cur] = 1]
      /\ firstFree' = [firstFree EXCEPT ![lst] = h]
      /\ held' = held \cup {mark}
      /\ pc' = "idle" /\ lst' = 1 /\ cur' = 0 /\ tgt' = 0 /\ left' = 0 /\ mark' = 0
      /\ val' = NoVal
  BY DEF WriteLast, Claim, Return
<1>b. UNCHANGED <<fileEnd, marker>>
  BY DEF WriteLast
<1>c. /\ h \in Allocated /\ Free(h) /\ marker[h] = lst /\ rank[h] = rank[cur] - 1
      /\ h # cur /\ h \in Nat
  <2>1. h \in Allocated /\ Free(h) /\ marker[h] = marker[cur] /\ rank[h] = rank[cur] - 1
    BY <1>a, WriteState DEF FreeLink
  <2> QED
    BY <1>a, <2>1, WriteState, ChunkFacts
<1>d. \A c \in Allocated : /\ nxt'[c] = IF c = cur THEN 0 ELSE nxt[c]
                           /\ owner'[c] = IF c = cur THEN mark ELSE owner[c]
                           /\ rank'[c] = IF c = cur THEN 1 ELSE rank[c]
  BY <1>a, TypeFacts, ChunkFacts
<1>e. \A c \in Allocated : /\ Free(c)' <=> Free(c) /\ c # cur
                           /\ Used(c)' <=> Used(c) \/ c = cur
  BY <1>a, <1>d, WriteState, ChunkFacts DEF Free, Used
<1>f. /\ \A k \in Lists : Top(k)' = IF k = lst THEN h ELSE firstFree[k]
      /\ Open' = Lists /\ Allocated' = Allocated
      /\ \A p : FirstOf(p)' = p
  BY <1>a, <1>b, TypeFacts DEF Top, Open, Allocated, FirstOf
<1>g. Structures' = held \cup {mark}
  BY <1>a DEF Structures
<1>1. TypeOK'
  <2>1. h \in Ptr /\ mark \in Ptr /\ mark \in Chunks /\ 0 \in Link
    BY <1>a, <1>c, WriteState, ChunkFacts, TypeFacts DEF Link
  <2>2. left \in 0 .. MaxLen /\ 1 \in Nat
    BY <1>a, WriteState, TypeFacts
  <2>3. /\ nxt' \in [Chunks -> Link] /\ owner' \in [Chunks -> Ptr] /\ rank' \in [Chunks -> Nat]
        /\ firstFree' \in [Lists -> Ptr] /\ held' \subseteq Chunks
    BY <1>a, <2>1, <2>2, TypeFacts
  <2>4. data' \in [Chunks -> (Values \cup {NoVal}) \X (0 .. MaxLen)]
    BY <1>a, <2>2, WriteState DEF IInv, TypeOK
  <2> QED
    BY <1>a, <1>b, <2>3, <2>4, Defaults DEF IInv, TypeOK
<1>2. Pages'
  <2>1. \A c \in Chunks \ Allocated : owner'[c] = owner[c]
    BY <1>a, WriteState, TypeFacts
  <2> QED
    BY <1>b, <1>f, <2>1, WriteState, <1>a DEF IInv, Pages, Free
<1>3. FreeTops'
  <2> SUFFICES ASSUME NEW k \in Lists
               PROVE /\ Top(k)' \in Allocated
                     /\ marker[Top(k)'] = k
                     /\ owner'[Top(k)'] = 0
    BY <1>b, <1>f DEF FreeTops, Free
  <2>1. CASE k = lst
    BY <1>c, <1>d, <1>f, <2>1 DEF Free
  <2>2. CASE k # lst
    <3>1. firstFree[k] \in Allocated /\ marker[firstFree[k]] = k /\ owner[firstFree[k]] = 0
      BY <1>a, <2>2, WriteState DEF IInv, FreeTops, Free
    <3> QED
      BY <1>a, <1>d, <1>f, <2>2, <3>1, WriteState
  <2> QED
    BY <2>1, <2>2
<1>4. FreeLinks'
  <2> SUFFICES ASSUME NEW c \in Allocated, Free(c), c # cur PROVE FreeLink(c)'
    BY <1>e, <1>f DEF FreeLinks
  <2>1. FreeLink(c) /\ nxt'[c] = nxt[c] /\ rank'[c] = rank[c] /\ marker[c] \in Lists
    BY <1>a, <1>d, WriteState DEF IInv, FreeLinks, Pages
  <2>2. marker[c] = lst => rank[c] < rank[cur]
    <3>1. marker[c] = lst => rank[c] <= rank[cur]
      BY <1>a, <2>1, WriteState DEF FreeLink
    <3>2. marker[c] = lst => rank[c] # rank[cur]
      BY <1>a, WriteState DEF IInv, FreeRanks
    <3> QED
      BY <1>a, <3>1, <3>2, WriteState, ChunkFacts
  <2>3. rank[c] <= rank'[Top(marker[c])']
    <3>1. CASE marker[c] = lst
      BY <1>a, <1>b, <1>c, <1>d, <1>f, <2>1, <2>2, <3>1, WriteState, ChunkFacts
    <3>2. CASE marker[c] # lst
      <4>1. firstFree[marker[c]] \in Allocated /\ marker[firstFree[marker[c]]] = marker[c]
        BY <1>a, <2>1, <3>2, WriteState DEF IInv, FreeTops
      <4>2. rank[c] <= rank[firstFree[marker[c]]]
        BY <1>a, <2>1, <3>2, WriteState DEF FreeLink
      <4> QED
        BY <1>a, <1>b, <1>d, <1>f, <2>1, <3>2, <4>1, <4>2, WriteState
    <3> QED
      BY <3>1, <3>2
  <2>4. nxt[c] # 0 => -nxt[c] # cur
    BY <1>a, <2>1, <2>2, WriteState, ChunkFacts DEF FreeLink
  <2> QED
    BY <1>a, <1>b, <1>d, <1>f, <2>1, <2>3, <2>4 DEF FreeLink, Free
<1>5. FreeRanks'
  BY <1>b, <1>d, <1>e, <1>f DEF IInv, FreeRanks
<1>6. UsedTops'
  <2> SUFFICES ASSUME NEW p \in held \cup {mark} PROVE p \in Allocated /\ owner'[p] = p
    BY <1>f, <1>g DEF UsedTops
  <2>1. CASE p = cur
    BY <1>a, <1>d, <2>1, WriteState, HeldIsUsed DEF Free, Used
  <2>2. CASE p # cur
    <3>1. p \in Structures /\ FirstOf(p) = p
      BY <1>a, <2>2, WriteState
    <3> QED
      BY <1>d, <2>2, <3>1, HeldIsUsed
  <2> QED
    BY <2>1, <2>2
<1>7. UsedLinks'
  <2> SUFFICES ASSUME NEW c \in Allocated, Used(c) \/ c = cur PROVE UsedLink(c)'
    BY <1>e, <1>f DEF UsedLinks
  <2>1. CASE c = cur
    <3>1. 1 <= rank'[mark]
      BY <1>a, <1>d, WriteState, HeldIsUsed, ChunkFacts, <1>6, <1>f, <1>g DEF UsedTops
    <3>2. /\ owner'[c] = mark /\ rank'[c] = 1 /\ nxt'[c] = 0
      BY <1>a, <1>d, <2>1, WriteState
    <3> QED
      BY <1>a, <1>b, <1>c, <1>f, <1>g, <2>1, <3>1, <3>2, WriteState, TypeFacts DEF UsedLink
  <2>2. CASE Used(c)
    <3>1. /\ c # cur /\ owner[c] # cur /\ UsedLink(c) /\ owner[c] \in Allocated
          /\ nxt'[c] = nxt[c] /\ owner'[c] = owner[c] /\ rank'[c] = rank[c]
      BY <1>a, <1>d, <2>2, ClaimOthers
    <3>2. /\ owner[c] \in Structures' /\ marker[c] = marker[owner[c]]
          /\ 1 <= rank[c] /\ rank[c] <= rank'[owner[c]] /\ rank[c] <= MaxLen /\ 0 <= nxt[c]
      BY <1>a, <1>d, <1>g, <3>1, WriteState DEF UsedLink
    <3>3. ~(owner[c] = mark /\ rank[c] = left)
      BY <1>a, <2>2, WriteState, ChunkFacts
    <3>4. /\ nxt[c] = 0 => rank[c] = 1
          /\ nxt[c] # 0 => nxt[c] \in Allocated /\ owner'[nxt[c]] = owner[c] /\ rank'[nxt[c]] = rank[c] - 1
      BY <1>a, <1>d, <2>2, WriteState, ClaimOthers, ChunkFacts
    <3> QED
      BY <1>a, <1>b, <1>f, <3>1, <3>2, <3>3, <3>4, WriteState DEF UsedLink
  <2> QED
    BY <2>1, <2>2
<1>8. UsedRanks'
  <2> SUFFICES ASSUME NEW a \in Allocated, NEW b \in Allocated, Used(a)', Used(b)',
                      owner'[a] = owner'[b], rank'[a] = rank'[b]
               PROVE  a = b
    BY <1>f DEF UsedRanks, Used
  <2>1. \A c \in Allocated : Used(c) => c # cur /\ (owner[c] = mark => rank[c] # 1)
    BY <1>a, WriteState, ClaimOthers, ChunkFacts
  <2> QED
    BY <1>d, <1>e, <2>1 DEF IInv, UsedRanks
<1>9. InitCall' /\ WriteCall' /\ FreeCall' /\ RewriteCall'
  BY <1>a, <1>b DEF IInv, InitCall, WriteCall, FreeCall, RewriteCall
<1> QED
  BY <1>1, <1>2, <1>3, <1>4, <1>5, <1>6, <1>7, <1>8, <1>9 DEF IInv

-----------------------------------------------------------------------------
(* AllocPage.                                                              *)

\* The chunks of the page AllocPage appends.
LEMMA PageFacts ==
  ASSUME IInv, NEW l \in Lists, AllocPage(l), fileEnd + ChunksPerPage <= MaxFile
  PROVE  /\ Allocated' = Allocated \cup NewPage
         /\ fileEnd + 1 \in NewPage /\ fileEnd + 1 \in Nat
         /\ fileEnd' \in 0 .. MaxFile
         /\ marker' \in [Chunks -> 0 .. NumLists]
         /\ firstFree' \in [Lists -> Ptr]
         /\ \A k \in Lists : firstFree'[k] = IF k = l THEN fileEnd + 1 ELSE firstFree[k]
         /\ \A c \in Allocated : c \notin NewPage /\ marker'[c] = marker[c]
         /\ \A c \in NewPage : /\ c \in Chunks /\ c \in Nat /\ c # 0 /\ c \in Ptr /\ c \in Link
                               /\ c \notin Allocated
                               /\ owner[c] = 0 /\ marker'[c] = l
         /\ ChunksPerPage \in Nat
<1>1. /\ fileEnd' = fileEnd + ChunksPerPage
      /\ marker' = [c \in Chunks |-> IF c \in NewPage THEN l ELSE marker[c]]
      /\ firstFree' = [firstFree EXCEPT ![l] = fileEnd + 1]
  BY DEF AllocPage
<1>2. /\ Allocated' = Allocated \cup NewPage
      /\ fileEnd + 1 \in NewPage /\ fileEnd + 1 \in Nat /\ fileEnd + 1 \in Ptr
      /\ fileEnd' \in 0 .. MaxFile
      /\ \A c \in Allocated : c \notin NewPage
  BY <1>1, TypeFacts DEF Allocated, NewPage, Ptr
<1>3. \A c \in NewPage : c \in Chunks /\ c \in Nat /\ c # 0 /\ c \notin Allocated
  BY TypeFacts DEF Allocated, NewPage, Chunks
<1>4. \A c \in Chunks : c \in Ptr /\ c \in Link
  BY TypeFacts DEF Chunks, Ptr, Link
<1>5. \A c \in NewPage : owner[c] = 0 /\ marker'[c] = l
  BY <1>1, <1>3 DEF IInv, Pages, Free
<1>6. \A c \in Allocated : marker'[c] = marker[c]
  BY <1>1, <1>2, ChunkFacts
<1>7. marker' \in [Chunks -> 0 .. NumLists]
  <2>1. l \in 0 .. NumLists
    BY TypeFacts DEF Lists
  <2> QED
    BY <1>1, <2>1, TypeFacts
<1>8. /\ firstFree' \in [Lists -> Ptr]
      /\ \A k \in Lists : firstFree'[k] = IF k = l THEN fileEnd + 1 ELSE firstFree[k]
  BY <1>1, <1>2, TypeFacts
<1> QED
  BY <1>2, <1>3, <1>4, <1>5, <1>6, <1>7, <1>8, TypeFacts

\* The links and ranks of the new page: a chain through all of its chunks.
LEMMA PageChain ==
  ASSUME IInv, NEW links \in [Chunks -> Link], NEW ranks \in [Chunks -> Nat],
         fileEnd + ChunksPerPage <= MaxFile
  PROVE  /\ PageLinks(links) \in [Chunks -> Link]
         /\ PageRanks(ranks) \in [Chunks -> Nat]
         /\ \A c \in Chunks \ NewPage :
              PageLinks(links)[c] = links[c] /\ PageRanks(ranks)[c] = ranks[c]
         /\ PageRanks(ranks)[fileEnd + 1] = ChunksPerPage
         /\ \A c \in NewPage :
              /\ PageRanks(ranks)[c] \in 1 .. ChunksPerPage
              /\ PageLinks(links)[c] <= 0
              /\ PageLinks(links)[c] = 0 => PageRanks(ranks)[c] = 1
              /\ PageLinks(links)[c] # 0 =>
                   /\ -PageLinks(links)[c] \in NewPage
                   /\ PageRanks(ranks)[-PageLinks(links)[c]] = PageRanks(ranks)[c] - 1
         /\ \A a, b \in NewPage : PageRanks(ranks)[a] = PageRanks(ranks)[b] => a = b
<1>1. \A c \in NewPage : /\ c \in Chunks /\ c \in fileEnd + 1 .. fileEnd + ChunksPerPage
                         /\ fileEnd + ChunksPerPage + 1 - c \in 1 .. ChunksPerPage
                         /\ c # fileEnd + ChunksPerPage => c + 1 \in NewPage /\ -(c + 1) \in Link
                         /\ 0 \in Link
  <2> SUFFICES ASSUME NEW c \in NewPage
               PROVE  /\ c \in Chunks /\ c \in fileEnd + 1 .. fileEnd + ChunksPerPage
                      /\ fileEnd + ChunksPerPage + 1 - c \in 1 .. ChunksPerPage
                      /\ c # fileEnd + ChunksPerPage => c + 1 \in NewPage /\ -(c + 1) \in Link
                      /\ 0 \in Link
    OBVIOUS
  <2>1. /\ c \in Nat /\ fileEnd + 1 <= c /\ c <= fileEnd + ChunksPerPage
        /\ fileEnd \in Nat /\ ChunksPerPage \in Nat /\ MaxFile \in Nat
        /\ c \in fileEnd + 1 .. fileEnd + ChunksPerPage
    BY TypeFacts DEF NewPage
  <2>2. c \in Chunks /\ 0 \in Link
    BY <2>1 DEF Chunks, Link
  <2>3. fileEnd + ChunksPerPage + 1 - c \in 1 .. ChunksPerPage
    BY <2>1
  <2>4. ASSUME c # fileEnd + ChunksPerPage PROVE c + 1 \in NewPage /\ -(c + 1) \in Link
    <3>1. c + 1 \in Nat /\ fileEnd + 1 <= c + 1 /\ c + 1 <= fileEnd + ChunksPerPage /\ c + 1 <= MaxFile
      BY <2>1, <2>4
    <3>2. c + 1 \in NewPage
      BY <2>1, <3>1 DEF NewPage
    <3>3. -(c + 1) \in Link
      BY <2>1, <3>1 DEF Link
    <3> QED
      BY <3>2, <3>3
  <2> QED
    BY <2>1, <2>2, <2>3, <2>4
<1>2. PageLinks(links) \in [Chunks -> Link]
  BY <1>1 DEF PageLinks
<1>3. PageRanks(ranks) \in [Chunks -> Nat]
  BY <1>1, TypeFacts DEF PageRanks
<1>4. \A c \in Chunks \ NewPage :
        PageLinks(links)[c] = links[c] /\ PageRanks(ranks)[c] = ranks[c]
  BY DEF PageLinks, PageRanks
<1>5. \A c \in NewPage :
        /\ PageLinks(links)[c] = IF c = fileEnd + ChunksPerPage THEN 0 ELSE -(c + 1)
        /\ PageRanks(ranks)[c] = fileEnd + ChunksPerPage + 1 - c
  BY <1>1 DEF PageLinks, PageRanks
<1>6. fileEnd + 1 \in NewPage
  BY TypeFacts DEF NewPage
<1>7. PageRanks(ranks)[fileEnd + 1] = ChunksPerPage
  BY <1>5, <1>6, TypeFacts
<1>8. ASSUME NEW c \in NewPage
      PROVE  /\ PageRanks(ranks)[c] \in 1 .. ChunksPerPage
             /\ PageLinks(links)[c] <= 0
             /\ PageLinks(links)[c] = 0 => PageRanks(ranks)[c] = 1
             /\ PageLinks(links)[c] # 0 =>
                  /\ -PageLinks(links)[c] \in NewPage
                  /\ PageRanks(ranks)[-PageLinks(links)[c]] = PageRanks(ranks)[c] - 1
  <2>1. c \in Nat /\ fileEnd \in Nat /\ ChunksPerPage \in Nat
    BY <1>1, TypeFacts
  <2>2. CASE c = fileEnd + ChunksPerPage
    BY <1>1, <1>5, <2>1, <2>2
  <2>3. CASE c # fileEnd + ChunksPerPage
    <3>1. PageLinks(links)[c] = -(c + 1) /\ -PageLinks(links)[c] = c + 1 /\ c + 1 \in NewPage
      BY <1>1, <1>5, <2>1, <2>3
    <3>2. /\ PageRanks(ranks)[c + 1] = fileEnd + ChunksPerPage + 1 - (c + 1)
          /\ PageRanks(ranks)[c] = fileEnd + ChunksPerPage + 1 - c
      BY <1>5, <3>1
    <3> QED
      BY <1>1, <2>1, <3>1, <3>2
  <2> QED
    BY <2>2, <2>3
<1>9. \A a, b \in NewPage : PageRanks(ranks)[a] = PageRanks(ranks)[b] => a = b
  <2> SUFFICES ASSUME NEW a \in NewPage, NEW b \in NewPage,
                      PageRanks(ranks)[a] = PageRanks(ranks)[b]
               PROVE  a = b
    OBVIOUS
  <2>1. fileEnd + ChunksPerPage + 1 - a = fileEnd + ChunksPerPage + 1 - b
    BY <1>5
  <2>2. a \in Nat /\ b \in Nat /\ fileEnd \in Nat /\ ChunksPerPage \in Nat
    BY <1>1, TypeFacts
  <2> QED
    BY <2>1, <2>2
<1> QED
  BY <1>2, <1>3, <1>4, <1>7, <1>8, <1>9

\* When the free list has one chunk left, cur is that chunk and a page fits.
LEMMA FullList ==
  ASSUME IInv, pc = "write", nxt[cur] = 0
  PROVE  /\ \A c \in Allocated : Free(c) /\ marker[c] = lst => c = cur
         /\ fileEnd + left * ChunksPerPage <= MaxFile
         /\ fileEnd + ChunksPerPage <= MaxFile
<1>1. rank[cur] = 1
  BY WriteState DEF FreeLink
<1>2. ASSUME NEW c \in Allocated, Free(c), marker[c] = lst PROVE c = cur
  <2>1. FreeLink(c)
    BY <1>2 DEF IInv, FreeLinks
  <2>2. rank[c] = rank[cur]
    BY <1>1, <1>2, <2>1, WriteState, TypeFacts, ChunkFacts DEF FreeLink
  <2> QED
    BY <1>2, <2>2, WriteState DEF IInv, FreeRanks
<1>3. fileEnd + left * ChunksPerPage <= MaxFile
  BY <1>1, WriteState
<1>4. left * ChunksPerPage = ChunksPerPage + (left - 1) * ChunksPerPage
  BY WriteState, TypeFacts
<1>5. (left - 1) * ChunksPerPage \in Nat
  BY WriteState, TypeFacts
<1> QED
  BY <1>2, <1>3, <1>4, <1>5, WriteState, TypeFacts

LEMMA WriteNextPageInv ==
  ASSUME IInv, WriteNextPage
  PROVE  IInv'
<1> DEFINE h == fileEnd + 1
<1>a. /\ pc = "write" /\ left > 1 /\ nxt[cur] = 0 /\ pc' = "write"
      /\ data' = [data EXCEPT ![cur] = <<val, left>>]
      /\ owner' = [owner EXCEPT ![cur] = mark]
      /\ cur' = h /\ left' = left - 1
  BY DEF WriteNextPage, Claim
<1> DEFINE links == [nxt EXCEPT ![cur] = h]
           ranks == [rank EXCEPT ![cur] = left]
<1>o. nxt' = PageLinks(links) /\ rank' = PageRanks(ranks)
  BY DEF WriteNextPage
<1>b. AllocPage(lst) /\ UNCHANGED <<lst, tgt, mark, val, held>>
  BY DEF WriteNextPage
<1>c. /\ \A c \in Allocated : Free(c) /\ marker[c] = lst => c = cur
      /\ fileEnd + left * ChunksPerPage <= MaxFile
      /\ fileEnd + ChunksPerPage <= MaxFile
  BY <1>a, FullList
<1>p. /\ Allocated' = Allocated \cup NewPage
      /\ h \in NewPage /\ h \in Nat
      /\ fileEnd' \in 0 .. MaxFile
      /\ marker' \in [Chunks -> 0 .. NumLists]
      /\ firstFree' \in [Lists -> Ptr]
      /\ \A k \in Lists : firstFree'[k] = IF k = lst THEN h ELSE firstFree[k]
      /\ \A c \in Allocated : c \notin NewPage /\ marker'[c] = marker[c]
      /\ \A c \in NewPage : /\ c \in Chunks /\ c \in Nat /\ c # 0 /\ c \in Ptr /\ c \in Link
                            /\ c \notin Allocated
                            /\ owner[c] = 0 /\ marker'[c] = lst
      /\ ChunksPerPage \in Nat
  BY <1>b, <1>c, PageFacts, TypeFacts
<1>q. links \in [Chunks -> Link] /\ ranks \in [Chunks -> Nat]
  BY <1>a, <1>p, WriteState, TypeFacts
<1>r. /\ nxt' \in [Chunks -> Link] /\ rank' \in [Chunks -> Nat]
      /\ \A c \in Chunks \ NewPage : nxt'[c] = links[c] /\ rank'[c] = ranks[c]
      /\ rank'[h] = ChunksPerPage
      /\ \A c \in NewPage : /\ rank'[c] \in 1 .. ChunksPerPage
                            /\ nxt'[c] <= 0
                            /\ nxt'[c] = 0 => rank'[c] = 1
                            /\ nxt'[c] # 0 => -nxt'[c] \in NewPage /\ rank'[-nxt'[c]] = rank'[c] - 1
      /\ \A a, b \in NewPage : rank'[a] = rank'[b] => a = b
  <2> HIDE DEF links, ranks
  <2> QED
    BY <1>c, <1>o, <1>q, PageChain
<1>d. \A c \in Allocated : /\ nxt'[c] = IF c = cur THEN h ELSE nxt[c]
                           /\ owner'[c] = IF c = cur THEN mark ELSE owner[c]
                           /\ rank'[c] = IF c = cur THEN left ELSE rank[c]
  BY <1>a, <1>p, <1>r, TypeFacts, ChunkFacts
<1>n. \A c \in NewPage : owner'[c] = 0 /\ c # cur
  BY <1>a, <1>p, TypeFacts, WriteState
<1>e. \A c \in Allocated' : /\ Free(c)' <=> (c \in Allocated /\ Free(c) /\ c # cur) \/ c \in NewPage
                            /\ Used(c)' <=> c \in Allocated /\ (Used(c) \/ c = cur)
  BY <1>a, <1>d, <1>n, <1>p, WriteState, ChunkFacts DEF Free, Used
<1>f. /\ \A k \in Lists : Top(k)' = IF k = lst THEN h ELSE firstFree[k]
      /\ Open' = Lists
      /\ \A p : FirstOf(p)' = p
  BY <1>a, <1>b, <1>p DEF Top, Open, FirstOf
<1>g. mark # h /\ Structures' = held \cup {mark}
  <2>1. mark # h
    BY <1>a, <1>p, WriteState
  <2> QED
    BY <1>a, <1>b, <2>1 DEF Structures
<1>1. TypeOK'
  <2>1. h \in Ptr /\ mark \in Ptr
    BY <1>a, <1>p, WriteState, ChunkFacts
  <2>2. left - 1 \in 0 .. MaxLen /\ left \in 0 .. MaxLen
    BY <1>a, WriteState, TypeFacts
  <2>3. owner' \in [Chunks -> Ptr]
    BY <1>a, <2>1, TypeFacts
  <2>4. data' \in [Chunks -> (Values \cup {NoVal}) \X (0 .. MaxLen)]
    BY <1>a, <2>2, WriteState DEF IInv, TypeOK
  <2> QED
    BY <1>a, <1>b, <1>p, <1>r, <2>1, <2>2, <2>3, <2>4 DEF IInv, TypeOK
<1>2. Pages'
  <2>1. \A c \in Chunks \ Allocated' : owner'[c] = 0
    BY <1>a, <1>p, WriteState, TypeFacts DEF IInv, Pages, Free
  <2>2. \A c \in Allocated' : marker'[c] \in Lists
    BY <1>a, <1>p, WriteState, TypeFacts DEF IInv, Pages
  <2> QED
    BY <1>f, <2>1, <2>2 DEF Pages, Free
<1>3. FreeTops'
  <2> SUFFICES ASSUME NEW k \in Lists
               PROVE /\ Top(k)' \in Allocated'
                     /\ marker'[Top(k)'] = k
                     /\ owner'[Top(k)'] = 0
    BY <1>f DEF FreeTops, Free
  <2>1. CASE k = lst
    BY <1>f, <1>n, <1>p, <2>1
  <2>2. CASE k # lst
    <3>1. firstFree[k] \in Allocated /\ marker[firstFree[k]] = k /\ owner[firstFree[k]] = 0
      BY <1>a, <2>2, WriteState DEF IInv, FreeTops, Free
    <3> QED
      BY <1>a, <1>d, <1>f, <1>p, <2>2, <3>1, WriteState
  <2> QED
    BY <2>1, <2>2
<1>4. FreeLinks'
  <2>1. ASSUME NEW c \in Allocated, Free(c), c # cur PROVE FreeLink(c)'
    <3>1. FreeLink(c) /\ nxt'[c] = nxt[c] /\ rank'[c] = rank[c] /\ marker[c] \in Lists
      BY <1>a, <1>d, <2>1, WriteState DEF IInv, FreeLinks, Pages
    <3>2. marker[c] # lst
      BY <1>c, <2>1
    <3>3. firstFree[marker[c]] \in Allocated /\ marker[firstFree[marker[c]]] = marker[c]
      BY <1>a, <3>1, <3>2, WriteState DEF IInv, FreeTops
    <3>4. rank[c] <= rank[firstFree[marker[c]]]
      BY <1>a, <3>1, <3>2, WriteState DEF FreeLink
    <3>5. rank'[c] <= rank'[Top(marker[c])']
      BY <1>a, <1>d, <1>f, <1>p, <3>1, <3>2, <3>3, <3>4, WriteState
    <3>6. nxt[c] # 0 => -nxt[c] # cur
      BY <1>a, <3>1, <3>2, WriteState DEF FreeLink
    <3> QED
      BY <1>a, <1>b, <1>d, <1>f, <1>p, <3>1, <3>5, <3>6, WriteState DEF FreeLink, Free
  <2>2. ASSUME NEW c \in NewPage PROVE FreeLink(c)'
    <3>1. rank'[c] <= rank'[Top(marker[c])'] /\ 1 <= rank'[c]
      BY <1>f, <1>p, <1>r, TypeFacts
    <3> QED
      BY <1>a, <1>n, <1>p, <1>r, <3>1 DEF FreeLink, Free
  <2> QED
    BY <1>e, <2>1, <2>2 DEF FreeLinks
<1>5. FreeRanks'
  <2> SUFFICES ASSUME NEW a \in Allocated', NEW b \in Allocated', Free(a)', Free(b)',
                      marker'[a] = marker'[b], rank'[a] = rank'[b]
               PROVE  a = b
    BY DEF FreeRanks
  <2>1. CASE a \in NewPage /\ b \in NewPage
    BY <1>r, <2>1
  <2>2. CASE a \notin NewPage /\ b \notin NewPage
    BY <1>d, <1>e, <1>p, <2>2 DEF IInv, FreeRanks
  <2>3. CASE ~(a \in NewPage <=> b \in NewPage)
    BY <1>c, <1>e, <1>p, <2>3
  <2> QED
    BY <2>1, <2>2, <2>3
<1>6. UsedTops'
  <2> SUFFICES ASSUME NEW p \in held \cup {mark} PROVE p \in Allocated /\ owner'[p] = p
    BY <1>f, <1>g, <1>p DEF UsedTops
  <2>1. CASE p = cur
    BY <1>a, <1>d, <2>1, WriteState, HeldIsUsed DEF Free, Used
  <2>2. CASE p # cur
    <3>1. p \in Structures /\ FirstOf(p) = p
      BY <1>a, <2>2, WriteState
    <3> QED
      BY <1>d, <2>2, <3>1, HeldIsUsed
  <2> QED
    BY <2>1, <2>2
<1>7. UsedLinks'
  <2> SUFFICES ASSUME NEW c \in Allocated, Used(c) \/ c = cur PROVE UsedLink(c)'
    BY <1>e DEF UsedLinks
  <2>1. CASE c = cur
    <3>1. left <= rank'[mark]
      <4>1. CASE mark = cur
        BY <1>a, <1>d, <4>1, WriteState
      <4>2. CASE mark # cur
        <5>1. owner[mark] = mark
          BY <1>a, <4>2, WriteState, HeldIsUsed
        <5> QED
          BY <1>a, <1>d, <4>2, <5>1, WriteState, ChunkFacts
      <4> QED
        BY <4>1, <4>2
    <3>2. /\ owner'[c] = mark /\ rank'[c] = left /\ nxt'[c] = h /\ left = left' + 1
      BY <1>a, <1>d, <2>1, WriteState
    <3> QED
      BY <1>a, <1>b, <1>f, <1>g, <1>p, <2>1, <3>1, <3>2, WriteState DEF UsedLink
  <2>2. CASE Used(c)
    <3>1. /\ c # cur /\ owner[c] # cur /\ UsedLink(c) /\ owner[c] \in Allocated
          /\ nxt'[c] = nxt[c] /\ owner'[c] = owner[c] /\ rank'[c] = rank[c]
      BY <1>a, <1>d, <2>2, ClaimOthers
    <3>2. /\ owner[c] \in Structures' /\ marker'[c] = marker'[owner[c]]
          /\ 1 <= rank[c] /\ rank[c] <= rank'[owner[c]] /\ rank[c] <= MaxLen /\ 0 <= nxt[c]
      BY <1>a, <1>d, <1>g, <1>p, <3>1, WriteState DEF UsedLink
    <3>3. ~(owner[c] = mark /\ rank[c] = left)
      BY <1>a, <2>2, WriteState, ChunkFacts
    <3>4. /\ nxt[c] = 0 => rank[c] = 1
          /\ nxt[c] # 0 => nxt[c] \in Allocated /\ owner'[nxt[c]] = owner[c] /\ rank'[nxt[c]] = rank[c] - 1
      BY <1>a, <1>d, <2>2, WriteState, ClaimOthers, ChunkFacts
    <3> QED
      BY <1>a, <1>b, <1>f, <1>p, <3>1, <3>2, <3>3, <3>4, WriteState DEF UsedLink
  <2> QED
    BY <2>1, <2>2
<1>8. UsedRanks'
  <2> SUFFICES ASSUME NEW a \in Allocated, NEW b \in Allocated, Used(a) \/ a = cur, Used(b) \/ b = cur,
                      owner'[a] = owner'[b], rank'[a] = rank'[b]
               PROVE  a = b
    BY <1>e DEF UsedRanks, Used
  <2>1. \A c \in Allocated : Used(c) => c # cur /\ (owner[c] = mark => rank[c] # left)
    BY <1>a, WriteState, ClaimOthers, ChunkFacts
  <2> QED
    BY <1>d, <2>1 DEF IInv, UsedRanks
<1>9. WriteCall'
  <2>1. fileEnd' + left' * ChunksPerPage <= MaxFile
    <3>1. (left - 1) * ChunksPerPage = left * ChunksPerPage - ChunksPerPage
      BY <1>a, WriteState, TypeFacts
    <3>2. left * ChunksPerPage \in Nat
      BY <1>a, WriteState, TypeFacts
    <3>3. fileEnd' = fileEnd + ChunksPerPage
      BY <1>b DEF AllocPage
    <3> QED
      BY <1>a, <1>c, <3>1, <3>2, <3>3, TypeFacts
  <2>2. /\ val' \in Values /\ 1 <= left' /\ mark' \in Allocated' /\ marker'[mark'] = lst' /\ mark' \notin held'
    BY <1>a, <1>b, <1>p, WriteState
  <2>3. owner'[mark] # 0
    BY <1>6, <1>f, <1>g, <1>a, WriteState, ChunkFacts DEF UsedTops
  <2>4. \A c \in Allocated' : owner'[c] = mark => left' < rank'[c]
    BY <1>a, <1>d, <1>n, <1>p, WriteState, ChunkFacts
  <2> QED
    BY <1>a, <1>b, <1>f, <1>g, <2>1, <2>2, <2>3, <2>4 DEF WriteCall, Free
<1>10. InitCall' /\ FreeCall' /\ RewriteCall'
  BY <1>a, <1>b DEF IInv, InitCall, FreeCall, RewriteCall
<1> QED
  BY <1>1, <1>2, <1>3, <1>4, <1>5, <1>6, <1>7, <1>8, <1>9, <1>10 DEF IInv

LEMMA WriteLastPageInv ==
  ASSUME IInv, WriteLastPage
  PROVE  IInv'
<1> DEFINE h == fileEnd + 1
<1>a. /\ pc = "write" /\ left = 1 /\ nxt[cur] = 0
      /\ data' = [data EXCEPT ![cur] = <<val, left>>]
      /\ owner' = [owner EXCEPT ![cur] = mark]
      /\ held' = held \cup {mark}
      /\ pc' = "idle" /\ lst' = 1 /\ cur' = 0 /\ tgt' = 0 /\ left' = 0 /\ mark' = 0
      /\ val' = NoVal
  BY DEF WriteLastPage, Claim, Return
<1> DEFINE links == [nxt EXCEPT ![cur] = 0]
           ranks == [rank EXCEPT ![cur] = 1]
<1>o. nxt' = PageLinks(links) /\ rank' = PageRanks(ranks)
  BY DEF WriteLastPage
<1>b. AllocPage(lst)
  BY DEF WriteLastPage
<1>c. /\ \A c \in Allocated : Free(c) /\ marker[c] = lst => c = cur
      /\ fileEnd + left * ChunksPerPage <= MaxFile
      /\ fileEnd + ChunksPerPage <= MaxFile
  BY <1>a, FullList
<1>p. /\ Allocated' = Allocated \cup NewPage
      /\ h \in NewPage /\ h \in Nat
      /\ fileEnd' \in 0 .. MaxFile
      /\ marker' \in [Chunks -> 0 .. NumLists]
      /\ firstFree' \in [Lists -> Ptr]
      /\ \A k \in Lists : firstFree'[k] = IF k = lst THEN h ELSE firstFree[k]
      /\ \A c \in Allocated : c \notin NewPage /\ marker'[c] = marker[c]
      /\ \A c \in NewPage : /\ c \in Chunks /\ c \in Nat /\ c # 0 /\ c \in Ptr /\ c \in Link
                            /\ c \notin Allocated
                            /\ owner[c] = 0 /\ marker'[c] = lst
      /\ ChunksPerPage \in Nat
  BY <1>b, <1>c, PageFacts, TypeFacts
<1>q. links \in [Chunks -> Link] /\ ranks \in [Chunks -> Nat]
  BY <1>a, <1>p, WriteState, TypeFacts DEF Link
<1>r. /\ nxt' \in [Chunks -> Link] /\ rank' \in [Chunks -> Nat]
      /\ \A c \in Chunks \ NewPage : nxt'[c] = links[c] /\ rank'[c] = ranks[c]
      /\ rank'[h] = ChunksPerPage
      /\ \A c \in NewPage : /\ rank'[c] \in 1 .. ChunksPerPage
                            /\ nxt'[c] <= 0
                            /\ nxt'[c] = 0 => rank'[c] = 1
                            /\ nxt'[c] # 0 => -nxt'[c] \in NewPage /\ rank'[-nxt'[c]] = rank'[c] - 1
      /\ \A a, b \in NewPage : rank'[a] = rank'[b] => a = b
  <2> HIDE DEF links, ranks
  <2> QED
    BY <1>c, <1>o, <1>q, PageChain
<1>d. \A c \in Allocated : /\ nxt'[c] = IF c = cur THEN 0 ELSE nxt[c]
                           /\ owner'[c] = IF c = cur THEN mark ELSE owner[c]
                           /\ rank'[c] = IF c = cur THEN 1 ELSE rank[c]
  BY <1>a, <1>p, <1>r, TypeFacts, ChunkFacts
<1>n. \A c \in NewPage : owner'[c] = 0 /\ c # cur
  BY <1>a, <1>p, TypeFacts, WriteState
<1>e. \A c \in Allocated' : /\ Free(c)' <=> (c \in Allocated /\ Free(c) /\ c # cur) \/ c \in NewPage
                            /\ Used(c)' <=> c \in Allocated /\ (Used(c) \/ c = cur)
  BY <1>a, <1>d, <1>n, <1>p, WriteState, ChunkFacts DEF Free, Used
<1>f. /\ \A k \in Lists : Top(k)' = IF k = lst THEN h ELSE firstFree[k]
      /\ Open' = Lists
      /\ \A p : FirstOf(p)' = p
  BY <1>a, <1>b, <1>p DEF Top, Open, FirstOf
<1>g. Structures' = held \cup {mark}
  BY <1>a DEF Structures
<1>1. TypeOK'
  <2>1. mark \in Ptr /\ mark \in Chunks /\ held' \subseteq Chunks
    BY <1>a, WriteState, ChunkFacts, TypeFacts
  <2>2. left \in 0 .. MaxLen
    BY <1>a, WriteState, TypeFacts
  <2>3. owner' \in [Chunks -> Ptr]
    BY <1>a, <2>1, TypeFacts
  <2>4. data' \in [Chunks -> (Values \cup {NoVal}) \X (0 .. MaxLen)]
    BY <1>a, <2>2, WriteState DEF IInv, TypeOK
  <2> QED
    BY <1>a, <1>p, <1>r, <2>1, <2>3, <2>4, Defaults DEF IInv, TypeOK
<1>2. Pages'
  <2>1. \A c \in Chunks \ Allocated' : owner'[c] = 0
    BY <1>a, <1>p, WriteState, TypeFacts DEF IInv, Pages, Free
  <2>2. \A c \in Allocated' : marker'[c] \in Lists
    BY <1>a, <1>p, WriteState, TypeFacts DEF IInv, Pages
  <2> QED
    BY <1>f, <2>1, <2>2 DEF Pages, Free
<1>3. FreeTops'
  <2> SUFFICES ASSUME NEW k \in Lists
               PROVE /\ Top(k)' \in Allocated'
                     /\ marker'[Top(k)'] = k
                     /\ owner'[Top(k)'] = 0
    BY <1>f DEF FreeTops, Free
  <2>1. CASE k = lst
    BY <1>f, <1>n, <1>p, <2>1
  <2>2. CASE k # lst
    <3>1. firstFree[k] \in Allocated /\ marker[firstFree[k]] = k /\ owner[firstFree[k]] = 0
      BY <1>a, <2>2, WriteState DEF IInv, FreeTops, Free
    <3> QED
      BY <1>a, <1>d, <1>f, <1>p, <2>2, <3>1, WriteState
  <2> QED
    BY <2>1, <2>2
<1>4. FreeLinks'
  <2>1. ASSUME NEW c \in Allocated, Free(c), c # cur PROVE FreeLink(c)'
    <3>1. FreeLink(c) /\ nxt'[c] = nxt[c] /\ rank'[c] = rank[c] /\ marker[c] \in Lists
      BY <1>a, <1>d, <2>1, WriteState DEF IInv, FreeLinks, Pages
    <3>2. marker[c] # lst
      BY <1>c, <2>1
    <3>3. firstFree[marker[c]] \in Allocated /\ marker[firstFree[marker[c]]] = marker[c]
      BY <1>a, <3>1, <3>2, WriteState DEF IInv, FreeTops
    <3>4. rank[c] <= rank[firstFree[marker[c]]]
      BY <1>a, <3>1, <3>2, WriteState DEF FreeLink
    <3>5. rank'[c] <= rank'[Top(marker[c])']
      BY <1>a, <1>d, <1>f, <1>p, <3>1, <3>2, <3>3, <3>4, WriteState
    <3>6. nxt[c] # 0 => -nxt[c] # cur
      BY <1>a, <3>1, <3>2, WriteState DEF FreeLink
    <3> QED
      BY <1>a, <1>b, <1>d, <1>f, <1>p, <3>1, <3>5, <3>6, WriteState DEF FreeLink, Free
  <2>2. ASSUME NEW c \in NewPage PROVE FreeLink(c)'
    <3>1. rank'[c] <= rank'[Top(marker[c])'] /\ 1 <= rank'[c]
      BY <1>f, <1>p, <1>r, TypeFacts
    <3> QED
      BY <1>a, <1>n, <1>p, <1>r, <3>1 DEF FreeLink, Free
  <2> QED
    BY <1>e, <2>1, <2>2 DEF FreeLinks
<1>5. FreeRanks'
  <2> SUFFICES ASSUME NEW a \in Allocated', NEW b \in Allocated', Free(a)', Free(b)',
                      marker'[a] = marker'[b], rank'[a] = rank'[b]
               PROVE  a = b
    BY DEF FreeRanks
  <2>1. CASE a \in NewPage /\ b \in NewPage
    BY <1>r, <2>1
  <2>2. CASE a \notin NewPage /\ b \notin NewPage
    BY <1>d, <1>e, <1>p, <2>2 DEF IInv, FreeRanks
  <2>3. CASE ~(a \in NewPage <=> b \in NewPage)
    BY <1>c, <1>e, <1>p, <2>3
  <2> QED
    BY <2>1, <2>2, <2>3
<1>6. UsedTops'
  <2> SUFFICES ASSUME NEW p \in held \cup {mark} PROVE p \in Allocated /\ owner'[p] = p
    BY <1>f, <1>g, <1>p DEF UsedTops
  <2>1. CASE p = cur
    BY <1>a, <1>d, <2>1, WriteState, HeldIsUsed DEF Free, Used
  <2>2. CASE p # cur
    <3>1. p \in Structures /\ FirstOf(p) = p
      BY <1>a, <2>2, WriteState
    <3> QED
      BY <1>d, <2>2, <3>1, HeldIsUsed
  <2> QED
    BY <2>1, <2>2
<1>7. UsedLinks'
  <2> SUFFICES ASSUME NEW c \in Allocated, Used(c) \/ c = cur PROVE UsedLink(c)'
    BY <1>e DEF UsedLinks
  <2>1. CASE c = cur
    <3>1. 1 <= rank'[mark]
      <4>1. CASE mark = cur
        BY <1>a, <1>d, <4>1, WriteState
      <4>2. CASE mark # cur
        <5>1. owner[mark] = mark
          BY <1>a, <4>2, WriteState, HeldIsUsed
        <5> QED
          BY <1>a, <1>d, <4>2, <5>1, WriteState, ChunkFacts
      <4> QED
        BY <4>1, <4>2
    <3>2. /\ owner'[c] = mark /\ rank'[c] = 1 /\ nxt'[c] = 0
      BY <1>a, <1>d, <2>1, WriteState
    <3> QED
      BY <1>a, <1>b, <1>f, <1>g, <1>p, <2>1, <3>1, <3>2, WriteState, TypeFacts DEF UsedLink
  <2>2. CASE Used(c)
    <3>1. /\ c # cur /\ owner[c] # cur /\ UsedLink(c) /\ owner[c] \in Allocated
          /\ nxt'[c] = nxt[c] /\ owner'[c] = owner[c] /\ rank'[c] = rank[c]
      BY <1>a, <1>d, <2>2, ClaimOthers
    <3>2. /\ owner[c] \in Structures' /\ marker'[c] = marker'[owner[c]]
          /\ 1 <= rank[c] /\ rank[c] <= rank'[owner[c]] /\ rank[c] <= MaxLen /\ 0 <= nxt[c]
      BY <1>a, <1>d, <1>g, <1>p, <3>1, WriteState DEF UsedLink
    <3>3. ~(owner[c] = mark /\ rank[c] = left)
      BY <1>a, <2>2, WriteState, ChunkFacts
    <3>4. /\ nxt[c] = 0 => rank[c] = 1
          /\ nxt[c] # 0 => nxt[c] \in Allocated /\ owner'[nxt[c]] = owner[c] /\ rank'[nxt[c]] = rank[c] - 1
      BY <1>a, <1>d, <2>2, WriteState, ClaimOthers, ChunkFacts
    <3> QED
      BY <1>a, <1>b, <1>f, <1>p, <3>1, <3>2, <3>3, <3>4, WriteState DEF UsedLink
  <2> QED
    BY <2>1, <2>2
<1>8. UsedRanks'
  <2> SUFFICES ASSUME NEW a \in Allocated, NEW b \in Allocated, Used(a) \/ a = cur, Used(b) \/ b = cur,
                      owner'[a] = owner'[b], rank'[a] = rank'[b]
               PROVE  a = b
    BY <1>e DEF UsedRanks, Used
  <2>1. \A c \in Allocated : Used(c) => c # cur /\ (owner[c] = mark => rank[c] # 1)
    BY <1>a, WriteState, ClaimOthers, ChunkFacts
  <2> QED
    BY <1>d, <2>1 DEF IInv, UsedRanks
<1>9. InitCall' /\ WriteCall' /\ FreeCall' /\ RewriteCall'
  BY <1>a, <1>b DEF IInv, InitCall, WriteCall, FreeCall, RewriteCall
<1> QED
  BY <1>1, <1>2, <1>3, <1>4, <1>5, <1>6, <1>7, <1>8, <1>9 DEF IInv

-----------------------------------------------------------------------------
(* Database::Init, and the theorems.                                       *)

LEMMA InitPageInv ==
  ASSUME IInv, InitPage
  PROVE  IInv'
<1>a. pc = "init" /\ AllocPage(lst) /\ UNCHANGED <<data, held, owner>>
  BY DEF InitPage
<1>o. nxt' = PageLinks(nxt) /\ rank' = PageRanks(rank)
  BY DEF InitPage
<1>b. \/ lst < NumLists /\ lst' = lst + 1 /\ UNCHANGED <<pc, cur, tgt, left, mark, val>>
      \/ /\ lst = NumLists /\ pc' = "idle" /\ lst' = 1 /\ cur' = 0 /\ tgt' = 0 /\ left' = 0
         /\ mark' = 0 /\ val' = NoVal
  BY TypeFacts DEF InitPage, Return, Lists
<1>c. lst \in 1 .. NumLists /\ NumLists \in Nat /\ fileEnd \in Nat /\ MaxFile \in Nat
      /\ ChunksPerPage \in Nat \ {0}
  BY TypeFacts DEF Lists
<1>d. /\ fileEnd + (NumLists - lst + 1) * ChunksPerPage <= MaxFile
      /\ held = {}
  BY <1>a DEF IInv, InitCall
<1>e. /\ (NumLists - lst + 1) * ChunksPerPage = ChunksPerPage + (NumLists - lst) * ChunksPerPage
      /\ (NumLists - lst) * ChunksPerPage \in Nat
  BY <1>c
<1>f. fileEnd + ChunksPerPage <= MaxFile
  BY <1>c, <1>d, <1>e
<1>p. /\ Allocated' = Allocated \cup NewPage
      /\ fileEnd + 1 \in NewPage
      /\ fileEnd' \in 0 .. MaxFile
      /\ marker' \in [Chunks -> 0 .. NumLists]
      /\ firstFree' \in [Lists -> Ptr]
      /\ \A k \in Lists : firstFree'[k] = IF k = lst THEN fileEnd + 1 ELSE firstFree[k]
      /\ \A c \in Allocated : c \notin NewPage /\ marker'[c] = marker[c]
      /\ \A c \in NewPage : /\ c \in Chunks /\ c \in Nat /\ c # 0
                            /\ owner[c] = 0 /\ marker'[c] = lst
  BY <1>a, <1>f, PageFacts, TypeFacts
<1>r. /\ nxt' \in [Chunks -> Link] /\ rank' \in [Chunks -> Nat]
      /\ \A c \in Chunks \ NewPage : nxt'[c] = nxt[c] /\ rank'[c] = rank[c]
      /\ rank'[fileEnd + 1] = ChunksPerPage
      /\ \A c \in NewPage : /\ rank'[c] \in 1 .. ChunksPerPage
                            /\ nxt'[c] <= 0
                            /\ nxt'[c] = 0 => rank'[c] = 1
                            /\ nxt'[c] # 0 => -nxt'[c] \in NewPage /\ rank'[-nxt'[c]] = rank'[c] - 1
      /\ \A a, b \in NewPage : rank'[a] = rank'[b] => a = b
  BY <1>f, <1>o, PageChain, TypeFacts
<1>g. \A c \in Allocated : nxt'[c] = nxt[c] /\ rank'[c] = rank[c] /\ owner'[c] = owner[c]
  BY <1>a, <1>p, <1>r, ChunkFacts
<1>h. /\ Open = 1 .. lst - 1 /\ Open' = Open \cup {lst} /\ lst \notin Open /\ lst \in Lists
      /\ \A k \in Open : k \in Lists
      /\ pc' \in {"init", "idle"}
  BY <1>a, <1>b, <1>c DEF Open, Lists
<1>i. /\ \A k \in Lists : Top(k) = firstFree[k] /\ Top(k)' = firstFree'[k]
      /\ Structures = {} /\ Structures' = {}
  BY <1>a, <1>b, <1>d DEF Top, Structures
<1>j. \A c \in Allocated' : owner'[c] = 0
  BY <1>a, <1>i, <1>p DEF IInv, UsedLinks, UsedLink, Used
<1>1. TypeOK'
  <2>1. lst < NumLists => lst + 1 \in Lists
    BY <1>c DEF Lists
  <2> QED
    BY <1>a, <1>b, <1>p, <1>r, <2>1, Defaults DEF IInv, TypeOK
<1>2. Pages'
  BY <1>a, <1>h, <1>p DEF IInv, Pages, Free
<1>3. FreeTops'
  <2> SUFFICES ASSUME NEW k \in Open \cup {lst}
               PROVE firstFree'[k] \in Allocated' /\ marker'[firstFree'[k]] = k /\ owner'[firstFree'[k]] = 0
    BY <1>h, <1>i DEF FreeTops, Free
  <2>1. CASE k = lst
    BY <1>h, <1>j, <1>p, <2>1
  <2>2. CASE k # lst
    <3>1. firstFree[k] \in Allocated /\ marker[firstFree[k]] = k
      BY <1>h, <1>i, <2>2 DEF IInv, FreeTops
    <3> QED
      BY <1>h, <1>j, <1>p, <2>2, <3>1
  <2> QED
    BY <2>1, <2>2
<1>4. FreeLinks'
  <2>1. ASSUME NEW c \in Allocated PROVE FreeLink(c)'
    <3>1. Free(c) /\ FreeLink(c) /\ marker[c] \in Open
      BY <1>g, <1>j, <1>p DEF IInv, FreeLinks, Pages, Free
    <3>2. firstFree[marker[c]] \in Allocated
      BY <1>h, <1>i, <3>1 DEF IInv, FreeTops
    <3>3. rank'[c] <= rank'[Top(marker[c])']
      BY <1>g, <1>h, <1>i, <1>p, <3>1, <3>2 DEF FreeLink
    <3>4. marker'[c] = marker[c] /\ nxt'[c] = nxt[c] /\ rank'[c] = rank[c]
      BY <1>g, <1>p
    <3> QED
      BY <1>a, <1>g, <1>h, <1>j, <1>p, <3>1, <3>3, <3>4 DEF FreeLink, Free
  <2>2. ASSUME NEW c \in NewPage PROVE FreeLink(c)'
    <3>1. rank'[c] <= rank'[Top(marker[c])'] /\ 1 <= rank'[c]
      BY <1>c, <1>h, <1>i, <1>p, <1>r
    <3> QED
      BY <1>h, <1>j, <1>p, <1>r, <3>1 DEF FreeLink, Free
  <2> QED
    BY <1>p, <2>1, <2>2 DEF FreeLinks
<1>5. FreeRanks'
  <2> SUFFICES ASSUME NEW a \in Allocated', NEW b \in Allocated',
                      marker'[a] = marker'[b], rank'[a] = rank'[b]
               PROVE  a = b
    BY DEF FreeRanks
  <2>1. CASE a \in NewPage /\ b \in NewPage
    BY <1>r, <2>1
  <2>2. CASE a \notin NewPage /\ b \notin NewPage
    BY <1>g, <1>j, <1>p, <2>2 DEF IInv, FreeRanks, Free
  <2>3. CASE ~(a \in NewPage <=> b \in NewPage)
    BY <1>h, <1>p, <2>3 DEF IInv, Pages
  <2> QED
    BY <2>1, <2>2, <2>3
<1>6. UsedTops' /\ UsedLinks' /\ UsedRanks'
  BY <1>i, <1>j DEF UsedTops, UsedLinks, UsedRanks, Used
<1>7. InitCall'
  <2>1. fileEnd' = fileEnd + ChunksPerPage
    BY <1>a DEF AllocPage
  <2>2. CASE lst < NumLists /\ lst' = lst + 1
    <3>1. NumLists - lst' + 1 = NumLists - lst
      BY <1>c, <2>2
    <3> QED
      BY <1>a, <1>c, <1>d, <1>e, <2>1, <3>1 DEF InitCall
  <2>3. CASE pc' = "idle"
    BY <2>3 DEF InitCall
  <2> QED
    BY <1>b, <2>2, <2>3
<1>8. WriteCall' /\ FreeCall' /\ RewriteCall'
  <2>1. tgt' = 0
    BY <1>a, <1>b DEF IInv, FreeCall
  <2> QED
    BY <1>h, <2>1 DEF WriteCall, FreeCall, RewriteCall
<1> QED
  BY <1>1, <1>2, <1>3, <1>4, <1>5, <1>6, <1>7, <1>8 DEF IInv

LEMMA StutterInv ==
  ASSUME IInv, UNCHANGED vars
  PROVE  IInv'
<1>1. UNCHANGED <<fileEnd, marker, nxt, data, firstFree, pc, lst, cur, tgt, left, mark, val,
                  held, owner, rank>>
  BY DEF vars, file, locals, ghosts
<1>2. /\ Allocated' = Allocated /\ Open' = Open /\ Structures' = Structures
      /\ \A c : /\ Free(c)' = Free(c) /\ Used(c)' = Used(c)
                /\ Top(c)' = Top(c) /\ FirstOf(c)' = FirstOf(c)
  BY <1>1 DEF Allocated, Open, Structures, Free, Used, Top, FirstOf
<1>3. \A c : FreeLink(c)' = FreeLink(c) /\ UsedLink(c)' = UsedLink(c)
  BY <1>1, <1>2 DEF FreeLink, UsedLink
<1>4. (TypeOK /\ Pages /\ FreeTops /\ FreeLinks /\ FreeRanks)'
  BY <1>1, <1>2, <1>3 DEF IInv, TypeOK, Pages, FreeTops, FreeLinks, FreeRanks
<1>5. (UsedTops /\ UsedLinks /\ UsedRanks)'
  BY <1>1, <1>2, <1>3 DEF IInv, UsedTops, UsedLinks, UsedRanks
<1>6. (InitCall /\ WriteCall /\ FreeCall /\ RewriteCall)'
  BY <1>1, <1>2 DEF IInv, InitCall, WriteCall, FreeCall, RewriteCall
<1> QED
  BY <1>4, <1>5, <1>6 DEF IInv

LEMMA NextInv == IInv /\ [Next]_vars => IInv'
<1> SUFFICES ASSUME IInv, [Next]_vars PROVE IInv'
  OBVIOUS
<1>1. CASE InitPage
  BY <1>1, InitPageInv
<1>2. CASE WriteNext
  BY <1>2, WriteNextInv
<1>3. CASE WriteNextPage
  BY <1>3, WriteNextPageInv
<1>4. CASE WriteLast
  BY <1>4, WriteLastInv
<1>5. CASE WriteLastPage
  BY <1>5, WriteLastPageInv
<1>6. CASE FreeNext
  BY <1>6, FreeNextInv
<1>7. CASE FreeLast
  BY <1>7, FreeLastInv
<1>8. CASE RewriteNext
  BY <1>8, RewriteNextInv
<1>9. CASE RewriteLast
  BY <1>9, RewriteLastInv
<1>10. CASE \E l \in Lists, n \in 1 .. MaxLen, v \in Values : WriteBegin(l, n, v)
  BY <1>10, WriteBeginInv
<1>11. CASE \E p \in Chunks : FreeBegin(p)
  BY <1>11, FreeBeginInv
<1>12. CASE \E p \in Chunks, v \in Values : RewriteBegin(p, v)
  BY <1>12, RewriteBeginInv
<1>13. CASE UNCHANGED vars
  BY <1>13, StutterInv
<1> QED
  BY <1>1, <1>2, <1>3, <1>4, <1>5, <1>6, <1>7, <1>8, <1>9, <1>10, <1>11, <1>12, <1>13
  DEF Next, Step

\* The inductive invariant holds in every reachable state: the links of the
\* file always form disjoint, well-ordered chains, in the middle of any call.
THEOREM Invariant == Spec => []IInv
BY InitIInv, NextInv, PTL DEF Spec

\* Every variable keeps its type: no link leaves the file, no call writes
\* more chunks than its batch has, and the file never outgrows its bound.
THEOREM TypeCorrect == Spec => []TypeOK
<1>1. IInv => TypeOK
  BY DEF IInv
<1> QED
  BY <1>1, Invariant, PTL

\* The assertion first_free_element != 0 with which WriteBytesBatch and
\* FreeBytesBatch begin never fails: AllocPage always came in time.
THEOREM FreeHeadsReady == Spec => []FreeHeadReady
<1>1. IInv => FreeHeadReady
  <2> SUFFICES ASSUME IInv, pc = "idle" PROVE FreeHeadReady
    BY DEF FreeHeadReady
  <2> QED
    BY IdleShape DEF IInv, FreeTops, Open, FreeHeadReady
<1> QED
  BY <1>1, Invariant, PTL

\* Between calls no chunk is in use that no caller can name: FreeBytesBatch
\* takes a structure apart completely and WriteBytesBatch leaves no remains.
THEOREM NoOrphans == Spec => []NoOrphan
<1>1. IInv => NoOrphan
  <2> SUFFICES ASSUME IInv, pc = "idle" PROVE NoOrphan
    BY DEF NoOrphan
  <2> QED
    BY IdleShape DEF IInv, UsedLinks, UsedLink, NoOrphan
<1> QED
  BY <1>1, Invariant, PTL

\* AllocPage runs only when its list has no free chunk besides the one being
\* filled, so the free list it overwrites is empty and nothing is lost.
THEOREM PagesOnlyWhenFull == Spec => PageOnlyWhenFull
<1>1. ASSUME IInv, [Next]_vars PROVE [fileEnd' # fileEnd => FreeChunks(lst) \subseteq {cur}]_vars
  <2> SUFFICES ASSUME Next, fileEnd' # fileEnd PROVE FreeChunks(lst) \subseteq {cur}
    BY <1>1 DEF vars, file
  <2>1. CASE InitPage
    <3>1. Open = 1 .. lst - 1 /\ lst \in Nat
      BY <1>1, <2>1, TypeFacts DEF InitPage, Open, Lists
    <3> QED
      BY <1>1, <3>1 DEF IInv, Pages, FreeChunks
  <2>2. CASE WriteNextPage
    BY <1>1, <2>2, FullList DEF WriteNextPage, FreeChunks
  <2>3. CASE WriteLastPage
    BY <1>1, <2>3, FullList DEF WriteLastPage, FreeChunks
  <2>4. CASE ~(InitPage \/ WriteNextPage \/ WriteLastPage)
    BY <2>4 DEF Next, Step, WriteNext, WriteLast, FreeNext, FreeLast, RewriteNext, RewriteLast,
       WriteBegin, FreeBegin, RewriteBegin, file
  <2> QED
    BY <2>1, <2>2, <2>3, <2>4
<1> QED
  BY <1>1, Invariant, PTL DEF Spec, PageOnlyWhenFull

-----------------------------------------------------------------------------
(* The walks.                                                              *)

\* The chunks of S are a chain that starts at p, with the links the walk of
\* that sign follows.
IsChain(S, p, sign) ==
  /\ S \subseteq Allocated /\ p \in S
  /\ \A c \in S : rank[c] \in Nat /\ 1 <= rank[c] /\ rank[c] <= rank[p]
  /\ \A c \in S : IF rank[c] = 1 THEN sign * nxt[c] = 0
                  ELSE sign * nxt[c] \in S /\ rank[sign * nxt[c]] = rank[c] - 1
  /\ \A a, b \in S : rank[a] = rank[b] => a = b

\* w is that chain, in the order of its links.
InOrder(w, S, p) ==
  /\ w \in [1 .. rank[p] -> S]
  /\ \A k \in 1 .. rank[p] : rank[w[k]] = rank[p] + 1 - k

\* The walk along a chain meets its chunks in order, and ends.
LEMMA ChainWalk ==
  ASSUME fileEnd \in Nat, NEW S, NEW p, NEW sign, IsChain(S, p, sign)
  PROVE  InOrder(Walk(p, sign), S, p)
<1> DEFINE link == [c \in S |-> sign * nxt[c]]
           n == rank[p]
           M == fileEnd + 1
           at[k \in 1 .. M] ==
             IF k = 1 THEN p
             ELSE LET before == at[k - 1]
                  IN IF before \in Allocated THEN sign * nxt[before] ELSE 0
<1>0. /\ S \subseteq Allocated /\ p \in S
      /\ \A c \in S : rank[c] \in Nat /\ 1 <= rank[c] /\ rank[c] <= rank[p]
      /\ \A c \in S : IF rank[c] = 1 THEN link[c] = 0
                      ELSE link[c] \in S /\ rank[link[c]] = rank[c] - 1
      /\ \A a, b \in S : rank[a] = rank[b] => a = b
      /\ \A c \in S : sign * nxt[c] = link[c]
  BY DEF IsChain
<1> HIDE DEF link
<1>1. n \in Nat /\ 1 <= n /\ 0 \notin Allocated /\ M \in Nat /\ 0 \notin S
  BY <1>0 DEF Allocated
<1>2. Walk(p, sign) = [k \in {j \in 1 .. M : at[j] # 0} |-> at[k]]
  BY DEF Walk
<1> HIDE DEF n
<1>3. \A k \in 1 .. n : \E c \in S : rank[c] = n + 1 - k
  <2> DEFINE T == {k \in 0 .. n - 1 : \E c \in S : rank[c] = n - k}
  <2>1. 0 \in T
    BY <1>0, <1>1 DEF n
  <2>2. ASSUME NEW k \in 0 .. n - 1 - 1, k \in T PROVE k + 1 \in T
    <3>1. PICK c \in S : rank[c] = n - k
      BY <2>2
    <3>2. rank[c] # 1
      BY <1>0, <1>1, <3>1
    <3>3. link[c] \in S /\ rank[link[c]] = n - (k + 1)
      BY <1>0, <1>1, <3>1, <3>2
    <3> QED
      BY <1>1, <3>3
  <2> HIDE DEF T
  <2>3. n - 1 \in Nat
    BY <1>1
  <2>4. \A k \in 0 .. n - 1 : k \in T
    BY <2>1, <2>2, <2>3, UpTo
  <2>5. ASSUME NEW k \in 1 .. n PROVE \E c \in S : rank[c] = n + 1 - k
    <3>1. PICK j \in 0 .. n - 1 : k = j + 1
      BY <1>1
    <3>2. PICK c \in S : rank[c] = n - j
      BY <2>4 DEF T
    <3> QED
      BY <1>1, <3>1, <3>2
  <2> QED
    BY <2>5
<1> PICK w : w = [k \in 1 .. n |-> CHOOSE c \in S : rank[c] = n + 1 - k]
  OBVIOUS
<1>4. w \in [1 .. n -> S] /\ \A k \in 1 .. n : w[k] \in S /\ rank[w[k]] = n + 1 - k
  BY <1>0, <1>3
<1>5. n <= fileEnd
  <2>1. IsFiniteSet(Allocated) /\ Cardinality(Allocated) = fileEnd
    BY FS_Interval DEF Allocated
  <2>2. IsFiniteSet(S) /\ Cardinality(S) <= fileEnd /\ Cardinality(S) \in Nat
    BY <1>0, <2>1, FS_Subset, FS_CardinalityType
  <2>3. \A j, k \in 1 .. n : w[j] = w[k] => j = k
    BY <1>0, <1>1, <1>4
  <2>4. n <= Cardinality(S)
    BY <1>1, <1>4, <2>2, <2>3, WalkBound
  <2> QED
    BY <1>1, <2>2, <2>4
<1>6. PICK g : /\ g = [k \in 1 .. M |-> g[k]]
               /\ \A k \in 1 .. M : g[k] = IF k \in 1 .. n THEN w[k] ELSE 0
  <2> DEFINE h == [k \in 1 .. M |-> IF k \in 1 .. n THEN w[k] ELSE 0]
  <2>1. h = [k \in 1 .. M |-> h[k]] /\ \A k \in 1 .. M : h[k] = IF k \in 1 .. n THEN w[k] ELSE 0
    OBVIOUS
  <2> HIDE DEF h
  <2> QED
    BY <2>1
<1>7. 1 \in 1 .. n /\ \A k \in 1 .. n : k \in 1 .. M
  BY <1>1, <1>5
<1> HIDE DEF M
<1>8. ASSUME NEW k \in 1 .. M
      PROVE  g[k] = IF k = 1 THEN p
                    ELSE LET before == g[k - 1]
                         IN IF before \in Allocated THEN sign * nxt[before] ELSE 0
  <2>1. CASE k = 1
    <3>1. rank[w[1]] = rank[p] /\ w[1] \in S
      BY <1>0, <1>1, <1>4, <1>7 DEF n
    <3>2. w[1] = p
      BY <1>0, <3>1
    <3> QED
      BY <1>6, <1>7, <2>1, <3>2
  <2>2. CASE k # 1
    <3>1. PICK j \in 1 .. M : k = j + 1 /\ k - 1 = j
      BY <1>1, <2>2
    <3>2. CASE j \in 1 .. n
      <4>1. w[j] \in S /\ rank[w[j]] = n + 1 - j /\ g[j] = w[j] /\ w[j] \in Allocated
        BY <1>0, <1>4, <1>6, <3>2
      <4>2. sign * nxt[w[j]] = link[w[j]]
        BY <1>0, <4>1
      <4>3. CASE j = n
        <5>1. link[w[j]] = 0 /\ k \notin 1 .. n
          BY <1>0, <1>1, <3>1, <4>1, <4>3
        <5> QED
          BY <1>6, <2>2, <3>1, <4>1, <4>2, <5>1
      <4>4. CASE j # n
        <5>1. k \in 1 .. n /\ rank[w[j]] # 1
          BY <1>1, <3>1, <3>2, <4>1, <4>4
        <5>2. link[w[j]] \in S /\ rank[link[w[j]]] = rank[w[j]] - 1
          BY <1>0, <4>1, <5>1
        <5>2a. rank[link[w[j]]] = n + 1 - k
          BY <1>1, <3>1, <4>1, <5>2
        <5>3. link[w[j]] = w[k]
          BY <1>0, <1>4, <5>1, <5>2, <5>2a
        <5> QED
          BY <1>6, <2>2, <3>1, <4>1, <4>2, <5>1, <5>3
      <4> QED
        BY <4>3, <4>4
    <3>3. CASE j \notin 1 .. n
      <4>1. k \notin 1 .. n
        BY <1>1, <3>1, <3>3
      <4> QED
        BY <1>1, <1>6, <2>2, <3>1, <3>3, <4>1
    <3> QED
      BY <3>2, <3>3
  <2> QED
    BY <2>1, <2>2
<1>9. g = [k \in 1 .. M |-> IF k = 1 THEN p
             ELSE LET before == g[k - 1]
                  IN IF before \in Allocated THEN sign * nxt[before] ELSE 0]
  <2>1. g = [k \in 1 .. M |-> g[k]]
    BY <1>6, Zenon
  <2> QED
    BY <1>8, <2>1, Zenon
<1>10. \E h : h = [k \in 1 .. M |-> IF k = 1 THEN p
             ELSE LET before == h[k - 1]
                  IN IF before \in Allocated THEN sign * nxt[before] ELSE 0]
  BY <1>9, Zenon
<1>11. at = [k \in 1 .. M |-> IF k = 1 THEN p
             ELSE LET before == at[k - 1]
                  IN IF before \in Allocated THEN sign * nxt[before] ELSE 0]
  BY <1>10, Zenon
<1> HIDE DEF at
<1> DEFINE T == {k \in 0 .. fileEnd : at[k + 1] = g[k + 1]}
<1>12. 0 \in T
  <2>1. 0 \in 0 .. fileEnd /\ 0 + 1 = 1 /\ 1 \in 1 .. M
    BY <1>5, <1>7
  <2> QED
    BY <1>8, <1>11, <2>1
<1>13. ASSUME NEW k \in 0 .. fileEnd - 1, k \in T PROVE k + 1 \in T
  <2>1. PICK j : j = k + 1
    OBVIOUS
  <2>2. PICK m : m = j + 1
    OBVIOUS
  <2>3. m \in 1 .. M /\ m # 1 /\ m - 1 = j /\ j \in 0 .. fileEnd
    BY <2>1, <2>2 DEF M
  <2>4. at[j] = g[j]
    BY <1>13, <2>1
  <2>5. at[m] = LET before == at[m - 1]
                IN IF before \in Allocated THEN sign * nxt[before] ELSE 0
    BY <1>11, <2>3
  <2>6. g[m] = LET before == g[m - 1]
               IN IF before \in Allocated THEN sign * nxt[before] ELSE 0
    BY <1>8, <2>3
  <2>7. at[m] = g[m]
    BY <2>3, <2>4, <2>5, <2>6
  <2> QED
    BY <2>1, <2>2, <2>3, <2>7
<1> HIDE DEF T
<1>14. \A k \in 0 .. fileEnd : k \in T
  BY <1>12, <1>13, UpTo
<1>15. ASSUME NEW k \in 1 .. M PROVE at[k] = IF k \in 1 .. n THEN w[k] ELSE 0
  <2>1. PICK j \in 0 .. fileEnd : k = j + 1
    BY DEF M
  <2> QED
    BY <1>6, <1>14, <2>1 DEF T
<1>16. {j \in 1 .. M : at[j] # 0} = 1 .. n
  <2>1. \A j \in 1 .. n : j \in 1 .. M /\ at[j] # 0
    BY <1>1, <1>4, <1>7, <1>15
  <2>2. \A j \in 1 .. M : at[j] # 0 => j \in 1 .. n
    BY <1>15
  <2> QED
    BY <2>1, <2>2
<1>17. Walk(p, sign) = w
  <2>1. Walk(p, sign) = [k \in 1 .. n |-> at[k]]
    BY <1>2, <1>16
  <2>2. \A k \in 1 .. n : at[k] = w[k]
    BY <1>7, <1>15
  <2> QED
    BY <1>4, <2>1, <2>2
<1> QED
  BY <1>4, <1>17 DEF n, InOrder

\* A member of a chain is determined by its rank, and every rank is taken: the
\* walk meets the whole chain.
LEMMA ChainMet ==
  ASSUME NEW S, NEW p, NEW sign, IsChain(S, p, sign), NEW w, InOrder(w, S, p)
  PROVE  {w[k] : k \in DOMAIN w} = S /\ Cardinality(DOMAIN w) = Cardinality(S)
<1> DEFINE n == rank[p]
<1>0. /\ n \in Nat /\ w \in [1 .. n -> S]
      /\ \A c \in S : rank[c] \in Nat /\ 1 <= rank[c] /\ rank[c] <= n
      /\ \A a, b \in S : rank[a] = rank[b] => a = b
      /\ \A k \in 1 .. n : rank[w[k]] = n + 1 - k
  BY DEF IsChain, InOrder
<1> HIDE DEF n
<1>1. \A c \in S : \E k \in 1 .. n : w[k] = c
  <2> SUFFICES ASSUME NEW c \in S PROVE \E k \in 1 .. n : w[k] = c
    OBVIOUS
  <2>1. PICK k \in 1 .. n : k = n + 1 - rank[c]
    BY <1>0
  <2>2. rank[w[k]] = rank[c]
    BY <1>0, <2>1
  <2> QED
    BY <1>0, <2>2
<1>2. {w[k] : k \in DOMAIN w} = S
  BY <1>0, <1>1
<1>3. \A j, k \in 1 .. n : w[j] = w[k] => j = k
  BY <1>0
<1>4. w \in Bijection(1 .. n, S)
  BY <1>0, <1>1, <1>3 DEF Bijection, Injection, Surjection, IsInjective
<1>5. IsFiniteSet(1 .. n) /\ Cardinality(1 .. n) = n
  BY <1>0, FS_Interval
<1>6. IsFiniteSet(S) /\ Cardinality(S) = n
  BY <1>4, <1>5, FS_Bijection DEF ExistsBijection
<1> QED
  BY <1>0, <1>2, <1>5, <1>6

\* Between calls the walk along a free list meets every free chunk of the list
\* once and ends, so no chunk is ever lost or given out twice.
THEOREM FreeListsComplete == Spec => []FreeListComplete
<1>1. IInv => FreeListComplete
  <2> SUFFICES ASSUME IInv, pc = "idle", NEW l \in Lists
               PROVE  /\ {Walk(firstFree[l], -1)[k] : k \in DOMAIN Walk(firstFree[l], -1)} = FreeChunks(l)
                      /\ Cardinality(DOMAIN Walk(firstFree[l], -1)) = Cardinality(FreeChunks(l))
    BY DEF FreeListComplete
  <2> DEFINE S == FreeChunks(l)
             p == firstFree[l]
             link == [c \in S |-> -nxt[c]]
  <2>1. /\ p \in S
        /\ \A c \in S : /\ c \in Allocated /\ Free(c) /\ marker[c] = l
                        /\ FreeLink(c) /\ Top(marker[c]) = p
    BY IdleShape DEF IInv, FreeTops, FreeLinks, Open, FreeChunks
  <2>2. \A c \in S : rank[c] \in Nat /\ 1 <= rank[c] /\ rank[c] <= rank[p] /\ nxt[c] \in Int
    BY <2>1, ChunkFacts DEF FreeLink
  <2>3. ASSUME NEW c \in S
        PROVE  IF rank[c] = 1 THEN link[c] = 0 ELSE link[c] \in S /\ rank[link[c]] = rank[c] - 1
    <3>1. nxt[c] = 0 => rank[c] = 1
      BY <2>1 DEF FreeLink
    <3>2. nxt[c] # 0 => -nxt[c] \in S /\ rank[-nxt[c]] = rank[c] - 1
      BY <2>1 DEF FreeLink, FreeChunks
    <3>3. nxt[c] # 0 => rank[c] # 1
      BY <2>2, <3>2
    <3> QED
      BY <2>2, <3>1, <3>2, <3>3
  <2>4. \A a, b \in S : rank[a] = rank[b] => a = b
    BY <2>1 DEF IInv, FreeRanks
  <2>5. \A c \in S : (-1) * nxt[c] = link[c]
    BY <2>2
  <2>6. fileEnd \in Nat /\ S \subseteq Allocated
    BY <2>1, TypeFacts
  <2> HIDE DEF S, p, link
  <2>7. IsChain(S, p, -1)
    BY <2>1, <2>2, <2>3, <2>4, <2>5, <2>6 DEF IsChain
  <2>8. InOrder(Walk(p, -1), S, p)
    BY <2>6, <2>7, ChainWalk
  <2>9. {Walk(p, -1)[k] : k \in DOMAIN Walk(p, -1)} = S /\ Cardinality(DOMAIN Walk(p, -1)) = Cardinality(S)
    BY <2>7, <2>8, ChainMet
  <2> QED
    BY <2>9 DEF S, p
<1> QED
  BY <1>1, Invariant, PTL

\* What ReadStruct reads at p: the chunks of the structure, by their ranks.
Reads(p) ==
  /\ ReadStruct(p) = [k \in 1 .. rank[p] |-> ReadStruct(p)[k]]
  /\ \A k \in 1 .. rank[p] :
       \E c \in Allocated : /\ owner[c] = p /\ rank[c] = rank[p] + 1 - k
                            /\ ReadStruct(p)[k] = data[c]

ReadForm == IInv => \A p \in held : Reads(p)

LEMMA HeldFacts ==
  ASSUME IInv, NEW p \in held
  PROVE  /\ FirstOf(p) = p /\ p \in Structures
         /\ p \in Allocated /\ owner[p] = p /\ Used(p) /\ p # 0
         /\ rank[p] \in Nat /\ 1 <= rank[p] /\ rank[p] <= MaxLen
<1>1. FirstOf(p) = p /\ p \in Structures
  BY DEF FirstOf, Structures, IInv, FreeCall
<1>2. p \in Allocated /\ owner[p] = p /\ Used(p)
  BY <1>1, HeldIsUsed
<1> QED
  BY <1>1, <1>2, ChunkFacts DEF IInv, UsedLinks, UsedLink

LEMMA ReadHeld == ReadForm
<1> SUFFICES ASSUME IInv, NEW p \in held PROVE Reads(p)
  BY DEF ReadForm
<1> DEFINE S == {c \in Allocated : owner[c] = p}
           link == [c \in S |-> nxt[c]]
<1>1. FirstOf(p) = p /\ p \in S /\ p # 0 /\ rank[p] \in Nat
  BY HeldFacts
<1>2. \A c \in S : c \in Allocated /\ owner[c] = p /\ UsedLink(c)
  BY <1>1 DEF IInv, UsedLinks, Used
<1>3. \A c \in S : rank[c] \in Nat /\ 1 <= rank[c] /\ rank[c] <= rank[p] /\ nxt[c] \in Int
  BY <1>1, <1>2, ChunkFacts DEF UsedLink
<1>4. p = mark => pc # "write"
  BY DEF IInv, WriteCall
<1>5. ASSUME NEW c \in S
      PROVE  IF rank[c] = 1 THEN link[c] = 0 ELSE link[c] \in S /\ rank[link[c]] = rank[c] - 1
  <2>1. nxt[c] = 0 => rank[c] = 1
    BY <1>2, <1>4 DEF UsedLink
  <2>2. nxt[c] # 0 => nxt[c] \in S /\ rank[nxt[c]] = rank[c] - 1
    BY <1>2, <1>4 DEF UsedLink
  <2>3. nxt[c] # 0 => rank[c] # 1
    BY <1>3, <2>2
  <2> QED
    BY <1>3, <2>1, <2>2, <2>3
<1>6. \A a, b \in S : rank[a] = rank[b] => a = b
  BY <1>1, <1>2 DEF IInv, UsedRanks, Used
<1>7. \A c \in S : 1 * nxt[c] = link[c]
  BY <1>3
<1>8. fileEnd \in Nat /\ S \subseteq Allocated
  BY TypeFacts
<1> HIDE DEF link, S
<1>9. IsChain(S, p, 1)
  BY <1>1, <1>3, <1>5, <1>6, <1>7, <1>8 DEF IsChain
<1> DEFINE w == Walk(p, 1)
<1>10. InOrder(w, S, p)
  BY <1>8, <1>9, ChainWalk
<1>11. ReadStruct(p) = [k \in DOMAIN w |-> IF w[k] \in Allocated THEN data[w[k]] ELSE Zero]
  BY DEF ReadStruct
<1> HIDE DEF w
<1>12. DOMAIN w = 1 .. rank[p]
  BY <1>10 DEF InOrder
<1>13. \A k \in 1 .. rank[p] : w[k] \in Allocated /\ owner[w[k]] = p /\ rank[w[k]] = rank[p] + 1 - k
  BY <1>2, <1>10 DEF InOrder
<1> QED
  BY <1>11, <1>12, <1>13 DEF Reads

\* A structure none of whose chunks a step touches reads the same.
LEMMA SameRead ==
  ASSUME IInv, IInv', ReadForm', NEW p, p \in held, p \in held',
         fileEnd <= fileEnd',
         \A c \in Allocated : owner[c] = p =>
           owner'[c] = p /\ rank'[c] = rank[c] /\ data'[c] = data[c]
  PROVE  ReadStruct(p)' = ReadStruct(p)
<1>1. Reads(p) /\ Reads(p)'
  BY ReadHeld DEF ReadForm
<1>2. rank'[p] = rank[p]
  BY HeldFacts
<1>3. Allocated \subseteq Allocated'
  BY TypeFacts DEF Allocated, IInv, TypeOK
<1>4. \A a, b \in Allocated' : owner'[a] = p /\ owner'[b] = p /\ rank'[a] = rank'[b] => a = b
  BY HeldFacts DEF IInv, UsedRanks, Used
<1>5. ASSUME NEW k \in 1 .. rank[p] PROVE ReadStruct(p)'[k] = ReadStruct(p)[k]
  <2>1. PICK c \in Allocated : /\ owner[c] = p /\ rank[c] = rank[p] + 1 - k
                               /\ ReadStruct(p)[k] = data[c]
    BY <1>1 DEF Reads
  <2>2. PICK d \in Allocated' : /\ owner'[d] = p /\ rank'[d] = rank'[p] + 1 - k
                                /\ ReadStruct(p)'[k] = data'[d]
    BY <1>1, <1>2 DEF Reads
  <2>3. c = d
    BY <1>2, <1>3, <1>4, <2>1, <2>2
  <2> QED
    BY <2>1, <2>2, <2>3
<1>6. ReadStruct(p) = [k \in 1 .. rank[p] |-> ReadStruct(p)[k]]
  BY <1>1 DEF Reads
<1>7. ReadStruct(p)' = [k \in 1 .. rank[p] |-> ReadStruct(p)'[k]]
  BY <1>1, <1>2 DEF Reads
<1> QED
  BY <1>5, <1>6, <1>7

\* The entry of the heap for a structure in use.
Entry(p) == IF pc = "rewrite" /\ mark = p THEN Pieces(val, rank[p]) ELSE ReadStruct(p)

-----------------------------------------------------------------------------
(* The chunks written so far by the call in progress.                      *)

\* WriteBytesBatch and RewriteBytesBatch write the pieces of one batch in
\* order: those behind the loop are in the file already.
Batch ==
  /\ pc = "write" => \A c \in Allocated : owner[c] = mark => data[c] = <<val, rank[c]>>
  /\ pc = "rewrite" =>
       \A c \in Allocated : owner[c] = mark /\ left < rank[c] => data[c] = <<val, rank[c]>>

\* What a step of WriteBytesBatch does to the chunks of the file.
LEMMA WriteStep ==
  ASSUME IInv, WriteNext \/ WriteNextPage \/ WriteLast \/ WriteLastPage
  PROVE  /\ pc = "write" /\ cur \in Allocated /\ Free(cur) /\ mark \in Allocated /\ val \in Values
         /\ fileEnd <= fileEnd'
         /\ \A c \in Allocated' : owner'[c] # 0 => c \in Allocated
         /\ \A c \in Allocated :
              /\ owner'[c] = IF c = cur THEN mark ELSE owner[c]
              /\ rank'[c] = IF c = cur THEN left ELSE rank[c]
              /\ data'[c] = IF c = cur THEN <<val, left>> ELSE data[c]
<1>1. pc = "write"
  BY DEF WriteNext, WriteNextPage, WriteLast, WriteLastPage
<1>2. cur \in Allocated /\ Free(cur) /\ mark \in Allocated /\ val \in Values /\ marker[cur] = lst
  BY <1>1, WriteState
<1>3. /\ data' = [data EXCEPT ![cur] = <<val, left>>]
      /\ owner' = [owner EXCEPT ![cur] = mark]
  BY DEF WriteNext, WriteNextPage, WriteLast, WriteLastPage, Claim
<1>4. \A c \in Allocated : /\ owner'[c] = IF c = cur THEN mark ELSE owner[c]
                           /\ data'[c] = IF c = cur THEN <<val, left>> ELSE data[c]
  BY <1>3, TypeFacts, ChunkFacts DEF IInv, TypeOK
<1>5. fileEnd \in Nat /\ fileEnd <= MaxFile /\ ChunksPerPage \in Nat \ {0}
  BY TypeFacts
<1>6. CASE WriteNext \/ WriteLast
  <2>1. fileEnd' = fileEnd /\ rank' = [rank EXCEPT ![cur] = left]
    BY <1>6 DEF WriteNext, WriteLast
  <2>2. \A c \in Allocated : rank'[c] = IF c = cur THEN left ELSE rank[c]
    BY <2>1, TypeFacts, ChunkFacts
  <2>3. Allocated' = Allocated
    BY <2>1 DEF Allocated
  <2> QED
    BY <1>1, <1>2, <1>4, <1>5, <2>1, <2>2, <2>3
<1>7. CASE WriteNextPage \/ WriteLastPage
  <2>1. fileEnd' = fileEnd + ChunksPerPage /\ rank' = PageRanks([rank EXCEPT ![cur] = left])
    BY <1>7 DEF WriteNextPage, WriteLastPage, AllocPage
  <2>0. fileEnd' \in Nat /\ fileEnd <= fileEnd'
    BY <1>5, <2>1
  <2>2. \A c \in Allocated : c \in Chunks /\ c \notin NewPage
    BY <1>5, TypeFacts DEF Allocated, Chunks, NewPage
  <2>3. \A c \in Allocated : rank'[c] = IF c = cur THEN left ELSE rank[c]
    BY <2>1, <2>2, TypeFacts DEF PageRanks
  <2>4. ASSUME NEW c \in Allocated', owner'[c] # 0 PROVE c \in Allocated
    <3>1. fileEnd' <= MaxFile
      BY <1>1, <1>5, <1>7, <2>1, FullList DEF WriteNextPage, WriteLastPage
    <3>2. c \in Chunks
      BY <1>5, <2>0, <3>1, TypeFacts DEF Allocated, Chunks
    <3>3. c \notin Allocated => owner[c] = 0 /\ c # cur
      BY <1>2, <3>2 DEF IInv, Pages, Free
    <3> QED
      BY <1>3, <2>4, <3>2, <3>3, TypeFacts
  <2> QED
    BY <1>1, <1>2, <1>4, <2>0, <2>3, <2>4
<1> QED
  BY <1>6, <1>7

LEMMA InitBatch == Init => Batch
BY DEF Init, Batch

LEMMA NextBatch ==
  ASSUME IInv, IInv', Batch, [Next]_vars
  PROVE  Batch'
<1>1. CASE WriteNext \/ WriteNextPage
  <2>1. pc' = "write" /\ val' = val /\ mark' = mark
    BY <1>1 DEF WriteNext, WriteNextPage, Claim
  <2>2. \A c \in Allocated : owner[c] = mark => data[c] = <<val, rank[c]>>
    BY <1>1, WriteStep DEF Batch
  <2>3. \A c \in Allocated' : owner'[c] = mark => data'[c] = <<val, rank'[c]>>
    <3>1. mark # 0
      BY <1>1, WriteStep, ChunkFacts
    <3> QED
      BY <1>1, <2>2, <3>1, WriteStep
  <2> QED
    BY <2>1, <2>3 DEF Batch
<1>2. CASE \E l \in Lists, n \in 1 .. MaxLen, v \in Values : WriteBegin(l, n, v)
  <2>1. PICK l \in Lists, n \in 1 .. MaxLen, v \in Values : WriteBegin(l, n, v)
    BY <1>2
  <2>2. /\ pc = "idle" /\ pc' = "write" /\ mark' = firstFree[l]
        /\ UNCHANGED <<fileEnd, firstFree, owner>>
    BY <2>1 DEF WriteBegin, file, ghosts
  <2>3. firstFree[l] \in Allocated /\ Free(firstFree[l])
    BY <2>2, IdleShape DEF IInv, FreeTops, Open
  <2>4. firstFree[l] # 0 /\ firstFree[l] \notin Structures
    BY <2>2, <2>3, HeldIsUsed, IdleShape, ChunkFacts DEF Free, Used
  <2>5. \A c \in Allocated : owner[c] # firstFree[l]
    BY <2>4 DEF IInv, UsedLinks, UsedLink, Used
  <2> QED
    BY <2>2, <2>5 DEF Batch, Allocated
<1>3. CASE \E p \in Chunks, v \in Values : RewriteBegin(p, v)
  <2>1. PICK p \in Chunks, v \in Values : RewriteBegin(p, v)
    BY <1>3
  <2>2. /\ p \in held /\ pc' = "rewrite" /\ mark' = p /\ left' = rank[p]
        /\ UNCHANGED <<fileEnd, owner, rank>>
    BY <2>1 DEF RewriteBegin, file, ghosts
  <2>3. \A c \in Allocated : owner[c] = p => rank[c] <= rank[p]
    BY <2>2, HeldFacts DEF IInv, UsedLinks, UsedLink, Used
  <2>4. \A c \in Allocated : owner[c] = p => ~(rank[p] < rank[c])
    BY <2>2, <2>3, HeldFacts, ChunkFacts
  <2> QED
    BY <2>2, <2>4 DEF Batch, Allocated
<1>4. CASE RewriteNext
  <2>1. /\ pc = "rewrite" /\ pc' = "rewrite" /\ left' = left - 1
        /\ data' = [data EXCEPT ![cur] = <<val, left>>]
        /\ UNCHANGED <<fileEnd, val, mark, owner, rank>>
    BY <1>4 DEF RewriteNext, ghosts
  <2>2. cur \in Allocated /\ owner[cur] = mark /\ rank[cur] = left /\ mark \in held
    BY <2>1 DEF IInv, RewriteCall
  <2>3. \A c \in Allocated : data'[c] = IF c = cur THEN <<val, left>> ELSE data[c]
    BY <2>1, <2>2, ChunkFacts DEF IInv, TypeOK
  <2>4. ASSUME NEW c \in Allocated, owner[c] = mark, left - 1 < rank[c]
        PROVE  data'[c] = <<val, rank[c]>>
    <3>1. CASE rank[c] = left
      <4>1. c = cur
        BY <2>2, <2>4, <3>1, HeldFacts DEF IInv, UsedRanks, Used
      <4> QED
        BY <2>2, <2>3, <4>1
    <3>2. CASE rank[c] # left
      <4>1. left < rank[c] /\ c # cur
        BY <2>2, <2>4, <3>2, ChunkFacts
      <4>2. data[c] = <<val, rank[c]>>
        BY <2>1, <2>4, <4>1 DEF Batch
      <4> QED
        BY <2>3, <4>1, <4>2
    <3> QED
      BY <3>1, <3>2
  <2> QED
    BY <2>1, <2>4 DEF Batch, Allocated
<1>5. CASE UNCHANGED vars
  <2>1. UNCHANGED <<fileEnd, data, pc, left, mark, val, owner, rank>>
    BY <1>5 DEF vars, file, locals, ghosts
  <2> QED
    BY <2>1 DEF Batch, Allocated
<1>6. CASE pc' \notin {"write", "rewrite"}
  BY <1>6 DEF Batch
<1>7. ASSUME Next
      PROVE  \/ WriteNext \/ WriteNextPage \/ RewriteNext \/ pc' \notin {"write", "rewrite"}
             \/ \E l \in Lists, n \in 1 .. MaxLen, v \in Values : WriteBegin(l, n, v)
             \/ \E p \in Chunks, v \in Values : RewriteBegin(p, v)
  BY <1>7 DEF Next, Step, InitPage, WriteLast, WriteLastPage, FreeNext, FreeLast, RewriteLast,
     FreeBegin, Return
<1> QED
  BY <1>1, <1>2, <1>3, <1>4, <1>5, <1>6, <1>7

-----------------------------------------------------------------------------
(* The store implements ChunkHeap.                                         *)

LEMMA HeapIs == Heap = [p \in held |-> Entry(p)]
BY DEF Heap, Entry

\* The entries of the structures a step leaves alone do not change.
LEMMA SameEntry ==
  ASSUME IInv, IInv', ReadForm', NEW p, p \in held, p \in held',
         fileEnd <= fileEnd',
         \A c \in Allocated : owner[c] = p =>
           owner'[c] = p /\ rank'[c] = rank[c] /\ data'[c] = data[c],
         ~(pc = "rewrite" /\ mark = p), ~(pc' = "rewrite" /\ mark' = p)
  PROVE  Entry(p)' = Entry(p)
BY SameRead DEF Entry

\* InitPage, the beginning of a write, and the inner steps of every loop are
\* not seen.
LEMMA InnerStep ==
  ASSUME IInv, IInv', ReadForm', Batch,
         \/ InitPage \/ WriteNext \/ WriteNextPage \/ FreeNext \/ FreeLast
         \/ RewriteNext \/ RewriteLast
         \/ \E l \in Lists, n \in 1 .. MaxLen, v \in Values : WriteBegin(l, n, v)
  PROVE  Heap' = Heap
<1>0. fileEnd \in Nat /\ held' = held
  BY TypeFacts DEF InitPage, WriteNext, WriteNextPage, FreeNext, FreeLast, RewriteNext,
     RewriteLast, WriteBegin, ghosts
<1> SUFFICES ASSUME NEW p \in held PROVE Entry(p)' = Entry(p)
  <2> USE DEF Heap
  <2>1. Heap' = [p \in held |-> Entry(p)']
    BY <1>0 DEF Entry
  <2> QED
    BY <2>1, HeapIs
<1>p. p \in Allocated /\ owner[p] = p /\ p # 0 /\ rank[p] \in Nat /\ p \in held'
  BY <1>0, HeldFacts
<1>1. CASE InitPage
  BY <1>1, <1>p DEF InitPage, IInv, InitCall
<1>2. CASE WriteNext \/ WriteNextPage
  <2>1. pc = "write" /\ pc' = "write"
    BY <1>2 DEF WriteNext, WriteNextPage
  <2>2. \A c \in Allocated : owner[c] = p => c # cur
    BY <1>2, <1>p, WriteStep DEF Free
  <2> QED
    BY <1>2, <1>p, <2>1, <2>2, SameEntry, WriteStep
<1>3. CASE FreeNext
  <2>1. /\ pc = "free" /\ pc' = "free" /\ cur # 0 /\ fileEnd' = fileEnd
        /\ data' = [data EXCEPT ![cur] = Zero]
        /\ owner' = [owner EXCEPT ![cur] = 0]
        /\ rank' = [rank EXCEPT ![cur] = rank[cur] + rank[mark]]
    BY <1>3 DEF FreeNext
  <2>2. owner[cur] = firstFree[lst] /\ firstFree[lst] \notin held
    BY <2>1 DEF IInv, UsedTops, FreeCall, Structures, FirstOf
  <2>3. \A c \in Allocated : owner[c] = p => c # cur
    BY <2>2
  <2>4. \A c \in Allocated : owner[c] = p =>
          owner'[c] = p /\ rank'[c] = rank[c] /\ data'[c] = data[c]
    BY <2>1, <2>3, TypeFacts, ChunkFacts DEF IInv, TypeOK
  <2> QED
    BY <1>0, <1>p, <2>1, <2>4, SameEntry
<1>4. CASE FreeLast
  <2>1. pc = "free" /\ pc' = "idle" /\ UNCHANGED <<fileEnd, data, owner, rank>>
    BY <1>4 DEF FreeLast, Return, ghosts
  <2> QED
    BY <1>0, <1>p, <2>1, SameEntry
<1>5. CASE RewriteNext \/ RewriteLast
  <2>1. /\ pc = "rewrite" /\ data' = [data EXCEPT ![cur] = <<val, left>>]
        /\ UNCHANGED <<fileEnd, owner, rank>>
    BY <1>5 DEF RewriteNext, RewriteLast, ghosts
  <2>2. cur \in Allocated /\ owner[cur] = mark /\ rank[cur] = left /\ mark \in held
    BY <2>1 DEF IInv, RewriteCall
  <2>3. \A c \in Allocated : data'[c] = IF c = cur THEN <<val, left>> ELSE data[c]
    BY <2>1, <2>2, ChunkFacts DEF IInv, TypeOK
  <2>4. CASE p # mark
    <3>1. \A c \in Allocated : owner[c] = p => c # cur
      BY <2>2, <2>4
    <3>2. ~(pc' = "rewrite" /\ mark' = p)
      BY <1>5, <2>4 DEF RewriteNext, RewriteLast, Return
    <3>3. \A c \in Allocated : owner[c] = p =>
            owner'[c] = p /\ rank'[c] = rank[c] /\ data'[c] = data[c]
      BY <2>1, <2>3, <3>1
    <3> QED
      BY <1>0, <1>p, <2>1, <2>4, <3>2, <3>3, SameEntry
  <2>5. CASE p = mark /\ RewriteNext
    BY <2>1, <2>5 DEF RewriteNext, Entry, Pieces
  <2>6. CASE p = mark /\ RewriteLast
    <3>1. left = 1 /\ pc' = "idle"
      BY <2>6 DEF RewriteLast, Return
    <3>2. \A c \in Allocated : owner[c] = p => 1 <= rank[c] /\ rank[c] \in Nat
      BY <1>p, ChunkFacts DEF IInv, UsedLinks, UsedLink, Used
    <3>3. ASSUME NEW c \in Allocated, owner[c] = p PROVE data'[c] = <<val, rank[c]>>
      <4>1. CASE rank[c] = 1
        <5>1. c = cur
          BY <1>p, <2>2, <2>6, <3>1, <3>3, <4>1 DEF IInv, UsedRanks, Used
        <5> QED
          BY <2>3, <3>1, <4>1, <5>1
      <4>2. CASE rank[c] # 1
        <5>1. left < rank[c] /\ c # cur
          BY <2>2, <3>1, <3>2, <3>3, <4>2
        <5>2. data[c] = <<val, rank[c]>>
          BY <2>1, <2>6, <3>3, <5>1 DEF Batch
        <5> QED
          BY <2>3, <5>1, <5>2
      <4> QED
        BY <4>1, <4>2
    <3>4. Reads(p)'
      BY <1>p DEF ReadForm
    <3>5. \A k \in 1 .. rank[p] : ReadStruct(p)'[k] = <<val, rank[p] + 1 - k>>
      BY <2>1, <3>3, <3>4 DEF Reads, Allocated
    <3>6. ReadStruct(p)' = [k \in 1 .. rank[p] |-> ReadStruct(p)'[k]]
      BY <2>1, <3>4 DEF Reads
    <3>7. ReadStruct(p)' = Pieces(val, rank[p])
      BY <3>5, <3>6 DEF Pieces
    <3> QED
      BY <2>1, <2>6, <3>1, <3>7 DEF Entry
  <2> QED
    BY <1>5, <2>4, <2>5, <2>6
<1>6. CASE \E l \in Lists, n \in 1 .. MaxLen, v \in Values : WriteBegin(l, n, v)
  <2>1. pc = "idle" /\ pc' = "write" /\ UNCHANGED <<fileEnd, data, owner, rank>>
    BY <1>6 DEF WriteBegin, file, ghosts
  <2> QED
    BY <1>0, <1>p, <2>1, SameEntry
<1> QED
  BY <1>1, <1>2, <1>3, <1>4, <1>5, <1>6

\* WriteBytesBatch returns: a structure appears, whole, where there was none.
LEMMA WriteAppears ==
  ASSUME IInv, IInv', ReadForm', Batch, NEW m, m = mark, NEW v, v = val, WriteLast \/ WriteLastPage
  PROVE  \E n \in 1 .. MaxLen : HeapOfFile!Write(m, v, n)
<1>1. pc = "write" /\ pc' = "idle" /\ held' = held \cup {m}
  BY DEF WriteLast, WriteLastPage, Return
<1>2. m \notin held /\ m \in Allocated /\ m # 0 /\ left = 1
  BY <1>1, ChunkFacts DEF IInv, WriteCall, WriteLast, WriteLastPage
<1>3. ASSUME NEW p \in held PROVE Entry(p)' = Entry(p)
  <2>1. p # 0 /\ p \in held' /\ p # m
    BY <1>1, <1>2, <1>3, HeldFacts
  <2>2. \A c \in Allocated : owner[c] = p => c # cur
    BY <2>1, WriteStep DEF Free
  <2> QED
    BY <1>1, <2>1, <2>2, SameEntry, WriteStep
<1>4. \A c \in Allocated' : owner'[c] = m => data'[c] = <<v, rank'[c]>>
  BY <1>1, <1>2, WriteStep DEF Batch
<1>5. rank'[m] \in 1 .. MaxLen
  <2>1. /\ FirstOf(m)' = m /\ m \in Allocated' /\ owner'[m] = m
        /\ rank'[m] \in Nat /\ 1 <= rank'[m] /\ rank'[m] <= MaxLen
    <3>1. m \in Structures' /\ FirstOf(m)' = m
      BY <1>1 DEF Structures, FirstOf
    <3>2. m \in Allocated' /\ owner'[m] = m
      BY <3>1 DEF IInv, UsedTops
    <3>3. UsedLink(m)'
      BY <1>2, <3>2 DEF IInv, UsedLinks, Used
    <3>4. m \in Chunks
      BY <1>2, ChunkFacts
    <3> QED
      BY <3>1, <3>2, <3>3, <3>4 DEF UsedLink, IInv, TypeOK
  <2> QED
    BY <2>1, TypeFacts
<1>6. ReadStruct(m)' = Pieces(v, rank'[m])
  <2>1. Reads(m)'
    BY <1>1 DEF ReadForm
  <2>2. \A k \in 1 .. rank'[m] : ReadStruct(m)'[k] = <<v, rank'[m] + 1 - k>>
    BY <1>4, <2>1 DEF Reads
  <2> QED
    BY <2>1, <2>2 DEF Reads, Pieces
<1>7. Heap' = [p \in held \cup {m} |-> IF p = m THEN Pieces(v, rank'[m]) ELSE Entry(p)]
  <2>1. Heap' = [p \in held \cup {m} |-> ReadStruct(p)']
    BY <1>1 DEF Heap
  <2>2. \A p \in held : ReadStruct(p)' = Entry(p)
    BY <1>1, <1>3 DEF Entry
  <2> QED
    BY <1>6, <2>1, <2>2
<1>8. DOMAIN Heap = held /\ \A p \in held : Heap[p] = Entry(p)
  BY HeapIs
<1>9. HeapOfFile!Write(m, v, rank'[m])
  BY <1>2, <1>7, <1>8 DEF HeapOfFile!Write, HeapOfFile!Live, HeapOfFile!Structure, Pieces
<1> QED
  BY <1>5, <1>9

\* FreeBytesBatch begins: the structure is gone, the others are as they were.
LEMMA FreeDisappears ==
  ASSUME IInv, IInv', ReadForm', NEW p \in Chunks, FreeBegin(p)
  PROVE  HeapOfFile!Free(p)
<1>1. /\ pc = "idle" /\ pc' = "free" /\ p \in held /\ held' = held \ {p}
      /\ UNCHANGED <<fileEnd, data, owner, rank>>
  BY DEF FreeBegin
<1>2. \A q \in held' : Entry(q)' = Entry(q)
  BY <1>1, SameEntry, TypeFacts
<1>3. Heap' = [q \in held \ {p} |-> Entry(q)]
  <2>1. Heap' = [q \in held \ {p} |-> Entry(q)']
    BY <1>1 DEF Heap, Entry
  <2> QED
    BY <1>1, <1>2, <2>1
<1>4. DOMAIN Heap = held /\ \A q \in held : Heap[q] = Entry(q)
  BY HeapIs
<1> QED
  BY <1>1, <1>3, <1>4 DEF HeapOfFile!Free, HeapOfFile!Live

\* RewriteBytesBatch begins: the structure says the new value in as many
\* chunks, the others are as they were.
LEMMA RewriteChanges ==
  ASSUME IInv, IInv', ReadForm', NEW p \in Chunks, NEW v \in Values, RewriteBegin(p, v)
  PROVE  HeapOfFile!Rewrite(p, v)
<1>1. /\ pc = "idle" /\ pc' = "rewrite" /\ p \in held /\ held' = held /\ mark' = p /\ val' = v
      /\ UNCHANGED <<fileEnd, data, owner, rank>>
  BY DEF RewriteBegin, file, ghosts
<1>2. \A q \in held : q # p => Entry(q)' = Entry(q)
  BY <1>1, SameEntry, TypeFacts
<1>3. Entry(p)' = Pieces(v, rank[p])
  BY <1>1 DEF Entry, Pieces
<1>4. Heap' = [q \in held |-> IF q = p THEN Pieces(v, rank[p]) ELSE Entry(q)]
  <2>1. Heap' = [q \in held |-> Entry(q)']
    BY <1>1 DEF Heap, Entry
  <2> QED
    BY <1>2, <1>3, <2>1
<1>5. Heap = [q \in held |-> Entry(q)]
  BY HeapIs
<1>6. Len(Heap[p]) = rank[p]
  <2>1. Reads(p) /\ rank[p] \in Nat
    BY <1>1, ReadHeld, HeldFacts DEF ReadForm
  <2>2. Heap[p] = ReadStruct(p)
    BY <1>1, <1>5 DEF Entry
  <2>3. DOMAIN ReadStruct(p) = 1 .. rank[p]
    BY <2>1 DEF Reads
  <2> HIDE DEF ReadStruct
  <2>4. \E s : s = ReadStruct(p)
    OBVIOUS
  <2> QED
    BY <2>1, <2>2, <2>3 DEF Reads
<1>7. HeapOfFile!Structure(v, Len(Heap[p])) = Pieces(v, rank[p])
  BY <1>6 DEF HeapOfFile!Structure, Pieces
<1>8. Heap' = [Heap EXCEPT ![p] = Pieces(v, rank[p])]
  BY <1>1, <1>4, <1>5
<1> QED
  BY <1>1, <1>5, <1>7, <1>8 DEF HeapOfFile!Rewrite, HeapOfFile!Live

LEMMA NextHeap ==
  ASSUME IInv, IInv', ReadForm', Batch, [Next]_vars
  PROVE  [HeapOfFile!Next]_Heap
<1>1. CASE \/ InitPage \/ WriteNext \/ WriteNextPage \/ FreeNext \/ FreeLast
           \/ RewriteNext \/ RewriteLast
           \/ \E l \in Lists, n \in 1 .. MaxLen, v \in Values : WriteBegin(l, n, v)
  BY <1>1, InnerStep
<1>2. CASE WriteLast \/ WriteLastPage
  <2> PICK m, v : m = mark /\ v = val
    OBVIOUS
  <2>1. m \in Chunks /\ v \in Values
    BY <1>2, WriteStep, ChunkFacts
  <2> QED
    BY <1>2, <2>1, WriteAppears DEF HeapOfFile!Next
<1>3. CASE \E p \in Chunks : FreeBegin(p)
  BY <1>3, FreeDisappears DEF HeapOfFile!Next
<1>4. CASE \E p \in Chunks, v \in Values : RewriteBegin(p, v)
  BY <1>4, RewriteChanges DEF HeapOfFile!Next
<1>5. CASE UNCHANGED vars
  <2>1. UNCHANGED <<fileEnd, data, nxt, pc, mark, val, held, rank>>
    BY <1>5 DEF vars, file, locals, ghosts
  <2> QED
    BY <2>1 DEF Heap, ReadStruct, Walk, Allocated, Pieces
<1> QED
  BY <1>1, <1>2, <1>3, <1>4, <1>5 DEF Next, Step

\* A structure written is read back as it was written last until it is freed,
\* whatever calls on other structures do in between: the file, its pages and
\* its free lists implement the heap of ChunkHeap.
THEOREM StoreImplementsHeap == Spec => ImplementsHeap
<1>1. Init => HeapOfFile!Init
  <2> SUFFICES ASSUME Init PROVE Heap = [p \in {} |-> <<>>]
    BY DEF HeapOfFile!Init
  <2>1. held = {}
    BY DEF Init
  <2> QED
    BY <2>1 DEF Heap
<1>2. IInv /\ IInv' /\ ReadForm' /\ Batch /\ [Next]_vars => [HeapOfFile!Next]_Heap
  BY NextHeap
<1>3. IInv /\ IInv' /\ Batch /\ [Next]_vars => Batch'
  BY NextBatch
<1>4. []ReadForm
  BY ReadHeld, PTL
<1>5. Spec => []Batch
  BY <1>3, InitBatch, Invariant, PTL DEF Spec
<1> QED
  BY <1>1, <1>2, <1>4, <1>5, Invariant, PTL DEF Spec, ImplementsHeap, HeapOfFile!Spec
=============================================================================
