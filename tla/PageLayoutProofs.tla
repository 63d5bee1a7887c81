--------------------------- MODULE PageLayoutProofs ---------------------------
(***************************************************************************)
(* For every size of header, page and chunk: links, heads and ids are      *)
(* positions of chunks, ValidateElementByPtr accepts every live id, the    *)
(* links of the free list and of every element meet exactly their chunks,  *)
(* and of the free chunks all but the last are refused.                    *)
(*                                                                         *)
(* The strengthening: the free list is a thread, a sequence of distinct    *)
(* positions whose negated links lead from one to the next (Threaded);     *)
(* every element is such a sequence of the chunks it owns, to a link 0     *)
(* (Chained), and so is what has been written of the one under way, to the *)
(* chunk that is taken next (Open); an owner is an element or is going to  *)
(* be one (Owned).                                                         *)
(***************************************************************************)
EXTENDS PageLayout, WalkProofs

\* s walks the free list: from the head along the links to the chunk with link
\* 0, meeting the chunks that are not in use, each once.
Thread(n, s) ==
  /\ n \in Nat \ {0} /\ s \in [1 .. n -> Elements]
  /\ \A j, k \in 1 .. n : s[j] = s[k] => j = k
  /\ s[1] = free /\ link[s[n]] = 0
  /\ \A k \in 1 .. n - 1 : link[s[k]] = -s[k + 1]
  /\ \A x \in Elements : x \notin Used <=> \E k \in 1 .. n : s[k] = x

Threaded == \E n, s : Thread(n, s)

\* c walks the m chunks that p owns, along the links.
Pieces(p, m, c) ==
  /\ m \in Nat /\ c \in [1 .. m -> Used]
  /\ \A j, k \in 1 .. m : c[j] = c[k] => j = k
  /\ \A k \in 1 .. m - 1 : link[c[k]] = c[k + 1]
  /\ \A x \in Used : owner[x] = p <=> \E k \in 1 .. m : c[k] = x

Chain(p, m, c) == Pieces(p, m, c) /\ m # 0 /\ c[1] = p /\ link[c[m]] = 0

Chained == \A p \in ids : \E m, c : Chain(p, m, c)

Begun(m, c) ==
  /\ Pieces(start, m, c)
  /\ m = 0 => start = free
  /\ m # 0 => c[1] = start /\ link[c[m]] = free

Open == ~Idle => start \in Elements /\ start \notin ids /\ \E m, c : Begun(m, c)

Owned == \A x \in Used : owner[x] \in ids \/ (~Idle /\ owner[x] = start)

IInv == TypeOK /\ Threaded /\ Chained /\ Open /\ Owned

-----------------------------------------------------------------------------
(* Arithmetic of positions.                                                *)

\* Sizes of pages are positive, and n pages end where page n begins.
LEMMA PageSizes ==
  /\ PageSize \in Nat /\ PageSize > 0
  /\ ChunksPerPage * ChunkSize \in Nat
  /\ \A n \in Nat : PageAt(n) \in Nat /\ PageAt(n + 1) = PageAt(n) + PageSize
  /\ \A n \in Nat : PageAt(n) >= HeaderSize
<1>1. ChunksPerPage * ChunkSize \in Nat /\ PageSize \in Nat /\ PageSize > 0
  BY SizesAssumption DEF PageSize
<1>2. ASSUME NEW n \in Nat
      PROVE  PageAt(n) \in Nat /\ PageAt(n) >= HeaderSize /\ PageAt(n + 1) = PageAt(n) + PageSize
  <2>1. (n + 1) * PageSize = n * PageSize + PageSize
    BY <1>1
  <2>2. n * PageSize \in Nat
    BY <1>1
  <2> QED
    BY <1>1, <2>1, <2>2, SizesAssumption DEF PageAt
<1> QED
  BY <1>1, <1>2

\* An earlier page ends before a later one begins.
LEMMA PagesApart ==
  ASSUME NEW k \in Nat, NEW n \in Nat, k < n
  PROVE  PageAt(k) + PageSize <= PageAt(n)
<1>1. (k + 1) * PageSize <= n * PageSize
  BY PageSizes
<1>2. PageAt(k + 1) <= PageAt(n)
  <2>1. (k + 1) * PageSize \in Nat /\ n * PageSize \in Nat
    BY PageSizes
  <2> QED
    BY <1>1, <2>1, SizesAssumption DEF PageAt
<1> QED
  BY <1>2, PageSizes

\* A chunk lies inside its page, behind the page's header.
LEMMA ChunkInPage ==
  ASSUME NEW page \in Nat, NEW x \in ChunksAt(page)
  PROVE  /\ x \in Nat /\ page < x /\ x + ChunkSize <= page + PageSize
         /\ x + ChunkSize = page + PageSize \/ x + ChunkSize \in ChunksAt(page)
<1>1. PICK i \in 0 .. ChunksPerPage - 1 : x = page + PageHeaderSize + i * ChunkSize
  BY DEF ChunksAt
<1>2. i * ChunkSize \in Nat /\ (i + 1) * ChunkSize = i * ChunkSize + ChunkSize
  BY <1>1, SizesAssumption
<1>3. (i + 1) * ChunkSize <= ChunksPerPage * ChunkSize
  BY <1>1, SizesAssumption
<1>4. x \in Nat /\ page < x /\ x + ChunkSize <= page + PageSize
  BY <1>1, <1>2, <1>3, PageSizes, SizesAssumption DEF PageSize
<1>5. CASE i + 1 = ChunksPerPage
  BY <1>1, <1>2, <1>5, PageSizes, SizesAssumption DEF PageSize
<1>6. CASE i + 1 # ChunksPerPage
  <2>1. i + 1 \in 0 .. ChunksPerPage - 1
    BY <1>6, SizesAssumption
  <2>2. x + ChunkSize = page + PageHeaderSize + (i + 1) * ChunkSize
    BY <1>1, <1>2, SizesAssumption
  <2>3. x + ChunkSize \in ChunksAt(page)
    BY <2>1, <2>2 DEF ChunksAt
  <2> QED
    BY <1>4, <2>3
<1> QED
  BY <1>4, <1>5, <1>6

\* The remainder of a division by P is found back from multiple and remainder.
LEMMA Remainder ==
  ASSUME NEW P \in Nat, P > 0, NEW k \in Nat, NEW r \in Nat, r < P
  PROVE  (k * P + r) % P = r
<1> DEFINE x == k * P + r
           q == x \div P
<1>1. k * P \in Nat /\ x \in Nat
  OBVIOUS
<1>2. q \in Nat /\ x % P \in Nat /\ x % P < P /\ x = P * q + (x % P)
  BY <1>1
<1> HIDE DEF q
<1>3. k = q
  <2>1. P * q \in Nat
    BY <1>2
  <2>2. CASE k < q
    <3>1. P * (k + 1) <= P * q
      BY <1>2, <2>2
    <3>2. P * (k + 1) = k * P + P
      OBVIOUS
    <3> QED
      BY <1>1, <1>2, <2>1, <3>1, <3>2
  <2>3. CASE q < k
    <3>1. P * (q + 1) <= P * k
      BY <1>2, <2>3
    <3>2. P * (q + 1) = P * q + P /\ P * k = k * P
      BY <1>2
    <3> QED
      BY <1>1, <1>2, <2>1, <3>1, <3>2
  <2> QED
    BY <1>2, <2>2, <2>3
<1>4. P * q = k * P
  BY <1>3
<1> QED
  BY <1>1, <1>2, <1>4

\* ValidateElementByPtr computes the page of any position inside it.
LEMMA PageFound ==
  ASSUME NEW k \in Nat, NEW x \in Nat, PageAt(k) <= x, x < PageAt(k) + PageSize
  PROVE  PageOf(x) = PageAt(k)
<1> DEFINE r == x - PageAt(k)
<1>1. r \in Nat /\ r < PageSize
  BY PageSizes
<1>2. x - HeaderSize = k * PageSize + r
  <2>1. k * PageSize \in Nat
    BY PageSizes
  <2> QED
    BY <2>1, SizesAssumption DEF PageAt
<1>3. (x - HeaderSize) % PageSize = r
  BY <1>1, <1>2, Remainder, PageSizes
<1> QED
  BY <1>3, PageSizes DEF PageOf

\* Two pages share no chunk.
LEMMA ChunksApart ==
  ASSUME NEW k \in Nat, NEW n \in Nat, k < n
  PROVE  ChunksAt(PageAt(k)) \cap ChunksAt(PageAt(n)) = {}
<1> SUFFICES ASSUME NEW x \in ChunksAt(PageAt(k)), x \in ChunksAt(PageAt(n)) PROVE FALSE
  OBVIOUS
<1>1. x + ChunkSize <= PageAt(k) + PageSize /\ PageAt(n) < x /\ x \in Nat
  BY ChunkInPage, PageSizes
<1> QED
  BY <1>1, PagesApart, PageSizes, SizesAssumption

-----------------------------------------------------------------------------
(* The pages of the file.                                                  *)

\* A chunk of an elements' page lies in one of the pages of the file.
LEMMA ElementsInPages ==
  ASSUME TypeOK, NEW x \in Elements
  PROVE  /\ x \in DOMAIN link /\ x \in Nat
         /\ \E k \in DOMAIN markers : markers[k] = "elements" /\ x \in ChunksAt(PageAt(k - 1))
<1>1. PICK k \in DOMAIN markers : markers[k] = "elements" /\ x \in ChunksAt(PageAt(k - 1))
  BY DEF Elements
<1>2. k - 1 \in 0 .. Len(markers) - 1 /\ k - 1 \in Nat
  BY <1>1 DEF TypeOK
<1>3. x \in Chunks(Len(markers))
  BY <1>1, <1>2 DEF Chunks
<1>4. x \in Nat
  BY <1>1, <1>2, ChunkInPage, PageSizes
<1> QED
  BY <1>1, <1>3, <1>4 DEF TypeOK

\* A page appended to the file has chunks of its own, and they are behind it.
LEMMA NewPageFresh ==
  ASSUME TypeOK
  PROVE  /\ ChunksAt(fileEnd) \cap Chunks(Len(markers)) = {}
         /\ Chunks(Len(markers) + 1) = Chunks(Len(markers)) \cup ChunksAt(fileEnd)
         /\ fileEnd + PageSize = PageAt(Len(markers) + 1)
<1>1. Len(markers) \in Nat /\ fileEnd = PageAt(Len(markers))
  BY DEF TypeOK
<1>2. ASSUME NEW k \in 0 .. Len(markers) - 1
      PROVE  ChunksAt(fileEnd) \cap ChunksAt(PageAt(k)) = {}
  BY <1>1, <1>2, ChunksApart
<1>3. ChunksAt(fileEnd) \cap Chunks(Len(markers)) = {}
  BY <1>2 DEF Chunks
<1>4. 0 .. (Len(markers) + 1) - 1 = (0 .. Len(markers) - 1) \cup {Len(markers)}
  BY <1>1
<1>5. Chunks(Len(markers) + 1) = Chunks(Len(markers)) \cup ChunksAt(fileEnd)
  BY <1>1, <1>4 DEF Chunks
<1> QED
  BY <1>1, <1>3, <1>5, PageSizes

\* The first chunk of a page is one of its chunks.
LEMMA FirstChunk ==
  ASSUME NEW page \in Nat
  PROVE  page + PageHeaderSize \in ChunksAt(page)
<1>1. 0 \in 0 .. ChunksPerPage - 1 /\ page + PageHeaderSize + 0 * ChunkSize = page + PageHeaderSize
  BY SizesAssumption
<1> QED
  BY <1>1 DEF ChunksAt

\* A link that AllocPage computes ends the page or leads to the next chunk in it.
LEMMA NewLinkInPage ==
  ASSUME NEW page \in Nat, NEW x \in ChunksAt(page)
  PROVE  NewLink(page, x) \in Int
         /\ (NewLink(page, x) = 0 \/ -NewLink(page, x) \in ChunksAt(page))
<1>1. x \in Nat /\ (x + ChunkSize = page + PageSize \/ x + ChunkSize \in ChunksAt(page))
  BY ChunkInPage
<1>2. CASE x + ChunkSize = page + PageSize
  BY <1>2 DEF NewLink
<1>3. CASE x + ChunkSize # page + PageSize
  <2>1. NewLink(page, x) = -(x + ChunkSize)
    BY <1>3 DEF NewLink
  <2>2. -NewLink(page, x) = x + ChunkSize /\ NewLink(page, x) \in Int
    BY <1>1, <2>1, SizesAssumption
  <2> QED
    BY <1>1, <1>3, <2>2
<1> QED
  BY <1>2, <1>3

-----------------------------------------------------------------------------
\* Init makes three pages, one per list.
LEMMA InitTypeOK == Init => TypeOK
<1> SUFFICES ASSUME Init PROVE TypeOK
  OBVIOUS
<1> USE DEF Init
<1> DEFINE pages == {PageAt(k) : k \in 0 .. 2}
           pageOf(x) == CHOOSE page \in pages : x \in ChunksAt(page)
<1>1. /\ markers \in Seq({"schemas", "elements", "strings"}) /\ Len(markers) = 3
      /\ DOMAIN markers = {1, 2, 3} /\ markers[2] = "elements"
      /\ markers[1] # "elements" /\ markers[3] # "elements"
  OBVIOUS
<1>2. ASSUME NEW x \in Chunks(3)
      PROVE  pageOf(x) \in pages /\ x \in ChunksAt(pageOf(x)) /\ pageOf(x) \in Nat
  <2>1. \E page \in pages : x \in ChunksAt(page)
    BY DEF Chunks
  <2>2. pageOf(x) \in pages /\ x \in ChunksAt(pageOf(x))
    BY <2>1
  <2>3. pages \subseteq Nat
    <3>1. ASSUME NEW k \in 0 .. 2 PROVE PageAt(k) \in Nat
      <4>1. k \in Nat
        OBVIOUS
      <4> QED
        BY <4>1, PageSizes
    <3> QED
      BY <3>1
  <2> QED
    BY <2>2, <2>3
<1>3. link = [x \in Chunks(3) |-> NewLink(pageOf(x), x)]
  OBVIOUS
<1> HIDE DEF pageOf
<1>4. link \in [Chunks(3) -> Int]
  BY <1>2, <1>3, NewLinkInPage
<1>5. Elements = ChunksAt(PageAt(1))
  <2>1. {j \in DOMAIN markers : markers[j] = "elements"} = {2}
    BY <1>1
  <2> QED
    BY <2>1 DEF Elements
<1>6. free \in Elements
  BY <1>5, FirstChunk, PageSizes
<1>8. owner \in [Used -> Elements] /\ Used = {} /\ rest \in 0 .. MaxLen
  BY SizesAssumption DEF Used
<1> QED
  BY <1>1, <1>4, <1>6, <1>8 DEF TypeOK

\* What appending a page does to the pages, whichever links they have.
LEMMA PageAppended ==
  ASSUME TypeOK, NEW marker \in {"schemas", "elements", "strings"},
         NEW links \in [DOMAIN link -> Int], AppendPage(marker, links)
  PROVE  /\ markers' \in Seq({"schemas", "elements", "strings"})
         /\ fileEnd' = PageAt(Len(markers'))
         /\ link' \in [Chunks(Len(markers')) -> Int]
         /\ \A x \in DOMAIN link : link'[x] = links[x]
         /\ \A x \in ChunksAt(fileEnd) : link'[x] = NewLink(fileEnd, x)
         /\ Elements' = IF marker = "elements" THEN Elements \cup ChunksAt(fileEnd) ELSE Elements
<1>1. /\ markers' = Append(markers, marker) /\ fileEnd' = fileEnd + PageSize
      /\ link' = [x \in DOMAIN link \cup ChunksAt(fileEnd) |->
                    IF x \in ChunksAt(fileEnd) THEN NewLink(fileEnd, x) ELSE links[x]]
  BY DEF AppendPage
<1>2. /\ markers' \in Seq({"schemas", "elements", "strings"}) /\ Len(markers') = Len(markers) + 1
      /\ \A j \in DOMAIN markers : markers'[j] = markers[j]
      /\ markers'[Len(markers) + 1] = marker /\ Len(markers) \in Nat
      /\ DOMAIN markers' = DOMAIN markers \cup {Len(markers) + 1}
  BY <1>1 DEF TypeOK
<1>3. DOMAIN link = Chunks(Len(markers)) /\ fileEnd = PageAt(Len(markers)) /\ fileEnd \in Nat
  BY PageSizes DEF TypeOK
<1>4. link' \in [Chunks(Len(markers')) -> Int]
  BY <1>1, <1>2, <1>3, NewPageFresh, NewLinkInPage
<1>5. Elements' = IF marker = "elements" THEN Elements \cup ChunksAt(fileEnd) ELSE Elements
  <2>1. (Len(markers) + 1) - 1 = Len(markers)
    BY <1>2
  <2>2. {j \in DOMAIN markers' : markers'[j] = "elements"} =
          {j \in DOMAIN markers : markers[j] = "elements"}
            \cup (IF marker = "elements" THEN {Len(markers) + 1} ELSE {})
    <3>1. Len(markers) + 1 \notin DOMAIN markers
      BY <1>2 DEF TypeOK
    <3> QED
      BY <1>2, <3>1
  <2>3. Elements' = UNION {ChunksAt(PageAt(k - 1)) : k \in {j \in DOMAIN markers' : markers'[j] = "elements"}}
    BY DEF Elements
  <2> QED
    BY <1>3, <2>1, <2>2, <2>3 DEF Elements
<1> QED
  BY <1>1, <1>2, <1>3, <1>4, <1>5, NewPageFresh

\* There are finitely many chunks, all of them before file_end.
LEMMA ChunksFinite ==
  ASSUME TypeOK
  PROVE  IsFiniteSet(DOMAIN link) /\ DOMAIN link \subseteq Nat
<1>1. Len(markers) \in Nat /\ fileEnd = PageAt(Len(markers)) /\ fileEnd \in Nat
  BY PageSizes DEF TypeOK
<1> DEFINE L == Len(markers)
<1>2. DOMAIN link = Chunks(L) /\ L \in Nat /\ fileEnd = PageAt(L)
  BY <1>1 DEF TypeOK
<1> HIDE DEF L
<1>3. ASSUME NEW x \in DOMAIN link PROVE x \in 0 .. fileEnd
  <2>1. PICK k \in 0 .. L - 1 : x \in ChunksAt(PageAt(k))
    BY <1>2 DEF Chunks
  <2>2. k \in Nat /\ k < L
    BY <1>2
  <2>3. PageAt(k) \in Nat /\ PageSize \in Nat
    BY <2>2, PageSizes
  <2>4. x \in Nat /\ x + ChunkSize <= PageAt(k) + PageSize
    BY <2>1, <2>3, ChunkInPage
  <2>5. PageAt(k) + PageSize <= fileEnd
    BY <1>2, <2>2, PagesApart
  <2>6. ChunkSize \in Nat
    BY SizesAssumption
  <2> QED
    BY <1>1, <2>4, <2>5, <2>3, <2>6
<1>4. IsFiniteSet(0 .. fileEnd)
  BY <1>1, FS_Interval
<1>5. DOMAIN link \in SUBSET (0 .. fileEnd)
  BY <1>3
<1>6. IsFiniteSet(DOMAIN link)
  BY <1>4, <1>5, FS_Subset
<1>7. DOMAIN link \subseteq Nat
  BY <1>1, <1>5
<1> QED
  BY <1>6, <1>7

-----------------------------------------------------------------------------
(* The free list, from its head to its last chunk.                         *)

\* A new page is linked from its first chunk to its last.
LEMMA PageThread ==
  ASSUME NEW page \in Nat
  PROVE  \E s :
         /\ s \in [1 .. ChunksPerPage -> ChunksAt(page)]
         /\ \A j, k \in 1 .. ChunksPerPage : s[j] = s[k] => j = k
         /\ s[1] = page + PageHeaderSize
         /\ NewLink(page, s[ChunksPerPage]) = 0
         /\ \A k \in 1 .. ChunksPerPage - 1 : NewLink(page, s[k]) = -s[k + 1]
         /\ \A x \in ChunksAt(page) : \E k \in 1 .. ChunksPerPage : s[k] = x
<1> DEFINE C == ChunksPerPage
           s == [k \in 1 .. C |-> page + PageHeaderSize + (k - 1) * ChunkSize]
<1>1. C \in Nat /\ C >= 1 /\ ChunkSize \in Nat /\ ChunkSize >= 1 /\ PageHeaderSize \in Nat
  BY SizesAssumption
<1>2. \A k \in 1 .. C : k - 1 \in 0 .. C - 1 /\ (k - 1) + 1 = k
  BY <1>1
<1>3. s \in [1 .. C -> ChunksAt(page)]
  BY <1>2 DEF ChunksAt
<1>4. ASSUME NEW x \in ChunksAt(page) PROVE \E k \in 1 .. C : s[k] = x
  <2>1. PICK i \in 0 .. C - 1 : x = page + PageHeaderSize + i * ChunkSize
    BY DEF ChunksAt
  <2>2. i + 1 \in 1 .. C /\ (i + 1) - 1 = i
    BY <1>1, <2>1
  <2> QED
    BY <2>1, <2>2
<1>5. ASSUME NEW k \in 1 .. C - 1
      PROVE  s[k] \in Nat /\ s[k + 1] = s[k] + ChunkSize
  <2>1. (k - 1) * ChunkSize \in Nat /\ ((k + 1) - 1) * ChunkSize = (k - 1) * ChunkSize + ChunkSize
    BY <1>1
  <2>2. k \in 1 .. C /\ k + 1 \in 1 .. C
    BY <1>1
  <2> QED
    BY <1>1, <2>1, <2>2
<1>6. ASSUME NEW j \in 1 .. C, NEW k \in 1 .. C, j < k PROVE s[j] < s[k] /\ s[j] \in Nat /\ s[k] \in Nat
  <2>1. (j - 1) * ChunkSize \in Nat /\ (k - 1) * ChunkSize \in Nat /\ (j - 1) * ChunkSize < (k - 1) * ChunkSize
    <3>1. j - 1 \in Nat /\ k - 1 \in Nat /\ k - j \in Nat /\ k - j >= 1
      BY <1>1, <1>6
    <3>2. (k - 1) * ChunkSize = (j - 1) * ChunkSize + (k - j) * ChunkSize /\ (j - 1) * ChunkSize \in Nat
      BY <1>1, <3>1
    <3>3. (k - j) * ChunkSize \in Nat /\ (k - j) * ChunkSize >= 1
      BY <1>1, <3>1
    <3> QED
      BY <3>2, <3>3
  <2> QED
    BY <1>1, <2>1
<1>7. ASSUME NEW j \in 1 .. C, NEW k \in 1 .. C, s[j] = s[k] PROVE j = k
  <2>1. ~(j < k) /\ ~(k < j)
    BY <1>6, <1>7
  <2> QED
    BY <2>1
<1>8. s[1] = page + PageHeaderSize
  BY <1>1
<1>9. s[C] \in Nat /\ s[C] + ChunkSize = page + PageSize
  <2>1. (C - 1) * ChunkSize \in Nat /\ C * ChunkSize = (C - 1) * ChunkSize + ChunkSize
    BY <1>1
  <2>2. s[C] = page + PageHeaderSize + (C - 1) * ChunkSize
    BY <1>1
  <2> QED
    BY <1>1, <2>1, <2>2 DEF PageSize
<1>10. NewLink(page, s[C]) = 0
  BY <1>9 DEF NewLink
<1>11. ASSUME NEW k \in 1 .. C - 1 PROVE NewLink(page, s[k]) = -s[k + 1]
  <2>1. s[k] + ChunkSize = s[k + 1]
    BY <1>5
  <2>2. k + 1 \in 1 .. C
    BY <1>1
  <2>3. s[k + 1] + ChunkSize <= page + PageSize /\ s[k + 1] \in Nat
    BY <1>3, <2>2, ChunkInPage
  <2>4. s[k] + ChunkSize # page + PageSize
    BY <1>1, <2>1, <2>3, PageSizes
  <2> QED
    BY <2>1, <2>4 DEF NewLink
<1> HIDE DEF s
<1> QED
  BY <1>3, <1>4, <1>7, <1>8, <1>10, <1>11

\* Positions of an elements' page are no end marker.
LEMMA Positions ==
  ASSUME TypeOK, NEW x \in Elements
  PROVE  x \in Nat /\ x > 0 /\ x \in DOMAIN link
<1>1. PICK k \in DOMAIN markers : x \in ChunksAt(PageAt(k - 1))
  BY ElementsInPages
<1>2. k - 1 \in Nat
  BY DEF TypeOK
<1>3. PageAt(k - 1) \in Nat
  BY <1>2, PageSizes
<1>4. PageAt(k - 1) < x /\ x \in Nat
  BY <1>1, <1>3, ChunkInPage
<1> QED
  BY <1>3, <1>4, ElementsInPages

\* A position on the thread is a chunk's that is not in use.
LEMMA ThreadPositions ==
  ASSUME TypeOK, NEW n, NEW s, Thread(n, s)
  PROVE  /\ n \in Nat /\ n >= 1 /\ s[1] = free /\ s \in [1 .. n -> Elements]
         /\ \A k \in 1 .. n : s[k] \in Elements /\ s[k] \in Nat /\ s[k] > 0 /\ s[k] \in DOMAIN link
         /\ \A k \in 1 .. n : s[k] \notin Used
         /\ \A k \in 1 .. n - 1 : link[s[k]] < 0
         /\ \A x \in Elements : x \notin Used <=> \E k \in 1 .. n : s[k] = x
<1>1. \A k \in 1 .. n : s[k] \in Elements /\ s[k] \in Nat /\ s[k] > 0 /\ s[k] \in DOMAIN link
  BY Positions DEF Thread
<1>2. \A k \in 1 .. n : s[k] \notin Used
  BY <1>1 DEF Thread
<1>3. ASSUME NEW k \in 1 .. n - 1 PROVE link[s[k]] < 0
  <2>1. n \in Nat /\ k + 1 \in 1 .. n /\ link[s[k]] = -s[k + 1]
    BY DEF Thread
  <2> QED
    BY <1>1, <2>1
<1>4. n \in Nat /\ n >= 1 /\ s[1] = free /\ s \in [1 .. n -> Elements]
  BY DEF Thread
<1>5. \A x \in Elements : x \notin Used <=> \E k \in 1 .. n : s[k] = x
  BY DEF Thread
<1> QED
  BY <1>1, <1>2, <1>3, <1>4, <1>5

\* s follows the n links of l from one position to the next, to a link 0.
Follows(l, n, s) ==
  /\ IsFiniteSet(DOMAIN l) /\ n \in Nat /\ n >= 1 /\ s \in [1 .. n -> DOMAIN l]
  /\ \A j, k \in 1 .. n : s[j] = s[k] => j = k
  /\ \A k \in 1 .. n : s[k] # 0
  /\ \A k \in 1 .. n - 1 : l[s[k]] = s[k + 1]
  /\ l[s[n]] = 0

\* A walk that meets no position twice and ends at a link 0 is what Reached reads:
\* it comes to its end within as many steps as there are chunks.
LEMMA ReachedRead ==
  ASSUME NEW l, NEW n, NEW s, Follows(l, n, s), NEW x, s[1] = x
  PROVE  \A y : y \in Reached(l, x) <=> \E k \in 1 .. n : y = s[k]
<1> USE DEF Follows
<1> DEFINE N == Cardinality(DOMAIN l)
           f == [k \in 0 .. N |-> IF k < n THEN s[k + 1] ELSE 0]
           at[k \in 0 .. N] == IF k = 0 THEN x ELSE IF at[k - 1] = 0 THEN 0 ELSE l[at[k - 1]]
<1>2. N \in Nat /\ n <= N
  <2>1. n <= Cardinality(DOMAIN l)
    BY WalkBound
  <2> QED
    BY <2>1, FS_CardinalityType
<1>0. Reached(l, x) = {at[k] : k \in DOMAIN at} \ {0}
  BY DEF Reached
<1> HIDE DEF N
<1>3. \A k \in 0 .. N : k < n => k + 1 \in 1 .. n
  BY <1>2
<1>4. ASSUME NEW k \in 0 .. N
      PROVE  f[k] = IF k = 0 THEN x ELSE IF f[k - 1] = 0 THEN 0 ELSE l[f[k - 1]]
  <2>1. CASE k = 0
    BY <1>2, <2>1
  <2>2. CASE k # 0
    <3>1. k - 1 \in 0 .. N /\ (k - 1) + 1 = k
      BY <1>2, <2>2
    <3>2. CASE k < n
      <4>1. f[k - 1] = s[k] /\ f[k] = s[k + 1] /\ k \in 1 .. n - 1 /\ k \in 1 .. n
        BY <1>2, <2>2, <3>1, <3>2
      <4>2. l[s[k]] = s[k + 1] /\ s[k] # 0
        BY <4>1
      <4> QED
        BY <2>2, <4>1, <4>2
    <3>3. CASE k = n
      <4>1. f[k - 1] = s[n] /\ f[k] = 0
        BY <1>2, <3>1, <3>3
      <4> QED
        BY <2>2, <4>1
    <3>4. CASE k > n
      BY <1>2, <2>2, <3>1, <3>4
    <3> QED
      BY <1>2, <3>2, <3>3, <3>4
  <2> QED
    BY <2>1, <2>2
<1>5. \E g : g = [k \in 0 .. N |-> IF k = 0 THEN x ELSE IF g[k - 1] = 0 THEN 0 ELSE l[g[k - 1]]]
  <2>1. f = [k \in 0 .. N |-> f[k]]
    OBVIOUS
  <2> HIDE DEF f
  <2>2. f = [k \in 0 .. N |-> IF k = 0 THEN x ELSE IF f[k - 1] = 0 THEN 0 ELSE l[f[k - 1]]]
    BY <1>4, <2>1
  <2> QED
    BY <2>2
<1>6. at = [k \in 0 .. N |-> IF k = 0 THEN x ELSE IF at[k - 1] = 0 THEN 0 ELSE l[at[k - 1]]]
  BY <1>5, Zenon
<1> HIDE DEF at
<1>61. \A k \in 0 .. N : at[k] = IF k = 0 THEN x ELSE IF at[k - 1] = 0 THEN 0 ELSE l[at[k - 1]]
  BY <1>6
<1>7. \A k \in 0 .. N : at[k] = f[k]
  <2> DEFINE T == {k \in 0 .. N : at[k] = f[k]}
  <2>1. 0 \in 0 .. N
    BY <1>2
  <2>2. 0 \in T
    BY <1>4, <1>61, <2>1
  <2>3. ASSUME NEW k \in 0 .. N - 1, k \in T PROVE k + 1 \in T
    <3>1. k + 1 \in 0 .. N /\ (k + 1) - 1 = k /\ k + 1 # 0
      BY <1>2
    <3> HIDE DEF f
    <3>2. at[k + 1] = IF at[k] = 0 THEN 0 ELSE l[at[k]]
      BY <1>61, <3>1
    <3>3. f[k + 1] = IF f[k] = 0 THEN 0 ELSE l[f[k]]
      BY <1>4, <3>1
    <3> QED
      BY <2>3, <3>1, <3>2, <3>3
  <2> HIDE DEF T
  <2>4. \A k \in 0 .. N : k \in T
    BY <1>2, <2>2, <2>3, UpTo
  <2> QED
    BY <2>4 DEF T
<1>9. DOMAIN at = 0 .. N
  BY <1>6
<1>10. ASSUME NEW k \in 1 .. n PROVE \E j \in 0 .. N : s[k] = at[j] /\ s[k] # 0
  <2>1. k - 1 \in 0 .. N /\ k - 1 < n /\ (k - 1) + 1 = k
    BY <1>2
  <2>2. at[k - 1] = s[k]
    BY <1>7, <2>1
  <2> QED
    BY <2>1, <2>2
<1>11. ASSUME NEW j \in 0 .. N, at[j] # 0 PROVE \E k \in 1 .. n : at[j] = s[k]
  BY <1>3, <1>7, <1>11
<1>12. \A y : y \in Reached(l, x) <=> y # 0 /\ \E j \in 0 .. N : y = at[j]
  BY <1>0, <1>9
<1> QED
  BY <1>10, <1>11, <1>12

\* The chunks FreeList reads are those of the thread.
LEMMA FreeListRead ==
  ASSUME TypeOK, NEW n, NEW s, Thread(n, s)
  PROVE  FreeList = {s[k] : k \in 1 .. n}
<1> DEFINE l == [x \in DOMAIN link |-> -link[x]]
<1>1. DOMAIN l = DOMAIN link /\ IsFiniteSet(DOMAIN l) /\ \A x \in DOMAIN link : l[x] = -link[x]
  BY ChunksFinite
<1>2. FreeList = Reached(l, free)
  BY DEF FreeList
<1> HIDE DEF l
<1>3. /\ n \in Nat /\ n >= 1 /\ s[1] = free /\ s \in [1 .. n -> DOMAIN l]
      /\ \A k \in 1 .. n : s[k] # 0
  BY <1>1, ThreadPositions
<1>4. \A j, k \in 1 .. n : s[j] = s[k] => j = k
  BY DEF Thread
<1>5. ASSUME NEW k \in 1 .. n - 1 PROVE l[s[k]] = s[k + 1]
  <2>1. k \in 1 .. n /\ k + 1 \in 1 .. n
    BY <1>3
  <2>2. link[s[k]] = -s[k + 1] /\ s[k + 1] \in Nat /\ l[s[k]] = -link[s[k]]
    BY <1>1, <2>1, ThreadPositions DEF Thread
  <2> QED
    BY <2>2
<1>6. l[s[n]] = 0
  <2>1. n \in 1 .. n /\ s[n] \in DOMAIN link
    BY <1>1, <1>3
  <2>2. link[s[n]] = 0
    BY DEF Thread
  <2>3. l[s[n]] = -link[s[n]]
    BY <1>1, <2>1
  <2>4. link[s[n]] \in Int
    BY <2>1 DEF TypeOK
  <2>5. l[s[n]] \in Int /\ l[s[n]] + link[s[n]] = 0
    BY <2>3, <2>4
  <2> QED
    BY <2>2, <2>5
<1>7. \A y : y \in Reached(l, free) <=> \E k \in 1 .. n : y = s[k]
  <2>1. Follows(l, n, s)
    BY <1>1, <1>3, <1>4, <1>5, <1>6 DEF Follows
  <2>2. s[1] = free
    BY <1>3
  <2> QED
    BY <2>1, <2>2, ReachedRead
<1> QED
  BY <1>2, <1>7

\* The links of an element lead to the chunks it owns.
LEMMA ChainRead ==
  ASSUME TypeOK, NEW p, NEW m, NEW c, Chain(p, m, c)
  PROVE  /\ Reached(link, p) = {c[k] : k \in 1 .. m}
         /\ Reached(link, p) = {x \in Used : owner[x] = p}
<1>1. /\ m \in Nat /\ m >= 1 /\ c \in [1 .. m -> Used] /\ c[1] = p /\ link[c[m]] = 0
      /\ \A j, k \in 1 .. m : c[j] = c[k] => j = k
      /\ \A k \in 1 .. m - 1 : link[c[k]] = c[k + 1]
      /\ \A x \in Used : owner[x] = p <=> \E k \in 1 .. m : c[k] = x
  BY DEF Chain, Pieces
<1>2. IsFiniteSet(DOMAIN link)
  BY ChunksFinite
<1>3. \A x \in Used : x \in DOMAIN link /\ x # 0
  BY Positions DEF TypeOK
<1>4. c \in [1 .. m -> DOMAIN link] /\ \A k \in 1 .. m : c[k] # 0
  BY <1>1, <1>3
<1>5. \A y : y \in Reached(link, p) <=> \E k \in 1 .. m : y = c[k]
  <2>1. Follows(link, m, c)
    BY <1>1, <1>2, <1>4 DEF Follows
  <2>2. c[1] = p
    BY <1>1
  <2> QED
    BY <2>1, <2>2, ReachedRead
<1> QED
  BY <1>1, <1>5

\* Init threads the chunks of the second page.
LEMMA InitThread == Init => Threaded
<1> SUFFICES ASSUME Init PROVE Threaded
  OBVIOUS
<1> DEFINE page == PageAt(1)
           pages == {PageAt(k) : k \in 0 .. 2}
<1>1. page \in Nat
  BY PageSizes
<1>2. PICK s :
      /\ s \in [1 .. ChunksPerPage -> ChunksAt(page)]
      /\ \A j, k \in 1 .. ChunksPerPage : s[j] = s[k] => j = k
      /\ s[1] = page + PageHeaderSize
      /\ NewLink(page, s[ChunksPerPage]) = 0
      /\ \A k \in 1 .. ChunksPerPage - 1 : NewLink(page, s[k]) = -s[k + 1]
      /\ \A x \in ChunksAt(page) : \E k \in 1 .. ChunksPerPage : s[k] = x
  <2> HIDE DEF page
  <2> QED BY <1>1, PageThread
<1>3. Elements = ChunksAt(page)
  <2>1. {j \in DOMAIN markers : markers[j] = "elements"} = {2}
    BY DEF Init
  <2> QED
    BY <2>1 DEF Elements
<1>4. ASSUME NEW x \in ChunksAt(page) PROVE link[x] = NewLink(page, x)
  <2>1. x \in Chunks(3)
    BY DEF Chunks
  <2>2. ASSUME NEW q \in pages, x \in ChunksAt(q) PROVE q = page
    <3>1. PICK k \in 0 .. 2 : q = PageAt(k)
      BY <2>2
    <3>2. ~(k < 1) /\ ~(1 < k)
      BY <2>2, <3>1, ChunksApart
    <3> QED
      BY <3>1, <3>2
  <2>3. page \in pages
    OBVIOUS
  <2>4. (CHOOSE q \in pages : x \in ChunksAt(q)) = page
    <3> HIDE DEF pages, page
    <3> QED BY <2>2, <2>3
  <2>5. link[x] = NewLink(CHOOSE q \in pages : x \in ChunksAt(q), x)
    BY <2>1 DEF Init
  <2> QED
    BY <2>4, <2>5
<1>5. free = page + PageHeaderSize /\ Used = {}
  BY DEF Init, Used
<1>6. ChunksPerPage \in Nat \ {0}
  BY SizesAssumption
<1> HIDE DEF page
<1>7. Thread(ChunksPerPage, s)
  <2>1. \A k \in 1 .. ChunksPerPage : link[s[k]] = NewLink(page, s[k])
    BY <1>2, <1>4
  <2>2. ChunksPerPage \in 1 .. ChunksPerPage /\ \A k \in 1 .. ChunksPerPage - 1 : k \in 1 .. ChunksPerPage
    BY <1>6
  <2> QED
    BY <1>2, <1>3, <1>5, <1>6, <2>1, <2>2 DEF Thread
<1> QED
  BY <1>7 DEF Threaded

-----------------------------------------------------------------------------
(* The steps.                                                              *)

LEMMA InitInv == Init => IInv
<1> SUFFICES ASSUME Init PROVE IInv
  OBVIOUS
<1>1. ids = {} /\ Used = {} /\ Idle
  BY DEF Init, Used, Idle
<1> QED
  BY <1>1, InitTypeOK, InitThread DEF IInv, Chained, Open, Owned

\* What only depends on what a step leaves alone.
LEMMA SameElements ==
  ASSUME IInv, TypeOK', free' = free, owner' = owner, Elements' = Elements,
         \A x \in Elements : link'[x] = link[x]
  PROVE  Threaded' /\ \A p, m, c : Pieces(p, m, c) => Pieces(p, m, c)'
<1>1. PICK n, s : Thread(n, s)
  BY DEF IInv, Threaded
<1>2. n \in 1 .. n /\ \A k \in 1 .. n - 1 : k \in 1 .. n
  BY <1>1 DEF Thread
<1>3. Used' = Used /\ Used \subseteq Elements
  BY DEF Used, IInv, TypeOK
<1>4. Thread(n, s)'
  BY <1>1, <1>2, <1>3 DEF Thread
<1>5. ASSUME NEW p, NEW m, NEW c, Pieces(p, m, c) PROVE Pieces(p, m, c)'
  <2>1. \A k \in 1 .. m - 1 : k \in 1 .. m
    BY <1>5 DEF Pieces
  <2>2. \A k \in 1 .. m - 1 : link'[c[k]] = link[c[k]]
    BY <1>3, <1>5, <2>1 DEF Pieces
  <2> QED
    BY <1>3, <1>5, <2>2 DEF Pieces
<1> QED
  BY <1>4, <1>5 DEF Threaded

\* A page of another list leaves the chunks of the elements' pages as they are.
LEMMA OtherPageInv ==
  ASSUME IInv, NEW marker \in {"schemas", "strings"}, OtherPage(marker)
  PROVE  IInv'
<1>1. TypeOK /\ link \in [DOMAIN link -> Int] /\ AppendPage(marker, link)
  BY DEF IInv, TypeOK, OtherPage
<1>2. /\ free' = free /\ ids' = ids /\ owner' = owner /\ rest' = rest /\ Idle /\ Idle'
      /\ Used' = Used
  BY DEF OtherPage, Idle, Used
<1>3. Elements' = Elements
  BY <1>1, PageAppended DEF OtherPage
<1>4. \A x \in Elements : link'[x] = link[x]
  BY <1>1, PageAppended, ElementsInPages
<1>5. TypeOK'
  BY <1>1, <1>2, <1>3, PageAppended DEF TypeOK
<1>6. Threaded' /\ \A p, m, c : Pieces(p, m, c) => Pieces(p, m, c)'
  BY <1>2, <1>3, <1>4, <1>5, SameElements
<1>7. ASSUME NEW p \in ids' PROVE \E m, c : Chain(p, m, c)'
  <2>1. PICK m, c : Chain(p, m, c)
    BY <1>2 DEF IInv, Chained
  <2>2. m \in 1 .. m /\ c[m] \in Elements
    BY <1>1, <2>1 DEF Chain, Pieces, TypeOK
  <2>3. Chain(p, m, c)'
    BY <1>4, <1>6, <2>1, <2>2 DEF Chain
  <2> QED
    BY <2>3
<1>8. Chained' /\ Open'
  BY <1>2, <1>7 DEF Chained, Open
<1>9. Owned'
  BY <1>2 DEF Owned, IInv
<1> QED
  BY <1>5, <1>6, <1>8, <1>9 DEF IInv

\* An element that is begun owns nothing yet, and the head is nobody's.
LEMMA WriteBeginInv ==
  ASSUME IInv, NEW n \in 1 .. MaxLen, WriteBegin(n)
  PROVE  IInv'
<1>1. /\ TypeOK /\ Idle /\ ids' = ids /\ free' = free /\ owner' = owner /\ start' = free /\ rest' = n
      /\ Elements' = Elements /\ link' = link /\ markers' = markers /\ fileEnd' = fileEnd /\ Used' = Used
  BY DEF IInv, WriteBegin, Elements, Used
<1>2. TypeOK'
  BY <1>1, SizesAssumption DEF TypeOK
<1>3. Threaded' /\ \A p, m, c : Pieces(p, m, c) => Pieces(p, m, c)'
  BY <1>1, <1>2, SameElements
<1>4. Chained'
  BY <1>1, <1>3 DEF Chained, Chain, IInv
<1>5. ~Idle' /\ Owned'
  BY <1>1, SizesAssumption DEF Idle, Owned, IInv
<1>6. free \in Elements /\ free \notin Used /\ free \notin ids
  <2>1. PICK k, s : Thread(k, s)
    BY DEF IInv, Threaded
  <2>2. k \in Nat /\ k >= 1 /\ s[1] = free /\ \A j \in 1 .. k : s[j] \notin Used
    BY <1>1, <2>1, ThreadPositions
  <2>3. free \notin Used
    BY <2>2
  <2> QED
    BY <1>1, <2>3 DEF TypeOK
<1>7. \E m, c : Begun(m, c)'
  <2> DEFINE c == [k \in 1 .. 0 |-> 0]
  <2>1. \A x \in Used : owner[x] # free
    BY <1>1, <1>6 DEF IInv, Owned
  <2>2. Pieces(free, 0, c)'
    BY <1>1, <2>1 DEF Pieces
  <2>3. Begun(0, c)'
    BY <1>1, <2>2 DEF Begun
  <2> QED
    BY <2>3
<1>8. Open'
  BY <1>1, <1>6, <1>7 DEF Open
<1> QED
  BY <1>2, <1>3, <1>4, <1>5, <1>8 DEF IInv

\* What a chunk of an element changes in the pages: its own link, and the end of
\* the file when a page is appended.
LEMMA WriteFrame ==
  ASSUME IInv, WriteChunk
  PROVE  /\ free' = After /\ After \in Nat /\ Onward \in Int /\ TypeOK'
         /\ \A x \in DOMAIN link : x # free => link'[x] = link[x]
         /\ free \in DOMAIN link /\ free \in Elements /\ free \notin Used /\ link'[free] = Onward
         /\ Elements \subseteq Elements' /\ Used' = Used \cup {free}
         /\ owner'[free] = start /\ \A x \in Used : owner'[x] = owner[x]
<1> DEFINE links == [link EXCEPT ![free] = Onward]
<1>1. TypeOK /\ free \in Elements /\ free \in DOMAIN link /\ free' = After /\ ~Idle
  BY ElementsInPages DEF IInv, TypeOK, WriteChunk
<1>2. PICK n, s : Thread(n, s)
  BY DEF IInv, Threaded
<1>3. /\ n \in Nat /\ n >= 1 /\ s[1] = free /\ \A k \in 1 .. n : s[k] \in Elements /\ s[k] \in Nat
      /\ \A k \in 1 .. n : s[k] \notin Used
  BY <1>1, <1>2, ThreadPositions
<1>4. free \notin Used
  BY <1>3
<1>5. /\ Used' = Used \cup {free} /\ owner'[free] = start /\ \A x \in Used : owner'[x] = owner[x]
      /\ owner' = [x \in Used \cup {free} |-> IF x = free THEN start ELSE owner[x]]
  BY <1>4 DEF WriteChunk, Used
<1>6. start \in Elements /\ (rest = 1 => start \in Used' \/ start = free)
  <2>1. PICK m, c : Begun(m, c)
    BY <1>1 DEF IInv, Open
  <2>2. m # 0 => 1 \in 1 .. m
    BY <2>1 DEF Begun, Pieces
  <2> QED
    BY <1>1, <1>5, <2>1, <2>2 DEF Begun, Pieces, IInv, Open
<1>7. fileEnd \in Nat /\ PageHeaderSize \in Nat /\ fileEnd = PageAt(Len(markers))
  BY <1>1, PageSizes, SizesAssumption DEF TypeOK
<1>8. link[free] # 0 => After \in Elements /\ After \in Nat
  <2> SUFFICES ASSUME link[free] # 0 PROVE After \in Elements /\ After \in Nat
    OBVIOUS
  <2>1. n # 1
    BY <1>2, <1>3 DEF Thread
  <2>2. 1 \in 1 .. n - 1 /\ 2 \in 1 .. n /\ 1 + 1 = 2
    BY <1>3, <2>1
  <2>3. link[s[1]] = -s[2] /\ s[2] \in Elements /\ s[2] \in Nat
    BY <1>2, <1>3, <2>2 DEF Thread
  <2>4. After = s[2]
    BY <1>3, <2>3 DEF After, Follow
  <2> QED
    BY <2>3, <2>4
<1>9. After \in Nat
  BY <1>7, <1>8 DEF After
<1>10. Onward \in Int
  BY <1>9 DEF Onward
<1>11. /\ links \in [DOMAIN link -> Int] /\ links[free] = Onward
       /\ \A x \in DOMAIN link : x # free => links[x] = link[x]
  BY <1>1, <1>10 DEF TypeOK
<1>12. rest' \in 0 .. MaxLen /\ ids' \subseteq Used'
  <2>1. rest \in 0 .. MaxLen /\ rest # 0 /\ rest' = rest - 1 /\ MaxLen \in Nat
    BY <1>1, SizesAssumption DEF Idle, TypeOK, WriteChunk
  <2>2. ids' = IF rest = 1 THEN ids \cup {start} ELSE ids
    BY DEF WriteChunk
  <2> QED
    BY <1>1, <1>5, <1>6, <2>1, <2>2 DEF TypeOK
<1>13. /\ markers' \in Seq({"schemas", "elements", "strings"})
       /\ fileEnd' = PageAt(Len(markers')) /\ link' \in [Chunks(Len(markers')) -> Int]
       /\ \A x \in DOMAIN link : link'[x] = links[x]
       /\ Elements \subseteq Elements' /\ After \in Elements'
  <2>1. CASE link[free] = 0
    <3>1. AppendPage("elements", links) /\ After = fileEnd + PageHeaderSize
      BY <2>1 DEF WriteChunk, After
    <3> HIDE DEF links
    <3>2. "elements" \in {"schemas", "elements", "strings"}
      OBVIOUS
    <3>3. /\ markers' \in Seq({"schemas", "elements", "strings"})
          /\ fileEnd' = PageAt(Len(markers')) /\ link' \in [Chunks(Len(markers')) -> Int]
          /\ \A x \in DOMAIN link : link'[x] = links[x]
          /\ Elements' = IF "elements" = "elements" THEN Elements \cup ChunksAt(fileEnd) ELSE Elements
      BY <1>1, <1>11, <3>1, <3>2, PageAppended
    <3> QED
      BY <1>7, <3>1, <3>3, FirstChunk
  <2>2. CASE link[free] # 0
    <3>1. link' = links /\ markers' = markers /\ fileEnd' = fileEnd /\ Elements' = Elements
      BY <2>2 DEF WriteChunk, Elements
    <3> HIDE DEF links
    <3> QED
      BY <1>1, <1>8, <1>11, <2>2, <3>1 DEF TypeOK
  <2> QED
    BY <2>1, <2>2
<1> HIDE DEF links
<1>14. owner' \in [Used' -> Elements'] /\ Used' \subseteq Elements'
  BY <1>1, <1>5, <1>6, <1>13 DEF TypeOK
<1>15. TypeOK'
  BY <1>1, <1>12, <1>13, <1>14 DEF TypeOK
<1> QED
  BY <1>1, <1>4, <1>5, <1>9, <1>10, <1>11, <1>13, <1>15

\* The chunk taken goes off the thread; behind the last one there is the thread
\* of the new page.
LEMMA WriteThread ==
  ASSUME IInv, WriteChunk
  PROVE  Threaded'
<1>1. /\ TypeOK /\ free \in Elements /\ free \in DOMAIN link /\ Used' = Used \cup {free}
      /\ free' = After /\ \A x \in DOMAIN link : x # free => link'[x] = link[x]
  BY WriteFrame DEF IInv
<1>3. PICK n, s : Thread(n, s)
  BY DEF IInv, Threaded
<1>4. /\ \A k \in 1 .. n : s[k] \in Elements /\ s[k] \in Nat /\ s[k] > 0 /\ s[k] \in DOMAIN link
      /\ \A k \in 1 .. n - 1 : link[s[k]] < 0
      /\ n \in Nat /\ n >= 1 /\ s[1] = free /\ s \in [1 .. n -> Elements]
      /\ \A x \in Elements : x \notin Used <=> \E k \in 1 .. n : s[k] = x
  BY <1>1, <1>3, ThreadPositions
<1>5. CASE link[free] = 0
  <2>1. n = 1
    BY <1>4, <1>5
  <2>2. \A x \in Elements : x \in Used'
    BY <1>1, <1>4, <2>1
  <2> DEFINE links == [link EXCEPT ![free] = Onward]
  <2>3. /\ AppendPage("elements", links) /\ free' = fileEnd + PageHeaderSize
        /\ links \in [DOMAIN link -> Int]
    BY <1>1, <1>5, WriteFrame DEF WriteChunk, After, TypeOK
  <2> HIDE DEF links
  <2>4. fileEnd \in Nat /\ Len(markers) \in Nat /\ fileEnd = PageAt(Len(markers))
    BY <1>1, PageSizes DEF TypeOK
  <2>5. /\ Elements' = Elements \cup ChunksAt(fileEnd)
        /\ \A x \in ChunksAt(fileEnd) : link'[x] = NewLink(fileEnd, x)
    <3>1. "elements" \in {"schemas", "elements", "strings"}
      OBVIOUS
    <3>2. Elements' = IF "elements" = "elements" THEN Elements \cup ChunksAt(fileEnd) ELSE Elements
      BY <1>1, <2>3, <3>1, PageAppended
    <3> QED
      BY <1>1, <2>3, <3>1, <3>2, PageAppended
  <2>6. ASSUME NEW x \in ChunksAt(fileEnd) PROVE x \notin Used'
    <3>1. x \notin DOMAIN link
      BY <1>1, <2>4, NewPageFresh DEF TypeOK
    <3>2. x \notin Elements
      BY <1>1, <3>1, ElementsInPages
    <3> QED
      BY <1>1, <3>2 DEF TypeOK
  <2>7. PICK t :
        /\ t \in [1 .. ChunksPerPage -> ChunksAt(fileEnd)]
        /\ \A j, k \in 1 .. ChunksPerPage : t[j] = t[k] => j = k
        /\ t[1] = fileEnd + PageHeaderSize
        /\ NewLink(fileEnd, t[ChunksPerPage]) = 0
        /\ \A k \in 1 .. ChunksPerPage - 1 : NewLink(fileEnd, t[k]) = -t[k + 1]
        /\ \A x \in ChunksAt(fileEnd) : \E k \in 1 .. ChunksPerPage : t[k] = x
    BY <2>4, PageThread
  <2>8. ChunksPerPage \in Nat \ {0}
    BY SizesAssumption
  <2>9. ChunksPerPage \in 1 .. ChunksPerPage /\ \A k \in 1 .. ChunksPerPage - 1 : k \in 1 .. ChunksPerPage
    BY <2>8
  <2>10. \A k \in 1 .. ChunksPerPage : link'[t[k]] = NewLink(fileEnd, t[k])
    BY <2>5, <2>7
  <2>11. t \in [1 .. ChunksPerPage -> Elements']
    BY <2>5, <2>7
  <2>12. \A x \in Elements' : x \notin Used' <=> \E k \in 1 .. ChunksPerPage : t[k] = x
    BY <2>2, <2>5, <2>6, <2>7
  <2>13. /\ t[1] = free' /\ link'[t[ChunksPerPage]] = 0
         /\ \A k \in 1 .. ChunksPerPage - 1 : link'[t[k]] = -t[k + 1]
    BY <2>3, <2>7, <2>9, <2>10
  <2>14. Thread(ChunksPerPage, t)'
    <3>1. \A j, k \in 1 .. ChunksPerPage : t[j] = t[k] => j = k
      BY <2>7
    <3> QED
      BY <2>8, <2>11, <2>12, <2>13, <3>1 DEF Thread
  <2> QED
    BY <2>14 DEF Threaded
<1>6. CASE link[free] # 0
  <2>1. free' = -link[free] /\ fileEnd' = fileEnd /\ markers' = markers
    BY <1>1, <1>6 DEF WriteChunk, After, Follow
  <2>2. Elements' = Elements
    BY <2>1 DEF Elements
  <2>3. n - 1 \in Nat \ {0} /\ n # 1
    BY <1>3, <1>4, <1>6 DEF Thread
  <2> DEFINE t == [k \in 1 .. n - 1 |-> s[k + 1]]
  <2>4. \A k \in 1 .. n - 1 : k + 1 \in 1 .. n /\ k \in 1 .. n /\ k + 1 # 1
    BY <1>4
  <2>5. t \in [1 .. n - 1 -> Elements] /\ \A k \in 1 .. n - 1 : t[k] = s[k + 1]
    BY <1>4, <2>4
  <2> HIDE DEF t
  <2>6. \A j, k \in 1 .. n - 1 : t[j] = t[k] => j = k
    BY <1>3, <2>4, <2>5 DEF Thread
  <2>7. \A k \in 1 .. n - 1 : t[k] # free
    <3>1. 1 \in 1 .. n
      BY <1>4
    <3> QED
      BY <1>3, <2>4, <2>5, <3>1 DEF Thread
  <2>8. \A k \in 1 .. n - 1 : link'[t[k]] = link[s[k + 1]]
    BY <1>1, <1>4, <2>1, <2>4, <2>5, <2>7
  <2>9. t[1] = free'
    <3>1. 1 \in 1 .. n - 1
      BY <1>4, <2>3
    <3>2. t[1] = s[2] /\ link[s[1]] = -s[2] /\ s[2] \in Nat
      BY <1>3, <1>4, <2>4, <2>5, <3>1 DEF Thread
    <3> QED
      BY <1>4, <2>1, <3>2
  <2>10. link'[t[n - 1]] = 0
    <3>1. n - 1 \in 1 .. n - 1 /\ (n - 1) + 1 = n
      BY <1>4, <2>3
    <3> QED
      BY <1>3, <2>8, <3>1 DEF Thread
  <2>11. ASSUME NEW k \in 1 .. (n - 1) - 1 PROVE link'[t[k]] = -t[k + 1]
    <3>1. k \in 1 .. n - 1 /\ k + 1 \in 1 .. n - 1
      BY <1>4
    <3>2. link[s[k + 1]] = -s[(k + 1) + 1]
      BY <1>3, <3>1 DEF Thread
    <3> QED
      BY <2>5, <2>8, <3>1, <3>2
  <2>12. ASSUME NEW x \in Elements PROVE x \notin Used' <=> \E k \in 1 .. n - 1 : t[k] = x
    <3>1. ASSUME x \notin Used' PROVE \E k \in 1 .. n - 1 : t[k] = x
      <4>1. PICK k \in 1 .. n : s[k] = x
        BY <1>1, <1>4, <3>1
      <4>2. k # 1
        BY <1>1, <1>4, <3>1, <4>1
      <4>3. k - 1 \in 1 .. n - 1 /\ (k - 1) + 1 = k
        BY <1>4, <4>2
      <4> QED
        BY <2>5, <4>1, <4>3
    <3>2. ASSUME NEW k \in 1 .. n - 1, t[k] = x PROVE x \notin Used'
      BY <1>1, <1>4, <2>4, <2>5, <2>7, <3>2
    <3> QED
      BY <3>1, <3>2
  <2>13. Thread(n - 1, t)'
    BY <2>2, <2>3, <2>5, <2>6, <2>9, <2>10, <2>11, <2>12 DEF Thread
  <2> QED
    BY <2>13 DEF Threaded
<1> QED
  BY <1>5, <1>6

\* The chunk taken is the next of the element that is written: of its chunks the
\* last, whose link leads on to the new head or, in the last chunk, nowhere.
LEMMA WriteInv ==
  ASSUME IInv, WriteChunk
  PROVE  IInv'
<1>1. /\ free' = After /\ After \in Nat /\ Onward \in Int /\ TypeOK' /\ TypeOK
      /\ \A x \in DOMAIN link : x # free => link'[x] = link[x]
      /\ free \in DOMAIN link /\ free \in Elements /\ free \notin Used /\ link'[free] = Onward
      /\ Elements \subseteq Elements' /\ Used' = Used \cup {free}
      /\ owner'[free] = start /\ \A x \in Used : owner'[x] = owner[x]
  BY WriteFrame DEF IInv
<1>2. /\ start \in Elements /\ start \notin ids /\ rest \in 1 .. MaxLen /\ rest' = rest - 1
      /\ IF rest = 1 THEN ids' = ids \cup {start} /\ start' = 0 ELSE ids' = ids /\ start' = start
  BY <1>1, SizesAssumption DEF IInv, Open, WriteChunk, Idle, TypeOK
<1>3. \A x \in Used : x \in DOMAIN link /\ link'[x] = link[x] /\ x \in Used'
  BY <1>1, Positions DEF TypeOK
<1>4. PICK m, c : Begun(m, c)
  BY DEF IInv, Open, WriteChunk
<1>5. m \in Nat /\ c \in [1 .. m -> Used]
  BY <1>4 DEF Begun, Pieces
<1>91. PICK q : q = start
  OBVIOUS
<1>92. PICK d : d = [k \in 1 .. m + 1 |-> IF k = m + 1 THEN free ELSE c[k]]
  OBVIOUS
<1>6. \A k \in 1 .. m + 1 : k # m + 1 => k \in 1 .. m
  BY <1>5
<1>7. /\ d \in [1 .. m + 1 -> Used'] /\ d[m + 1] = free
      /\ \A k \in 1 .. m + 1 : k # m + 1 => d[k] = c[k] /\ d[k] \in Used
      /\ m + 1 \in 1 .. m + 1 /\ 1 \in 1 .. m + 1
  BY <1>1, <1>5, <1>6, <1>92
<1>8. d[1] = q
  <2>1. CASE m = 0
    BY <1>4, <1>7, <1>91, <2>1 DEF Begun
  <2>2. CASE m # 0
    <3>1. 1 # m + 1
      BY <1>5, <2>2
    <3> QED
      BY <1>4, <1>7, <1>91, <2>2, <3>1 DEF Begun
  <2> QED
    BY <2>1, <2>2
<1>9. Pieces(q, m + 1, d)'
  <2>1. m + 1 \in Nat
    BY <1>5
  <2>2. ASSUME NEW j \in 1 .. m + 1, NEW k \in 1 .. m + 1, d[j] = d[k] PROVE j = k
    <3>1. CASE j = m + 1 \/ k = m + 1
      BY <1>1, <1>7, <2>2, <3>1
    <3>2. CASE j # m + 1 /\ k # m + 1
      <4>1. c[j] = c[k] /\ j \in 1 .. m /\ k \in 1 .. m
        BY <1>6, <1>7, <2>2, <3>2
      <4> QED
        BY <1>4, <4>1 DEF Begun, Pieces
    <3> QED
      BY <3>1, <3>2
  <2>3. ASSUME NEW k \in 1 .. (m + 1) - 1 PROVE link'[d[k]] = d[k + 1]
    <3>1. k \in 1 .. m /\ k # m + 1 /\ k \in 1 .. m + 1 /\ k + 1 \in 1 .. m + 1 /\ m # 0
      BY <1>5
    <3>2. d[k] = c[k] /\ link'[d[k]] = link[c[k]]
      BY <1>3, <1>7, <3>1
    <3>3. CASE k = m
      BY <1>4, <1>7, <3>1, <3>2, <3>3 DEF Begun
    <3>4. CASE k # m
      <4>1. k \in 1 .. m - 1 /\ k + 1 # m + 1
        BY <1>5, <3>1, <3>4
      <4>2. link[c[k]] = c[k + 1] /\ d[k + 1] = c[k + 1]
        BY <1>4, <1>7, <3>1, <4>1 DEF Begun, Pieces
      <4> QED
        BY <3>2, <4>2
    <3> QED
      BY <3>3, <3>4
  <2>4. ASSUME NEW x \in Used' PROVE owner'[x] = q <=> \E k \in 1 .. m + 1 : d[k] = x
    <3>1. CASE x = free
      BY <1>1, <1>7, <1>91, <3>1
    <3>2. CASE x # free
      <4>1. x \in Used /\ owner'[x] = owner[x]
        BY <1>1, <3>2
      <4>2. owner[x] = q <=> \E k \in 1 .. m : c[k] = x
        BY <1>4, <1>91, <4>1 DEF Begun, Pieces
      <4>3. ASSUME NEW k \in 1 .. m, c[k] = x PROVE \E j \in 1 .. m + 1 : d[j] = x
        <5>1. k \in 1 .. m + 1 /\ k # m + 1
          BY <1>5
        <5> QED
          BY <1>7, <4>3, <5>1
      <4>4. ASSUME NEW k \in 1 .. m + 1, d[k] = x PROVE \E j \in 1 .. m : c[j] = x
        BY <1>6, <1>7, <3>2, <4>4
      <4> QED
        BY <4>1, <4>2, <4>3, <4>4
    <3> QED
      BY <3>1, <3>2
  <2> QED
    BY <1>7, <2>1, <2>2, <2>3, <2>4 DEF Pieces
<1>10. ASSUME NEW p \in ids, p # start PROVE \E k, e : Chain(p, k, e)'
  <2>1. PICK k, e : Chain(p, k, e)
    BY DEF IInv, Chained
  <2>2. k \in Nat /\ k # 0 /\ e \in [1 .. k -> Used] /\ k \in 1 .. k /\ \A j \in 1 .. k - 1 : j \in 1 .. k
    BY <2>1 DEF Chain, Pieces
  <2>3. \A j \in 1 .. k : link'[e[j]] = link[e[j]] /\ e[j] \in Used'
    BY <1>3, <2>2
  <2>4. e \in [1 .. k -> Used']
    BY <2>2, <2>3
  <2>5. ASSUME NEW x \in Used' PROVE owner'[x] = p <=> \E j \in 1 .. k : e[j] = x
    <3>1. CASE x = free
      BY <1>1, <1>10, <2>2, <3>1
    <3>2. CASE x # free
      BY <1>1, <2>1, <3>2 DEF Chain, Pieces
    <3> QED
      BY <3>1, <3>2
  <2>6. Pieces(p, k, e)'
    BY <2>1, <2>2, <2>3, <2>4, <2>5 DEF Chain, Pieces
  <2>7. Chain(p, k, e)'
    BY <2>1, <2>2, <2>3, <2>6 DEF Chain
  <2> QED
    BY <2>7
<1>11. CASE rest = 1
  <2>1. Idle' /\ ids' = ids \cup {start} /\ link'[d[m + 1]] = 0
    BY <1>1, <1>2, <1>7, <1>11 DEF Idle, Onward
  <2>2. Chain(q, m + 1, d)'
    BY <1>5, <1>8, <1>9, <2>1 DEF Chain
  <2>3. Chained' /\ Open'
    BY <1>2, <1>10, <1>91, <2>1, <2>2 DEF Chained, Open
  <2>4. Owned'
    BY <1>1, <2>1 DEF Owned, IInv
  <2> QED
    BY <1>1, <2>3, <2>4, WriteThread DEF IInv
<1>12. CASE rest # 1
  <2>1. ~Idle' /\ ids' = ids /\ start' = start /\ ~Idle /\ link'[d[m + 1]] = free'
    <3>1. rest # 0 /\ rest - 1 # 0
      BY <1>2, <1>12, SizesAssumption
    <3> QED
      BY <1>1, <1>2, <1>7, <1>12, <3>1 DEF Idle, Onward
  <2>2. Begun(m + 1, d)'
    BY <1>5, <1>8, <1>9, <1>91, <2>1 DEF Begun
  <2>3. Chained' /\ Open'
    BY <1>1, <1>2, <1>10, <2>1, <2>2 DEF Chained, Open
  <2>4. Owned'
    BY <1>1, <2>1 DEF Owned, IInv
  <2> QED
    BY <1>1, <2>3, <2>4, WriteThread DEF IInv
<1> QED
  BY <1>11, <1>12

\* The links of the chain are negated and its last one leads to the old head:
\* chain and thread are one thread.  The chains of other elements share no chunk
\* with it, since each chunk has one owner.
LEMMA FreeInv ==
  ASSUME IInv, NEW p \in ids, Free(p)
  PROVE  IInv'
<1>1. TypeOK /\ Idle /\ Idle' /\ free \in Elements /\ free \in Nat
  BY Positions DEF IInv, TypeOK, Free, Idle
<1>2. PICK m, c : Chain(p, m, c)
  BY DEF IInv, Chained
<1>3. /\ m \in Nat /\ m >= 1 /\ c \in [1 .. m -> Used] /\ c[1] = p /\ link[c[m]] = 0
      /\ \A j, k \in 1 .. m : c[j] = c[k] => j = k
      /\ \A k \in 1 .. m - 1 : link[c[k]] = c[k + 1]
      /\ \A x \in Used : owner[x] = p <=> \E k \in 1 .. m : c[k] = x
  BY <1>2 DEF Chain, Pieces
<1>4. PICK chain : /\ chain = {c[k] : k \in 1 .. m} /\ chain = {x \in Used : owner[x] = p}
                   /\ chain = Reached(link, p)
  BY <1>1, <1>2, ChainRead
<1>5. /\ link' = [x \in DOMAIN link |-> IF x \notin chain THEN link[x]
                                        ELSE IF link[x] = 0 THEN -free ELSE -link[x]]
      /\ owner' = [x \in Used \ chain |-> owner[x]]
  BY <1>4 DEF Free
<1>6. /\ Used' = Used \ chain /\ \A x \in Used' : owner'[x] = owner[x]
      /\ \A x \in DOMAIN link \ chain : link'[x] = link[x]
      /\ ids' = ids \ {p} /\ free' = p /\ Elements' = Elements
      /\ markers' = markers /\ fileEnd' = fileEnd /\ rest' = rest
  BY <1>5 DEF Free, Used, Elements
<1>7. \A x \in Elements : x \in DOMAIN link /\ x \in Nat /\ x > 0
  BY <1>1, Positions
<1>8. /\ \A k \in 1 .. m : c[k] \in chain /\ c[k] \in Elements
      /\ p \in chain /\ p \in Elements /\ chain \subseteq Used /\ Used \subseteq Elements
  <2>1. 1 \in 1 .. m /\ Used \subseteq Elements
    BY <1>1, <1>3 DEF TypeOK
  <2> QED
    BY <1>3, <1>4, <2>1
<1>9. /\ link'[c[m]] = -free
      /\ \A k \in 1 .. m - 1 : link'[c[k]] = -c[k + 1]
  <2>1. m \in 1 .. m /\ c[m] \in DOMAIN link /\ c[m] \in chain
    BY <1>3, <1>7, <1>8
  <2>2. link'[c[m]] = -free
    BY <1>3, <1>5, <2>1
  <2>3. ASSUME NEW k \in 1 .. m - 1 PROVE link'[c[k]] = -c[k + 1]
    <3>1. k \in 1 .. m /\ k + 1 \in 1 .. m
      BY <1>3
    <3>2. link[c[k]] = c[k + 1] /\ c[k + 1] > 0 /\ c[k] \in DOMAIN link /\ c[k] \in chain
      BY <1>3, <1>7, <1>8, <3>1
    <3>3. link[c[k]] # 0
      BY <1>7, <1>8, <3>1, <3>2
    <3> QED
      BY <1>5, <3>2, <3>3
  <2> QED
    BY <2>2, <2>3
<1>10. ASSUME NEW q \in ids, q # p PROVE \E k, e : Chain(q, k, e)'
  <2>1. PICK k, e : Chain(q, k, e)
    BY DEF IInv, Chained
  <2>2. k \in Nat /\ k # 0 /\ e \in [1 .. k -> Used] /\ k \in 1 .. k /\ \A j \in 1 .. k - 1 : j \in 1 .. k
    BY <2>1 DEF Chain, Pieces
  <2>3. ASSUME NEW j \in 1 .. k PROVE link'[e[j]] = link[e[j]] /\ e[j] \in Used'
    <3>1. e[j] \in Used /\ owner[e[j]] = q
      BY <2>1, <2>2 DEF Chain, Pieces
    <3>2. e[j] \notin chain /\ e[j] \in DOMAIN link
      BY <1>4, <1>7, <1>8, <1>10, <3>1
    <3> QED
      BY <1>6, <3>1, <3>2
  <2>4. e \in [1 .. k -> Used']
    BY <2>2, <2>3
  <2>5. ASSUME NEW x \in Used' PROVE owner'[x] = q <=> \E j \in 1 .. k : e[j] = x
    BY <1>6, <2>1 DEF Chain, Pieces
  <2>6. Pieces(q, k, e)'
    BY <2>1, <2>2, <2>3, <2>4, <2>5 DEF Chain, Pieces
  <2> QED
    BY <2>1, <2>2, <2>3, <2>6 DEF Chain
<1>11. ids' \subseteq Used'
  <2>1. ASSUME NEW q \in ids, q # p PROVE q \in Used'
    <3>1. PICK k, e : Chain(q, k, e)'
      BY <1>10, <2>1
    <3>2. 1 \in 1 .. k /\ e[1] = q
      BY <3>1 DEF Chain, Pieces
    <3> QED
      BY <3>1, <3>2 DEF Chain, Pieces
  <2> QED
    BY <1>6, <2>1
<1>12. TypeOK'
  <2>1. owner' \in [Used' -> Elements] /\ Used' \subseteq Elements
    BY <1>1, <1>6, <1>5, <1>8 DEF TypeOK
  <2>2. link' \in [DOMAIN link -> Int]
    <3>1. \A x \in DOMAIN link : link[x] \in Int /\ -link[x] \in Int /\ -free \in Int
      BY <1>1 DEF TypeOK
    <3> QED
      BY <1>5, <3>1
  <2> QED
    BY <1>1, <1>6, <1>8, <1>11, <2>1, <2>2 DEF TypeOK
<1>13. Chained' /\ Open' /\ Owned'
  <2>1. Owned'
    BY <1>1, <1>4, <1>6 DEF Owned, IInv
  <2> QED
    BY <1>1, <1>6, <1>10, <2>1 DEF Chained, Open
<1>14. Threaded'
  <2>1. PICK n, s : Thread(n, s)
    BY DEF IInv, Threaded
  <2>2. /\ n \in Nat /\ n >= 1 /\ s[1] = free /\ s \in [1 .. n -> Elements] /\ link[s[n]] = 0
        /\ \A j, k \in 1 .. n : s[j] = s[k] => j = k
        /\ \A k \in 1 .. n - 1 : link[s[k]] = -s[k + 1]
        /\ \A k \in 1 .. n : s[k] \notin Used
        /\ \A x \in Elements : x \notin Used <=> \E k \in 1 .. n : s[k] = x
    <3>1. /\ n \in Nat /\ n >= 1 /\ s[1] = free /\ s \in [1 .. n -> Elements]
          /\ \A k \in 1 .. n : s[k] \notin Used
          /\ \A x \in Elements : x \notin Used <=> \E k \in 1 .. n : s[k] = x
      BY <1>1, <2>1, ThreadPositions
    <3>2. /\ link[s[n]] = 0 /\ \A j, k \in 1 .. n : s[j] = s[k] => j = k
          /\ \A k \in 1 .. n - 1 : link[s[k]] = -s[k + 1]
      BY <2>1 DEF Thread
    <3> QED
      BY <3>1, <3>2
  <2>3. \A k \in 1 .. n : link'[s[k]] = link[s[k]]
    BY <1>6, <1>7, <1>8, <2>2
  <2>4. PICK t : t = [k \in 1 .. m + n |-> IF k <= m THEN c[k] ELSE s[k - m]]
    OBVIOUS
  <2>5. \A k \in 1 .. m + n : IF k <= m THEN k \in 1 .. m ELSE k - m \in 1 .. n
    BY <1>3, <2>2
  <2>6. \A k \in 1 .. m : k \in 1 .. m + n /\ k <= m
    BY <1>3, <2>2
  <2>7. \A k \in 1 .. n : m + k \in 1 .. m + n /\ ~(m + k <= m) /\ (m + k) - m = k
    BY <1>3, <2>2
  <2>8. /\ \A k \in 1 .. m : t[k] = c[k]
        /\ \A k \in 1 .. n : t[m + k] = s[k]
    BY <2>4, <2>6, <2>7
  <2>9. \A k \in 1 .. m + n : t[k] \in Elements
    BY <1>8, <2>2, <2>4, <2>5
  <2>10. t \in [1 .. m + n -> Elements]
    BY <2>4, <2>9
  <2>11. ASSUME NEW j \in 1 .. m + n, NEW k \in 1 .. m + n, t[j] = t[k] PROVE j = k
    <3>1. CASE j <= m /\ k <= m
      BY <1>3, <2>5, <2>8, <2>11, <3>1
    <3>2. CASE ~(j <= m) /\ ~(k <= m)
      <4>1. t[j] = s[j - m] /\ t[k] = s[k - m] /\ j - m \in 1 .. n /\ k - m \in 1 .. n
        BY <2>4, <2>5, <3>2
      <4>2. j - m = k - m
        BY <2>2, <2>11, <4>1
      <4> QED
        BY <1>3, <2>2, <4>2
    <3>3. CASE ~(j <= m <=> k <= m)
      <4>1. ASSUME NEW a \in 1 .. m, NEW b \in 1 .. m + n, ~(b <= m), t[a] = t[b] PROVE FALSE
        <5>1. t[b] = s[b - m] /\ b - m \in 1 .. n
          BY <2>4, <2>5, <4>1
        <5>2. t[a] \in Used /\ t[b] \notin Used
          BY <1>8, <2>2, <2>8, <5>1
        <5> QED
          BY <4>1, <5>2
      <4> QED
        BY <2>5, <2>11, <3>3, <4>1
    <3> QED
      BY <3>1, <3>2, <3>3
  <2>12. t[1] = free' /\ link'[t[m + n]] = 0
    <3>1. 1 \in 1 .. m /\ n \in 1 .. n
      BY <1>3, <2>2
    <3> QED
      BY <1>3, <1>6, <2>2, <2>3, <2>8, <3>1
  <2>13. ASSUME NEW k \in 1 .. (m + n) - 1 PROVE link'[t[k]] = -t[k + 1]
    <3>1. CASE k < m
      <4>1. k \in 1 .. m - 1 /\ k \in 1 .. m /\ k + 1 \in 1 .. m
        BY <1>3, <2>2, <3>1
      <4> QED
        BY <1>9, <2>8, <4>1
    <3>2. CASE k = m
      <4>1. k \in 1 .. m /\ 1 \in 1 .. n
        BY <1>3, <2>2, <3>2
      <4>2. t[m] = c[m] /\ t[m + 1] = free
        BY <2>2, <2>8, <3>2, <4>1
      <4> QED
        BY <1>9, <3>2, <4>2
    <3>3. CASE k > m
      <4> DEFINE i == k - m
      <4>1. i \in 1 .. n - 1 /\ i \in 1 .. n /\ i + 1 \in 1 .. n /\ m + i = k /\ m + (i + 1) = k + 1
        BY <1>3, <2>2, <3>3
      <4> HIDE DEF i
      <4>2. t[k] = s[i] /\ t[k + 1] = s[i + 1]
        BY <2>8, <4>1
      <4> QED
        BY <2>2, <2>3, <4>1, <4>2
    <3> QED
      BY <1>3, <2>2, <3>1, <3>2, <3>3
  <2>14. ASSUME NEW x \in Elements PROVE x \notin Used' <=> \E k \in 1 .. m + n : t[k] = x
    <3>1. ASSUME x \notin Used' PROVE \E k \in 1 .. m + n : t[k] = x
      <4>1. CASE x \in chain
        BY <1>4, <2>6, <2>8, <4>1
      <4>2. CASE x \notin Used
        BY <2>2, <2>7, <2>8, <4>2
      <4> QED
        BY <1>6, <3>1, <4>1, <4>2
    <3>2. ASSUME NEW k \in 1 .. m + n, t[k] = x PROVE x \notin Used'
      <4>1. CASE k <= m
        BY <1>6, <1>8, <2>5, <2>8, <3>2, <4>1
      <4>2. CASE ~(k <= m)
        BY <1>6, <2>2, <2>4, <2>5, <3>2, <4>2
      <4> QED
        BY <4>1, <4>2
    <3> QED
      BY <3>1, <3>2
  <2>15. m + n \in Nat \ {0}
    BY <1>3, <2>2
  <2>16. Thread(m + n, t)'
    BY <1>6, <2>10, <2>11, <2>12, <2>13, <2>14, <2>15 DEF Thread
  <2> QED
    BY <2>16 DEF Threaded
<1> QED
  BY <1>12, <1>13, <1>14 DEF IInv

-----------------------------------------------------------------------------
(* The theorems.                                                           *)

\* Every step of the file, those in the middle of an element included, keeps the
\* free list a thread and the elements chains.
THEOREM Layout == Spec => []IInv
<1>1. IInv /\ [Next]_vars => IInv'
  <2> SUFFICES ASSUME IInv, [Next]_vars PROVE IInv'
    OBVIOUS
  <2>1. CASE UNCHANGED vars
    <3>1. /\ TypeOK' /\ Elements' = Elements /\ Used' = Used /\ Idle' = Idle /\ ids' = ids
          /\ free' = free /\ link' = link /\ owner' = owner /\ start' = start
      BY <2>1 DEF vars, IInv, TypeOK, Elements, Used, Idle
    <3>2. Threaded'
      BY <3>1 DEF IInv, Threaded, Thread
    <3>3. Chained'
      BY <3>1 DEF IInv, Chained, Chain, Pieces
    <3>4. Open'
      BY <3>1 DEF IInv, Open, Begun, Pieces
    <3>5. Owned'
      BY <3>1 DEF IInv, Owned
    <3> QED
      BY <3>1, <3>2, <3>3, <3>4, <3>5 DEF IInv
  <2>2. ASSUME NEW marker \in {"schemas", "strings"}, OtherPage(marker) PROVE IInv'
    BY <2>2, OtherPageInv
  <2>3. ASSUME NEW n \in 1 .. MaxLen, WriteBegin(n) PROVE IInv'
    BY <2>3, WriteBeginInv
  <2>4. CASE WriteChunk
    BY <2>4, WriteInv
  <2>5. ASSUME NEW p \in ids, Free(p) PROVE IInv'
    BY <2>5, FreeInv
  <2> QED
    BY <2>1, <2>2, <2>3, <2>4, <2>5 DEF Next
<1> QED
  BY InitInv, <1>1, PTL DEF Spec

\* Whatever the sizes are, pages fill the file from the header to file_end, and
\* no link, head or id is a position that is not a chunk's.
THEOREM LayoutTypeOK == Spec => []TypeOK
<1>1. IInv => TypeOK
  BY DEF IInv
<1> QED
  BY <1>1, Layout, PTL

\* Whatever the sizes are, every chunk of the elements' pages is in use or on the
\* free list, never both, and the links of an element lead to the chunks written
\* for it: no chunk that WriteBytesBatch takes is in use and no freed one is lost.
THEOREM ListMeetsChunks == Spec => []LinksMeetChunks
<1>1. IInv => LinksMeetChunks
  <2> SUFFICES ASSUME IInv PROVE LinksMeetChunks
    OBVIOUS
  <2>1. PICK n, s : Thread(n, s)
    BY DEF IInv, Threaded
  <2>2. TypeOK /\ Used \subseteq Elements
    BY DEF IInv, TypeOK
  <2>3. FreeList = {s[k] : k \in 1 .. n}
    BY <2>1, <2>2, FreeListRead
  <2>4. s \in [1 .. n -> Elements] /\ \A x \in Elements : x \notin Used <=> \E k \in 1 .. n : s[k] = x
    BY <2>1 DEF Thread
  <2>5. FreeList \cap Used = {} /\ FreeList \cup Used = Elements
    BY <2>2, <2>3, <2>4
  <2>6. \A p \in ids : Reached(link, p) = {x \in Used : owner[x] = p}
    BY <2>2, ChainRead DEF IInv, Chained
  <2> QED
    BY <2>5, <2>6 DEF LinksMeetChunks
<1> QED
  BY <1>1, Layout, PTL

\* A chunk of the elements' pages passes ValidateElementByPtr if its link is not
\* negative: its page is found and the reads stay in the file.
LEMMA ElementValid ==
  ASSUME TypeOK, NEW p \in Elements, link[p] >= 0
  PROVE  Valid(p)
<1>1. p \in DOMAIN link /\ p \in Nat
  BY Positions
<1>2. PICK k \in DOMAIN markers : markers[k] = "elements" /\ p \in ChunksAt(PageAt(k - 1))
  BY ElementsInPages
<1>3. k - 1 \in Nat /\ k - 1 < Len(markers) /\ Len(markers) \in Nat /\ fileEnd = PageAt(Len(markers))
  BY DEF TypeOK
<1>4. PageAt(k - 1) \in Nat /\ PageAt(k - 1) >= HeaderSize
  BY <1>3, PageSizes
<1>5. PageAt(k - 1) < p /\ p + ChunkSize <= PageAt(k - 1) + PageSize
  BY <1>2, <1>4, ChunkInPage
<1>6. PageOf(p) = PageAt(k - 1)
  <2>1. PageAt(k - 1) <= p /\ p < PageAt(k - 1) + PageSize
    BY <1>1, <1>4, <1>5, PageSizes, SizesAssumption
  <2> QED
    BY <1>1, <1>3, <2>1, PageFound
<1>7. p + ChunkSize <= fileEnd /\ p >= HeaderSize
  <2>1. PageAt(k - 1) + PageSize <= fileEnd /\ fileEnd \in Nat
    BY <1>3, PagesApart, PageSizes
  <2> QED
    BY <1>1, <1>4, <1>5, <2>1, PageSizes, SizesAssumption
<1>8. ~Throws(p) /\ NotNegative(p)
  BY <1>1, <1>3, <1>7, PageSizes, SizesAssumption DEF Throws, NotNegative
<1> QED
  BY <1>2, <1>6, <1>7, <1>8 DEF Valid

\* A chunk that passes is one of the elements' pages with such a link: the page
\* that is computed is its own.
LEMMA ValidElement ==
  ASSUME TypeOK, NEW p \in DOMAIN link, Valid(p)
  PROVE  p \in Elements /\ link[p] >= 0
<1> DEFINE L == Len(markers)
<1>1. L \in Nat /\ DOMAIN markers = 1 .. L /\ DOMAIN link = Chunks(L)
  BY DEF TypeOK
<1> HIDE DEF L
<1>2. PICK j \in DOMAIN markers : PageAt(j - 1) = PageOf(p) /\ markers[j] = "elements"
  BY DEF Valid
<1>3. PICK k \in 0 .. L - 1 : p \in ChunksAt(PageAt(k))
  BY <1>1 DEF Chunks
<1>4. PICK i : i = j - 1
  OBVIOUS
<1>5. k \in Nat /\ i \in Nat /\ j = i + 1
  BY <1>1, <1>4
<1>6. PageAt(k) \in Nat /\ PageAt(i) \in Nat /\ PageSize \in Nat /\ PageSize > 0 /\ PageAt(i) = PageAt(j - 1)
  <2>1. PageAt(i) = PageAt(j - 1)
    BY <1>4
  <2> QED
    BY <1>5, <2>1, PageSizes
<1>7. PageOf(p) = PageAt(k)
  <2>1. p \in Nat /\ PageAt(k) < p /\ p + ChunkSize <= PageAt(k) + PageSize
    BY <1>3, <1>6, ChunkInPage
  <2>2. ChunkSize \in Nat /\ ChunkSize > 0
    BY SizesAssumption
  <2>3. PageAt(k) <= p /\ p < PageAt(k) + PageSize
    BY <1>6, <2>1, <2>2
  <2> QED
    BY <1>5, <2>1, <2>3, PageFound
<1>8. k = i
  <2>1. ~(k < i)
    BY <1>2, <1>5, <1>6, <1>7, PagesApart
  <2>2. ~(i < k)
    BY <1>2, <1>5, <1>6, <1>7, PagesApart
  <2> QED
    BY <1>5, <2>1, <2>2
<1>9. p \in Elements
  BY <1>2, <1>3, <1>6, <1>8 DEF Elements
<1> QED
  BY <1>9 DEF Valid, NotNegative

\* The link of a chunk in use is not negative.
LEMMA UsedLinks ==
  ASSUME IInv, NEW x \in Used
  PROVE  x \in Elements /\ link[x] >= 0
<1>1. TypeOK /\ x \in Elements /\ Used \subseteq Elements /\ free \in Elements
  BY DEF IInv, TypeOK
<1>2. \A y \in Elements : y \in Nat
  BY <1>1, Positions
<1>3. ASSUME NEW p, NEW m, NEW c, Pieces(p, m, c), owner[x] = p,
             m # 0 => link[c[m]] >= 0
      PROVE  link[x] >= 0
  <2>1. PICK k \in 1 .. m : c[k] = x
    BY <1>3 DEF Pieces
  <2>2. m \in Nat
    BY <1>3 DEF Pieces
  <2>3. CASE k = m
    BY <1>3, <2>1, <2>2, <2>3
  <2>4. CASE k # m
    <3>1. k \in 1 .. m - 1 /\ k + 1 \in 1 .. m
      BY <2>1, <2>2, <2>4
    <3>2. link[x] = c[k + 1] /\ c[k + 1] \in Used
      BY <1>3, <2>1, <3>1 DEF Pieces
    <3>3. c[k + 1] \in Nat
      BY <1>1, <1>2, <3>2
    <3> QED
      BY <3>2, <3>3
  <2> QED
    BY <2>3, <2>4
<1>4. CASE owner[x] \in ids
  <2>1. PICK m, c : Chain(owner[x], m, c)
    BY <1>4 DEF IInv, Chained
  <2>2. Pieces(owner[x], m, c) /\ link[c[m]] >= 0
    BY <2>1 DEF Chain
  <2> QED
    BY <1>1, <1>3, <2>2
<1>5. CASE ~Idle /\ owner[x] = start
  <2>1. PICK m, c : Begun(m, c)
    BY <1>5 DEF IInv, Open
  <2>2. Pieces(owner[x], m, c) /\ (m # 0 => link[c[m]] = free)
    BY <1>5, <2>1 DEF Begun
  <2>3. free >= 0
    BY <1>1, <1>2
  <2> QED
    BY <1>1, <1>3, <2>2, <2>3
<1> QED
  BY <1>1, <1>4, <1>5 DEF IInv, Owned

\* Whatever the sizes are, ValidateElementByPtr accepts the id of every element
\* that was answered and is not deleted, however many chunks it has.
THEOREM LiveIdsAccepted == Spec => []IdsAccepted
<1>1. IInv => IdsAccepted
  BY UsedLinks, ElementValid DEF IInv, TypeOK, IdsAccepted
<1> QED
  BY <1>1, Layout, PTL

\* Whatever the sizes are, of the chunks of the file ValidateElementByPtr accepts
\* those in use, also the ones behind the first of an element, and of the free
\* ones the last of the list and no other.
THEOREM FreeChunksRefused == Spec => []FreeRefused
<1>1. IInv => FreeRefused
  <2> SUFFICES ASSUME IInv, NEW p \in DOMAIN link
               PROVE  Valid(p) <=> p \in Used \/ (p \in FreeList /\ link[p] = 0)
    BY DEF FreeRefused
  <2>1. PICK n, s : Thread(n, s)
    BY DEF IInv, Threaded
  <2>2. TypeOK
    BY DEF IInv
  <2>3. FreeList = {s[k] : k \in 1 .. n}
    BY <2>1, <2>2, FreeListRead
  <2>4. ASSUME p \in Used PROVE Valid(p)
    BY <2>2, <2>4, UsedLinks, ElementValid
  <2>5. ASSUME p \in FreeList, link[p] = 0 PROVE Valid(p)
    <3>1. p \in Elements
      BY <2>1, <2>2, <2>3, <2>5, ThreadPositions
    <3>2. link[p] >= 0
      BY <2>5
    <3> QED
      BY <2>2, <3>1, <3>2, ElementValid
  <2>6. ASSUME Valid(p), p \notin Used PROVE p \in FreeList /\ link[p] = 0
    <3>1. p \in Elements /\ link[p] >= 0
      BY <2>2, <2>6, ValidElement
    <3>2. PICK k \in 1 .. n : s[k] = p
      BY <2>1, <2>6, <3>1 DEF Thread
    <3>3. n \in Nat /\ (k \in 1 .. n - 1 => link[p] < 0)
      BY <2>1, <2>2, <3>2, ThreadPositions
    <3>4. link[p] \in Int
      BY <2>2 DEF TypeOK
    <3>5. k = n
      BY <3>1, <3>2, <3>3, <3>4
    <3> QED
      BY <2>1, <2>3, <3>2, <3>5 DEF Thread
  <2> QED
    BY <2>4, <2>5, <2>6
<1> QED
  BY <1>1, Layout, PTL

=============================================================================
