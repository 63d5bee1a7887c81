----------------------------- MODULE PageLayout -----------------------------
(***************************************************************************)
(* Where things are in the file of src/llp/include/Database.h: positions   *)
(* of pages and chunks, the links AllocPage computes, and what             *)
(* ValidateElementByPtr makes of a position a client passes as an id.      *)
(* Positions and sizes are in words of 8 bytes, of which all sizes are     *)
(* multiples; ids between two words are left out.                          *)
(*                                                                         *)
(* ChunkStore and ElementTree name chunks by their order in the file; here *)
(* they are bytes apart.                                                   *)
(***************************************************************************)
EXTENDS Integers, FiniteSets, Sequences

CONSTANTS
  HeaderSize,      \* sizeof(file_header), 11 words
  PageHeaderSize,  \* sizeof(page_header), 2 words: the marker and the size
  ChunkSize,       \* sizeof(PageChunk), 16 words: the link and the data
  ChunksPerPage,   \* kDefaultPageSize / sizeof(PageChunk), 32
  MaxLen,          \* bound: chunks of the longest element
  MaxPages         \* bound

ASSUME SizesAssumption ==
  /\ HeaderSize \in Nat \ {0} /\ PageHeaderSize \in Nat \ {0}
  /\ ChunkSize \in Nat \ {0} /\ ChunksPerPage \in Nat \ {0} /\ MaxPages \in Nat
  /\ MaxLen \in Nat

PageSize == PageHeaderSize + ChunksPerPage * ChunkSize

\* Page number k, from 0; the chunks of the page at a position; those of n pages.
PageAt(k) == HeaderSize + k * PageSize

ChunksAt(page) == {page + PageHeaderSize + i * ChunkSize : i \in 0 .. ChunksPerPage - 1}

Chunks(n) == UNION {ChunksAt(PageAt(k)) : k \in 0 .. n - 1}

VARIABLES
  fileEnd,   \* file_end
  markers,   \* magic_marker of the pages in their order: "schemas", "elements" or "strings"
  link,      \* position of a chunk -> nxt_chunk
  free,      \* elements.first_free_element; in WriteBytesBatch -next_free
  rest,      \* chunks WriteBytesBatch has still to write, 0 between calls
  start,     \* result_position
  ids,       \* positions of the elements
  owner      \* history: position of a chunk in use -> of the element it is for

vars == <<fileEnd, markers, link, free, rest, start, ids, owner>>

Used == DOMAIN owner

Idle == rest = 0

-----------------------------------------------------------------------------
\* Mutant of NewLink: the loop writes the link before it takes sizeof(PageChunk).
NewLinkSelf(page, x) == IF x + ChunkSize = page + PageSize THEN 0 ELSE -x

\* The link AllocPage gives the chunk at x: the next chunk, or none.
NewLink(page, x) == IF x + ChunkSize = page + PageSize THEN 0 ELSE -(x + ChunkSize)

\* AllocPage, but for the head of the list.
AppendPage(marker, links) ==
  /\ Len(markers) < MaxPages
  /\ markers' = Append(markers, marker)
  /\ fileEnd' = fileEnd + PageSize
  /\ link' = [x \in DOMAIN links \cup ChunksAt(fileEnd) |->
                IF x \in ChunksAt(fileEnd) THEN NewLink(fileEnd, x) ELSE links[x]]

Init ==
  /\ markers = <<"schemas", "elements", "strings">>
  /\ fileEnd = PageAt(3)
  /\ link = [x \in Chunks(3) |->
               NewLink(CHOOSE page \in {PageAt(k) : k \in 0 .. 2} : x \in ChunksAt(page), x)]
  /\ free = PageAt(1) + PageHeaderSize
  /\ rest = 0 /\ start = 0
  /\ ids = {} /\ owner = [x \in {} |-> 0]

\* A page of another list.
OtherPage(marker) ==
  /\ Idle /\ marker # "elements"
  /\ AppendPage(marker, link)
  /\ UNCHANGED <<free, rest, start, ids, owner>>

\* The chunks that links l lead to from x.
Reached(l, x) ==
  LET at[k \in 0 .. Cardinality(DOMAIN l)] ==
        IF k = 0 THEN x ELSE IF at[k - 1] = 0 THEN 0 ELSE l[at[k - 1]]
  IN {at[k] : k \in DOMAIN at} \ {0}

\* The free chunks, from the head on.
FreeList == Reached([x \in DOMAIN link |-> -link[x]], free)

\* The bound: each chunk may open a page.
Room(n) == n < Cardinality(FreeList) \/ Len(markers) + n <= MaxPages

WriteBegin(n) ==
  /\ Idle /\ Room(n)
  /\ rest' = n /\ start' = free
  /\ UNCHANGED <<fileEnd, markers, link, free, ids, owner>>

\* Mutant of Follow: the sign of the link is kept.
FollowSigned(x) == link[x]

\* The free chunk behind the free chunk x.
Follow(x) == -link[x]

\* The chunk that is taken after the free one, on a new page if it is the last.
After == IF link[free] = 0 THEN fileEnd + PageHeaderSize ELSE Follow(free)

\* Mutant of Onward: the next chunk's link is kept as it was read.
OnwardSigned == IF rest = 1 THEN 0 ELSE -After

\* The link of the chunk that is written.
Onward == IF rest = 1 THEN 0 ELSE After

\* One chunk of the element; with the last one the element's position is returned.
WriteChunk ==
  /\ ~Idle
  /\ LET links == [link EXCEPT ![free] = Onward] IN
     IF link[free] = 0 THEN AppendPage("elements", links)
                       ELSE link' = links /\ UNCHANGED <<fileEnd, markers>>
  /\ free' = After
  /\ owner' = [x \in Used \cup {free} |-> IF x = free THEN start ELSE owner[x]]
  /\ rest' = rest - 1
  /\ IF rest = 1 THEN ids' = ids \cup {start} /\ start' = 0 ELSE UNCHANGED <<ids, start>>

\* FreeBytesBatch of an element: every link of the chain is negated, the last one
\* leads to the old head.
Free(p) ==
  /\ Idle
  /\ LET chain == Reached(link, p) IN
     /\ link' = [x \in DOMAIN link |-> IF x \notin chain THEN link[x]
                                       ELSE IF link[x] = 0 THEN -free ELSE -link[x]]
     /\ owner' = [x \in Used \ chain |-> owner[x]]
  /\ ids' = ids \ {p}
  /\ free' = p
  /\ UNCHANGED <<fileEnd, markers, rest, start>>

Next ==
  \/ \E marker \in {"schemas", "strings"} : OtherPage(marker)
  \/ \E n \in 1 .. MaxLen : WriteBegin(n)
  \/ WriteChunk
  \/ \E p \in ids : Free(p)

Spec == Init /\ [][Next]_vars

-----------------------------------------------------------------------------
(* ValidateElementByPtr.                                                   *)

\* Mutant of PageOf: the file header is not taken off.
PageOfWhole(p) == p - (p % PageSize)

\* page_header_address
PageOf(p) == p - ((p - HeaderSize) % PageSize)

\* Whether the word at p, read as nxt_chunk, is not negative.  A marker has its
\* highest bit set; the size of a page has not; a data word need not.
NotNegative(p) ==
  IF p \in DOMAIN link THEN link[p] >= 0 ELSE PageOf(p) # p

\* The reads reach beyond the end of the file: they throw, and so does the call.
Throws(p) == p >= HeaderSize /\ p + ChunkSize > fileEnd

Valid(p) ==
  /\ p >= HeaderSize /\ ~Throws(p)
  /\ \E k \in DOMAIN markers : PageAt(k - 1) = PageOf(p) /\ markers[k] = "elements"
  /\ NotNegative(p)

-----------------------------------------------------------------------------
\* The chunks of the elements' pages.
Elements == UNION {ChunksAt(PageAt(k - 1)) : k \in {j \in DOMAIN markers : markers[j] = "elements"}}

\* Pages lie one behind the other from the header to file_end, and links, the
\* free head, the ids and what is in use are positions of chunks in them.
TypeOK ==
  /\ markers \in Seq({"schemas", "elements", "strings"})
  /\ fileEnd = PageAt(Len(markers))
  /\ link \in [Chunks(Len(markers)) -> Int]
  /\ free \in Elements /\ ids \subseteq Used /\ Used \subseteq Elements
  /\ owner \in [Used -> Elements]
  /\ rest \in 0 .. MaxLen

\* Every chunk of the elements' pages is in use or on the free list, never both;
\* the free list never leaves these pages; and the links of an element lead to
\* the chunks that were written for it and to no other.
LinksMeetChunks ==
  /\ FreeList \cap Used = {} /\ FreeList \cup Used = Elements
  /\ \A p \in ids : Reached(link, p) = {x \in Used : owner[x] = p}

\* ValidateElementByPtr accepts every id that was answered and is not deleted.
IdsAccepted == \A p \in ids : Valid(p)

\* Of the chunks it accepts those in use, also the ones in the middle of an
\* element, and the one free chunk its TODO names, the last.
FreeRefused ==
  \A p \in DOMAIN link : Valid(p) <=> p \in Used \/ (p \in FreeList /\ link[p] = 0)

-----------------------------------------------------------------------------
\* The TODO names one position that passes without being an element: the only
\* free chunk.  No other does.
OnlyLastChunk ==
  \A p \in 1 .. fileEnd : Valid(p) => p \in ids \/ (p \in FreeList /\ link[p] = 0)
=============================================================================
