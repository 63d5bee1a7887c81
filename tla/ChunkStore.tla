----------------------------- MODULE ChunkStore -----------------------------
(***************************************************************************)
(* The storage layer of src/llp/include/Database.h: a file of pages, every *)
(* page a row of equal chunks, every chunk with one link nxt_chunk.        *)
(*                                                                         *)
(* Three lists (schemas, elements, strings) share the file.  A structure   *)
(* of n chunks is a chain of positive links ending in 0; the unused chunks *)
(* of a list are a chain of negative links ending in 0.  WriteBytesBatch,  *)
(* FreeBytesBatch and RewriteBytesBatch are modelled one loop iteration    *)
(* per action, so that every intermediate file is a state.                 *)
(*                                                                         *)
(* A chunk is named by its ordinal in the file (page k holds the chunks    *)
(* (k-1)*ChunksPerPage+1 .. k*ChunksPerPage); 0 is the null pointer.       *)
(*                                                                         *)
(* The header is the one in memory, which every call here writes back at   *)
(* its end.  first_element, which WriteBytesBatch also sets in the list of *)
(* schemas, belongs to that list and is not kept here.                     *)
(***************************************************************************)
EXTENDS Integers, FiniteSets, Sequences

CONSTANTS
  NumLists,       \* FileChunkedLists of the header: 1 schemas, 2 elements, 3 strings
  ChunksPerPage,  \* kDefaultPageSize / sizeof(PageChunk)
  MaxLen,         \* bound: chunks of the longest structure
  MaxFile,        \* bound: chunks the file may grow to
  Values,         \* what a structure may say
  NoVal           \* what a chunk filled with zeros says

ASSUME SizesAssumption ==
  /\ NumLists \in Nat \ {0}
  /\ ChunksPerPage \in Nat \ {0}
  /\ MaxLen \in Nat \ {0}
  /\ MaxFile \in Nat

\* Database::Init has room for its pages.
ASSUME FileAssumption == NumLists * ChunksPerPage <= MaxFile

ASSUME NoValAssumption == NoVal \notin Values

Lists  == 1 .. NumLists
Chunks == 1 .. MaxFile
Ptr    == 0 .. MaxFile
Link   == -MaxFile .. MaxFile

VARIABLES
  \* the file and the header
  fileEnd,    \* file_end, in chunks
  marker,     \* the list whose page_header.magic_marker covers the chunk
  nxt,        \* PageChunk.nxt_chunk
  data,       \* PageChunk.data: <<value, piece>>, pieces counted from the end
  firstFree,  \* FileChunkedList.first_free_element
  \* the call being executed and its locals
  pc,         \* "init", "idle", "write", "free" or "rewrite"
  lst,        \* elements_list
  cur,        \* the chunk the next iteration reads
  tgt,        \* target_batch of FreeBytesBatch: the chunk written last
  left,       \* chunks of the batch still to be written
  mark,       \* result_position, old_free_start, or start
  val,        \* the batch being written
  \* what the callers keep, and history: no step of the code reads these two
  held,       \* pointers returned by WriteBytesBatch and not freed since
  owner,      \* first chunk of the structure a used chunk belongs to, 0 if free
  rank        \* chunks from this one to the end of its chain

file  == <<fileEnd, marker, nxt, data, firstFree>>
locals == <<pc, lst, cur, tgt, left, mark, val>>
ghosts == <<held, owner, rank>>
vars  == <<file, locals, ghosts>>

Zero == <<NoVal, 0>>          \* PageChunk.data filled with zeros

Allocated == 1 .. fileEnd
Used(c)   == owner[c] # 0
Free(c)   == owner[c] = 0

-----------------------------------------------------------------------------
(* AllocPage: the links of a page appended at fileEnd.                     *)

NewPage == fileEnd + 1 .. fileEnd + ChunksPerPage

\* Mutant of PageLinks: the loop's link stays in the last chunk of the page.
PageLinksOpen(links) ==
  [c \in Chunks |-> IF c \in NewPage THEN -(c + 1) ELSE links[c]]

PageLinks(links) ==
  [c \in Chunks |-> IF c \notin NewPage THEN links[c]
                    ELSE IF c = fileEnd + ChunksPerPage THEN 0 ELSE -(c + 1)]

AllocPage(l) ==
  /\ fileEnd' = fileEnd + ChunksPerPage
  /\ marker' = [c \in Chunks |-> IF c \in NewPage THEN l ELSE marker[c]]
  /\ firstFree' = [firstFree EXCEPT ![l] = fileEnd + 1]

PageRanks(ranks) ==
  [c \in Chunks |-> IF c \in NewPage THEN fileEnd + ChunksPerPage + 1 - c ELSE ranks[c]]

\* The call returns: its locals are gone.
Return ==
  /\ pc' = "idle"
  /\ lst' = 1 /\ cur' = 0 /\ tgt' = 0 /\ left' = 0 /\ mark' = 0 /\ val' = NoVal

-----------------------------------------------------------------------------
(* Database::Init: one page per list, in the order of the header.          *)

Init ==
  /\ fileEnd = 0
  /\ marker = [c \in Chunks |-> 0]
  /\ nxt = [c \in Chunks |-> 0]
  /\ data = [c \in Chunks |-> Zero]
  /\ firstFree = [l \in Lists |-> 0]
  /\ pc = "init" /\ lst = 1
  /\ cur = 0 /\ tgt = 0 /\ left = 0 /\ mark = 0 /\ val = NoVal
  /\ held = {}
  /\ owner = [c \in Chunks |-> 0]
  /\ rank = [c \in Chunks |-> 0]

InitPage ==
  /\ pc = "init"
  /\ AllocPage(lst)
  /\ nxt' = PageLinks(nxt)
  /\ rank' = PageRanks(rank)
  /\ IF lst < NumLists
       THEN lst' = lst + 1 /\ UNCHANGED <<pc, cur, tgt, left, mark, val>>
       ELSE Return
  /\ UNCHANGED <<data, held, owner>>

-----------------------------------------------------------------------------
(* WriteBytesBatch: a structure takes chunks from the head of the free     *)
(* list, appending a page as soon as the list runs out.                    *)

\* The bound of the model: the free list is long enough, or each of the n
\* chunks may open a page.
Room(l, n) ==
  \/ n < rank[firstFree[l]]
  \/ fileEnd + n * ChunksPerPage <= MaxFile

WriteBegin(l, n, v) ==
  /\ pc = "idle"
  /\ Room(l, n)
  /\ pc' = "write" /\ lst' = l /\ left' = n /\ val' = v
  /\ cur' = firstFree[l] /\ mark' = firstFree[l]
  /\ UNCHANGED <<file, tgt, ghosts>>

\* cur is written as a chunk of the structure that starts at mark.
Claim ==
  /\ data' = [data EXCEPT ![cur] = <<val, left>>]
  /\ owner' = [owner EXCEPT ![cur] = mark]

\* Mutant of WriteNext: the link keeps the sign it has in the free list.
WriteNextSign ==
  /\ pc = "write" /\ left > 1
  /\ nxt[cur] # 0
  /\ Claim
  /\ rank' = [rank EXCEPT ![cur] = left]
  /\ cur' = -nxt[cur] /\ left' = left - 1
  /\ UNCHANGED <<fileEnd, marker, nxt, firstFree, pc, lst, tgt, mark, val, held>>

WriteNext ==
  /\ pc = "write" /\ left > 1
  /\ nxt[cur] # 0
  /\ Claim
  /\ nxt' = [nxt EXCEPT ![cur] = -nxt[cur]]
  /\ rank' = [rank EXCEPT ![cur] = left]
  /\ cur' = -nxt[cur] /\ left' = left - 1
  /\ UNCHANGED <<fileEnd, marker, firstFree, pc, lst, tgt, mark, val, held>>

WriteNextPage ==
  /\ pc = "write" /\ left > 1
  /\ nxt[cur] = 0
  /\ AllocPage(lst)
  /\ Claim
  /\ nxt' = PageLinks([nxt EXCEPT ![cur] = fileEnd + 1])
  /\ rank' = PageRanks([rank EXCEPT ![cur] = left])
  /\ cur' = fileEnd + 1 /\ left' = left - 1
  /\ UNCHANGED <<pc, lst, tgt, mark, val, held>>

\* Mutant of WriteLast: every structure ends by opening a page.
WriteLastEager ==
  /\ pc = "write" /\ left = 1
  /\ nxt[cur] # 0
  /\ fileEnd + ChunksPerPage <= MaxFile
  /\ AllocPage(lst)
  /\ Claim
  /\ nxt' = PageLinks([nxt EXCEPT ![cur] = 0])
  /\ rank' = PageRanks([rank EXCEPT ![cur] = 1])
  /\ held' = held \cup {mark}
  /\ Return

WriteLast ==
  /\ pc = "write" /\ left = 1
  /\ nxt[cur] # 0
  /\ Claim
  /\ nxt' = [nxt EXCEPT ![cur] = 0]
  /\ rank' = [rank EXCEPT ![cur] = 1]
  /\ firstFree' = [firstFree EXCEPT ![lst] = -nxt[cur]]
  /\ held' = held \cup {mark}
  /\ Return
  /\ UNCHANGED <<fileEnd, marker>>

\* Mutant of WriteLastPage: the list is left without a free chunk.
WriteLastNoPage ==
  /\ pc = "write" /\ left = 1
  /\ nxt[cur] = 0
  /\ Claim
  /\ rank' = [rank EXCEPT ![cur] = 1]
  /\ firstFree' = [firstFree EXCEPT ![lst] = 0]
  /\ held' = held \cup {mark}
  /\ Return
  /\ UNCHANGED <<fileEnd, marker, nxt>>

WriteLastPage ==
  /\ pc = "write" /\ left = 1
  /\ nxt[cur] = 0
  /\ AllocPage(lst)
  /\ Claim
  /\ nxt' = PageLinks([nxt EXCEPT ![cur] = 0])
  /\ rank' = PageRanks([rank EXCEPT ![cur] = 1])
  /\ held' = held \cup {mark}
  /\ Return

-----------------------------------------------------------------------------
(* FreeBytesBatch: the chain is negated link by link, and its last chunk   *)
(* is then linked to the old free list.                                    *)

FreeBegin(p) ==
  /\ pc = "idle"
  /\ p \in held
  /\ pc' = "free" /\ lst' = marker[p]
  /\ mark' = firstFree[marker[p]]
  /\ firstFree' = [firstFree EXCEPT ![marker[p]] = p]
  /\ cur' = p
  /\ held' = held \ {p}
  /\ UNCHANGED <<fileEnd, marker, nxt, data, tgt, left, val, owner, rank>>

\* Mutant of FreeNext: only the first chunk of the structure is freed.
FreeNextOnce ==
  /\ pc = "free" /\ cur # 0
  /\ nxt' = [nxt EXCEPT ![cur] = -nxt[cur]]
  /\ data' = [data EXCEPT ![cur] = Zero]
  /\ tgt' = cur /\ cur' = 0
  /\ owner' = [owner EXCEPT ![cur] = 0]
  /\ rank' = [rank EXCEPT ![cur] = rank[cur] + rank[mark]]
  /\ UNCHANGED <<fileEnd, marker, firstFree, pc, lst, left, mark, val, held>>

\* Mutant of FreeNext: the loop reads the same chunk again and again.
FreeNextStuck ==
  /\ pc = "free" /\ cur # 0
  /\ nxt' = [nxt EXCEPT ![cur] = -nxt[cur]]
  /\ data' = [data EXCEPT ![cur] = Zero]
  /\ tgt' = cur
  /\ owner' = [owner EXCEPT ![cur] = 0]
  /\ UNCHANGED <<fileEnd, marker, firstFree, pc, lst, cur, left, mark, val, held, rank>>

FreeNext ==
  /\ pc = "free" /\ cur # 0
  /\ nxt' = [nxt EXCEPT ![cur] = -nxt[cur]]
  /\ data' = [data EXCEPT ![cur] = Zero]
  /\ tgt' = cur /\ cur' = nxt[cur]
  /\ owner' = [owner EXCEPT ![cur] = 0]
  /\ rank' = [rank EXCEPT ![cur] = rank[cur] + rank[mark]]
  /\ UNCHANGED <<fileEnd, marker, firstFree, pc, lst, left, mark, val, held>>

\* Mutant of FreeLast: the old free list is forgotten.
FreeLastCut ==
  /\ pc = "free" /\ cur = 0
  /\ nxt' = [nxt EXCEPT ![tgt] = 0]
  /\ Return
  /\ UNCHANGED <<fileEnd, marker, data, firstFree, ghosts>>

FreeLast ==
  /\ pc = "free" /\ cur = 0
  /\ nxt' = [nxt EXCEPT ![tgt] = -mark]
  /\ Return
  /\ UNCHANGED <<fileEnd, marker, data, firstFree, ghosts>>

-----------------------------------------------------------------------------
(* RewriteBytesBatch: the same number of chunks is written over the chain. *)
(* Every caller packs the structure it has just read from p, so the size   *)
(* is that of the chain.                                                   *)

RewriteBegin(p, v) ==
  /\ pc = "idle"
  /\ p \in held
  /\ pc' = "rewrite" /\ lst' = marker[p]
  /\ cur' = p /\ mark' = p /\ left' = rank[p] /\ val' = v
  /\ UNCHANGED <<file, tgt, ghosts>>

\* Mutant of RewriteNext: the chunks of a structure are taken to be adjacent.
RewriteNextAdjacent ==
  /\ pc = "rewrite" /\ left > 1
  /\ data' = [data EXCEPT ![cur] = <<val, left>>]
  /\ cur' = cur + 1 /\ left' = left - 1
  /\ UNCHANGED <<fileEnd, marker, nxt, firstFree, pc, lst, tgt, mark, val, ghosts>>

RewriteNext ==
  /\ pc = "rewrite" /\ left > 1
  /\ data' = [data EXCEPT ![cur] = <<val, left>>]
  /\ cur' = nxt[cur] /\ left' = left - 1
  /\ UNCHANGED <<fileEnd, marker, nxt, firstFree, pc, lst, tgt, mark, val, ghosts>>

RewriteLast ==
  /\ pc = "rewrite" /\ left = 1
  /\ data' = [data EXCEPT ![cur] = <<val, 1>>]
  /\ nxt' = [nxt EXCEPT ![cur] = 0]
  /\ Return
  /\ UNCHANGED <<fileEnd, marker, firstFree, ghosts>>

-----------------------------------------------------------------------------
Step ==
  \/ InitPage
  \/ WriteNext \/ WriteNextPage \/ WriteLast \/ WriteLastPage
  \/ FreeNext \/ FreeLast
  \/ RewriteNext \/ RewriteLast

Next ==
  \/ Step
  \/ \E l \in Lists, n \in 1 .. MaxLen, v \in Values : WriteBegin(l, n, v)
  \/ \E p \in Chunks : FreeBegin(p)
  \/ \E p \in Chunks, v \in Values : RewriteBegin(p, v)

Spec == Init /\ [][Next]_vars

\* A call that has begun is executed: its thread keeps running.
FairSpec == Spec /\ WF_vars(Step)

-----------------------------------------------------------------------------
(* ReadStruct and the walk along the free list.                            *)

\* The chunks met from p along the links, with the sign the walk expects.  A
\* walk longer than the file goes round in circles and is cut there.
Walk(p, sign) ==
  LET at[k \in 1 .. fileEnd + 1] ==
        IF k = 1 THEN p
        ELSE LET before == at[k - 1]
             IN IF before \in Allocated THEN sign * nxt[before] ELSE 0
  IN [k \in {j \in 1 .. fileEnd + 1 : at[j] # 0} |-> at[k]]

ReadStruct(p) ==
  LET chain == Walk(p, 1)
  IN [k \in DOMAIN chain |-> IF chain[k] \in Allocated THEN data[chain[k]] ELSE Zero]

FreeChunks(l) == {c \in Allocated : marker[c] = l /\ Free(c)}

-----------------------------------------------------------------------------
(* What must hold.                                                         *)

TypeOK ==
  /\ fileEnd \in 0 .. MaxFile
  /\ marker \in [Chunks -> 0 .. NumLists]
  /\ nxt \in [Chunks -> Link]
  /\ data \in [Chunks -> (Values \cup {NoVal}) \X (0 .. MaxLen)]
  /\ firstFree \in [Lists -> Ptr]
  /\ pc \in {"init", "idle", "write", "free", "rewrite"}
  /\ lst \in Lists
  /\ cur \in Ptr /\ tgt \in Ptr /\ mark \in Ptr
  /\ left \in 0 .. MaxLen
  /\ val \in Values \cup {NoVal}
  /\ held \subseteq Chunks
  /\ owner \in [Chunks -> Ptr]
  /\ rank \in [Chunks -> Nat]

\* Whenever a call may begin, the head of every list is a free chunk of a page
\* of that list: assert(elements_list.first_free_element) at the start of
\* WriteBytesBatch and FreeBytesBatch, and what both do with that chunk.
FreeHeadReady ==
  pc = "idle" =>
    \A l \in Lists : /\ firstFree[l] \in Allocated
                     /\ marker[firstFree[l]] = l
                     /\ Free(firstFree[l])

\* Between calls the walk along a free list meets every chunk of the list that
\* no caller holds, once each, and ends: no chunk is lost or given out twice.
FreeListComplete ==
  pc = "idle" =>
    \A l \in Lists :
      LET walk == Walk(firstFree[l], -1)
      IN /\ {walk[k] : k \in DOMAIN walk} = FreeChunks(l)
         /\ Cardinality(DOMAIN walk) = Cardinality(FreeChunks(l))

\* Between calls, a chunk that is not free belongs to a structure some caller
\* still holds, and lies in a page of that structure's list.
NoOrphan ==
  pc = "idle" =>
    \A c \in Allocated : Used(c) => owner[c] \in held /\ marker[c] = marker[owner[c]]

\* AllocPage overwrites first_free_element, so the file may grow only when the
\* list has no free chunk but the one being filled ("because of this no new
\* page may be allocated while there is free space", in AllocPage).
PageOnlyWhenFull == [][fileEnd' # fileEnd => FreeChunks(lst) \subseteq {cur}]_vars

\* Every call returns: no loop over links runs for ever.
CallReturns == (pc # "idle") ~> (pc = "idle")

-----------------------------------------------------------------------------
(* The inductive invariant.  A chain is described locally: rank counts its *)
(* chunks down to 1, every link goes to the chunk of the next lower rank   *)
(* of the same chain, and no two chunks of one chain have the same rank.   *)

\* The lists whose page Init has appended.
Open == IF pc = "init" THEN 1 .. lst - 1 ELSE Lists

\* Every chunk of the file lies in a page of a list; none beyond is in use.
Pages == /\ \A c \in Allocated : marker[c] \in Open
         /\ \A c \in Chunks \ Allocated : Free(c)

\* The free chunk of l from which the others are reached.
Top(l) ==
  IF l = lst /\ pc = "write" THEN cur
  ELSE IF l = lst /\ pc = "free" /\ tgt = 0 THEN mark
  ELSE firstFree[l]

\* Free chunks hang together from Top.
FreeTops ==
  \A l \in Open : /\ Top(l) \in Allocated
                  /\ marker[Top(l)] = l
                  /\ Free(Top(l))

\* During FreeBytesBatch tgt is not linked to the old list yet: its link still
\* shows the next chunk to free.
FreeLink(c) ==
  /\ 1 <= rank[c] /\ rank[c] <= rank[Top(marker[c])]
  /\ nxt[c] <= 0
  /\ ~(pc = "free" /\ c = tgt) =>
       /\ nxt[c] = 0 => rank[c] = 1
       /\ nxt[c] # 0 => /\ -nxt[c] \in Allocated
                        /\ Free(-nxt[c])
                        /\ marker[-nxt[c]] = marker[c]
                        /\ rank[-nxt[c]] = rank[c] - 1

FreeLinks == \A c \in Allocated : Free(c) => FreeLink(c)

FreeRanks ==
  \A a, b \in Allocated :
    Free(a) /\ Free(b) /\ marker[a] = marker[b] /\ rank[a] = rank[b] => a = b

\* The first chunk of what is left of the structure p.
FirstOf(p) == IF pc = "free" /\ p = firstFree[lst] THEN cur ELSE p

\* Used chunks form the structures callers hold, the one WriteBytesBatch has
\* begun, and the rest of the one FreeBytesBatch is taking apart.
Structures ==
  held \cup {p \in {mark} : pc = "write" /\ p # cur}
       \cup {p \in {firstFree[lst]} : pc = "free" /\ cur # 0}

UsedTops ==
  \A p \in Structures : /\ FirstOf(p) \in Allocated
                        /\ owner[FirstOf(p)] = p

\* The chunk WriteBytesBatch wrote last is linked to the next one it will take.
UsedLink(c) ==
  /\ owner[c] \in Structures
  /\ marker[c] = marker[owner[c]]
  /\ 1 <= rank[c] /\ rank[c] <= rank[FirstOf(owner[c])] /\ rank[c] <= MaxLen
  /\ 0 <= nxt[c]
  /\ IF pc = "write" /\ owner[c] = mark /\ rank[c] = left + 1 THEN nxt[c] = cur
     ELSE /\ nxt[c] = 0 => rank[c] = 1
          /\ nxt[c] # 0 => /\ nxt[c] \in Allocated
                           /\ owner[nxt[c]] = owner[c]
                           /\ rank[nxt[c]] = rank[c] - 1

UsedLinks == \A c \in Allocated : Used(c) => UsedLink(c)

UsedRanks ==
  \A a, b \in Allocated :
    Used(a) /\ owner[a] = owner[b] /\ rank[a] = rank[b] => a = b

\* What the locals of the call in progress say.
InitCall ==
  pc = "init" => /\ fileEnd + (NumLists - lst + 1) * ChunksPerPage <= MaxFile
                 /\ held = {}

WriteCall ==
  pc = "write" =>
    /\ val \in Values /\ 1 <= left
    /\ mark \in Allocated /\ marker[mark] = lst /\ mark \notin held
    /\ Free(mark) <=> mark = cur
    /\ \A c \in Allocated : owner[c] = mark => left < rank[c]
    /\ left < rank[cur] \/ fileEnd + left * ChunksPerPage <= MaxFile

FreeCall ==
  IF pc # "free" THEN tgt = 0 ELSE
    /\ firstFree[lst] \in Allocated /\ marker[firstFree[lst]] = lst
    /\ firstFree[lst] \notin held
    /\ mark \in Allocated /\ Free(mark) /\ marker[mark] = lst
    /\ tgt = 0 => cur = firstFree[lst]
    /\ tgt # 0 =>
         /\ tgt \in Allocated /\ Free(tgt) /\ marker[tgt] = lst
         /\ nxt[tgt] = -cur
         /\ rank[tgt] = rank[mark] + 1 + (IF cur = 0 THEN 0 ELSE rank[cur])
         /\ \A c \in Allocated :
              Free(c) /\ marker[c] = lst => rank[c] <= rank[mark] \/ rank[tgt] <= rank[c]

RewriteCall ==
  pc = "rewrite" =>
    /\ val \in Values /\ 1 <= left
    /\ mark \in held
    /\ cur \in Allocated /\ owner[cur] = mark /\ rank[cur] = left

IInv ==
  /\ TypeOK /\ Pages
  /\ FreeTops /\ FreeLinks /\ FreeRanks
  /\ UsedTops /\ UsedLinks /\ UsedRanks
  /\ InitCall /\ WriteCall /\ FreeCall /\ RewriteCall

-----------------------------------------------------------------------------
(* The abstract store: see ChunkHeap.  A structure appears when            *)
(* WriteBytesBatch returns, disappears when FreeBytesBatch begins and      *)
(* changes when RewriteBytesBatch begins.                                  *)

Pieces(v, n) == [k \in 1 .. n |-> <<v, n + 1 - k>>]

Heap ==
  [p \in held |-> IF pc = "rewrite" /\ mark = p
                  THEN Pieces(val, rank[p]) ELSE ReadStruct(p)]

HeapOfFile == INSTANCE ChunkHeap WITH Ptrs <- Chunks, heap <- Heap

ImplementsHeap == HeapOfFile!Spec

\* README.md, on DatabaseManager: "the size of the data file is always
\* proportional to the number of elements actually stored": between calls the
\* file holds no more pages than one per list and one per chunk in use.
FileSizeProportional ==
  pc = "idle" =>
    fileEnd <= ChunksPerPage * (NumLists + Cardinality({c \in Allocated : Used(c)}))

=============================================================================
