----------------------------- MODULE DatabaseFile -----------------------------
(***************************************************************************)
(* The database file across crashes: src/llp/include/FileInterface.h, the  *)
(* header that Database.h keeps in memory and at offset 0, and the writes  *)
(* of AllocPage, WriteBytesBatch and FreeBytesBatch in the order in which  *)
(* they reach the file.  One list stands for the three, which share only   *)
(* file_end; ChunkStore has them all, without a crash.                     *)
(*                                                                         *)
(* Each action makes at most one FileInterface::Write, those of a page and *)
(* its header taken together.  A Write ends in the buffer of the stream    *)
(* (fflush is for DEBUG builds only); the seek that every later access     *)
(* starts with puts it into the file.  So the file is one write behind     *)
(* what the program reads back, between calls too: the header a call ends  *)
(* with is lost if the process is killed before the next access.           *)
(*                                                                         *)
(* The file as the program reads it is link, data and hdr; disk is what    *)
(* the system has, and a kill leaves.                                      *)
(*                                                                         *)
(* Chunks are named by their ordinal, as in ChunkStore.                    *)
(***************************************************************************)
EXTENDS Integers, FiniteSets, Sequences

CONSTANTS
  ChunksPerPage,
  MaxLen,         \* bound: chunks of the longest structure
  MaxFile,        \* bound: chunks the file may grow to
  Values,         \* what a structure may say
  MaxFaults,      \* bound: faults
  Kinds           \* those that occur: "crash", "fail"

ASSUME SizesAssumption ==
  /\ ChunksPerPage \in Nat \ {0} /\ MaxLen \in Nat \ {0}
  /\ MaxFile \in Nat /\ ChunksPerPage <= MaxFile

Chunks == 1 .. MaxFile

VARIABLES
  \* the file as the program reads it: what the system has and the buffer
  link,     \* nxt_chunk of the chunks the file has: a function on 1 .. its length
  data,     \* the structure their data is a piece of: <<value, its chunks>>
  hdr,      \* [end, free] at offset 0: file_end and first_free_element
  disk,     \* what the system has: [link, data, hdr, held], held as below
  mem,      \* master_header_
  pc,       \* the write that comes next
  cur,      \* the chunk the call is at
  prev,     \* target_batch of FreeBytesBatch: the chunk written last
  left,     \* chunks of the batch still to be written
  mark,     \* result_position, or old_free_start
  val,      \* the batch written or freed: <<value, its chunks>>
  \* what the callers keep, and history
  held,     \* pointer returned and not freed since -> the structure written
  faults,   \* those there have been, in order
  latest    \* the call of the last access: [freeing, batch], batch as val

Zero == <<0, 0>>   \* data of a free chunk

file == <<link, data, hdr>>
call == <<pc, cur, prev, left, mark, val>>
vars == <<file, mem, call, held, faults, disk, latest>>

Idle == pc = "idle"

Freeing == pc \in {"freeChunk", "freeHeader"}

Return == pc' = "idle" /\ cur' = 0 /\ prev' = 0 /\ left' = 0 /\ mark' = 0 /\ val' = Zero

View == [link |-> link, data |-> data, hdr |-> hdr, held |-> held]

\* The seek, or read, that an access starts with: what is in the buffer goes to
\* the system.
Flush == disk' = View

Access == Flush /\ latest' = [freeing |-> Freeing, batch |-> val]

NoAccess == UNCHANGED <<disk, latest>>

Untouched == [freeing |-> FALSE, batch |-> Zero]

-----------------------------------------------------------------------------
(* The file is created: the header, a page, the header again.  (A file     *)
(* with the first header or none is of no use to anybody: Load refuses     *)
(* the one, the assertion in WriteBytesBatch the other.)                   *)

Init ==
  /\ link = <<>> /\ data = <<>>
  /\ hdr = [end |-> 0, free |-> 0] /\ mem = hdr
  /\ pc = "initPage" /\ cur = 0 /\ prev = 0 /\ left = 0 /\ mark = 0 /\ val = Zero
  /\ held = [p \in {} |-> Zero] /\ faults = <<>>
  /\ disk = View /\ latest = Untouched

-----------------------------------------------------------------------------
(* AllocPage: the page at file_end, whatever the file has there, then the  *)
(* header.  Its callers go on at the first chunk of the page.              *)

\* UpdateMasterHeader, with h in memory.
PutHeader(h) == hdr' = h /\ UNCHANGED <<link, data>> /\ Access

PageAt == mem.end + 1 .. mem.end + ChunksPerPage

WritePage ==
  /\ LET end == mem.end + ChunksPerPage
         size == IF Len(link) > end THEN Len(link) ELSE end
     IN /\ link' = [c \in 1 .. size |-> IF c \notin PageAt THEN link[c]
                                        ELSE IF c = end THEN 0 ELSE -(c + 1)]
        /\ data' = [c \in 1 .. size |-> IF c \in PageAt THEN Zero ELSE data[c]]
  /\ UNCHANGED hdr
  /\ Access

\* Mutant of WithPage: file_end stays.
WithPageShort == [end |-> mem.end, free |-> mem.end + 1]

WithPage == [end |-> mem.end + ChunksPerPage, free |-> mem.end + 1]

InitPage ==
  /\ pc = "initPage"
  /\ WritePage
  /\ pc' = "initHeader"
  /\ UNCHANGED <<mem, cur, prev, left, mark, val, held, faults>>

InitHeader ==
  /\ pc = "initHeader"
  /\ mem' = WithPage /\ PutHeader(mem')
  /\ Return
  /\ UNCHANGED <<held, faults>>

-----------------------------------------------------------------------------
(* WriteBytesBatch.  A file left by a crash or an exception can lead it to *)
(* a negative position: see Astray.                                        *)

\* The chunks that header h offers in a file with links l: its head and what
\* negative links lead to.
OfferedIn(l, h) ==
  LET at[k \in 0 .. MaxFile] ==
        IF k = 0 THEN h.free
        ELSE LET c == at[k - 1] IN
             IF c \in DOMAIN l /\ l[c] < 0 THEN -l[c] ELSE 0
  IN {at[k] : k \in 0 .. MaxFile} \cap DOMAIN l

Offered(h) == OfferedIn(link, h)

\* The bound of the model: the free list is long enough, or every chunk may
\* open a page.
Room(n) == n < Cardinality(Offered(mem)) \/ mem.end + n * ChunksPerPage <= MaxFile

WriteBegin(n, v) ==
  /\ Idle
  /\ mem.free # 0 /\ Room(n)
  /\ pc' = "chunk" /\ cur' = mem.free /\ left' = n /\ mark' = mem.free /\ val' = <<v, n>>
  /\ UNCHANGED <<file, mem, prev, held, faults>> /\ NoAccess

Put(c, l, v) ==
  /\ link' = [link EXCEPT ![c] = l]
  /\ data' = [data EXCEPT ![c] = v]
  /\ UNCHANGED hdr
  /\ Access

\* The next chunk of the free list is known.
WriteChunk ==
  /\ pc = "chunk" /\ left > 1 /\ cur > 0 /\ link[cur] # 0
  /\ Put(cur, -link[cur], val)
  /\ cur' = -link[cur] /\ left' = left - 1
  /\ UNCHANGED <<mem, pc, prev, mark, val, held, faults>>

\* The list ends here: a page first, and its header, then the chunk.
WriteNeedsPage ==
  /\ pc = "chunk" /\ left > 1 /\ cur > 0 /\ link[cur] = 0
  /\ WritePage
  /\ pc' = "pageHeader"
  /\ UNCHANGED <<mem, cur, prev, left, mark, val, held, faults>>

WritePageHeader ==
  /\ pc = "pageHeader"
  /\ mem' = WithPage /\ PutHeader(mem')
  /\ pc' = "chunkToPage"
  /\ UNCHANGED <<cur, prev, left, mark, val, held, faults>>

WriteChunkToPage ==
  /\ pc = "chunkToPage"
  /\ Put(cur, mem.free, val)
  /\ cur' = mem.free /\ left' = left - 1 /\ pc' = "chunk"
  /\ UNCHANGED <<mem, prev, mark, val, held, faults>>

\* Mutant of WriteLast: the head stays.
WriteLastStay ==
  /\ pc = "chunk" /\ left = 1 /\ cur > 0
  /\ Put(cur, 0, val)
  /\ pc' = IF link[cur] = 0 THEN "lastPage" ELSE "writeHeader"
  /\ UNCHANGED <<mem, cur, prev, left, mark, val, held, faults>>

\* The chunk after the last becomes the head in memory; if there is none, a
\* page is written before the header.
WriteLast ==
  /\ pc = "chunk" /\ left = 1 /\ cur > 0
  /\ Put(cur, 0, val)
  /\ mem' = [mem EXCEPT !.free = -link[cur]]
  /\ pc' = IF link[cur] = 0 THEN "lastPage" ELSE "writeHeader"
  /\ UNCHANGED <<cur, prev, left, mark, val, held, faults>>

LastPage ==
  /\ pc = "lastPage"
  /\ WritePage
  /\ pc' = "lastPageHeader"
  /\ UNCHANGED <<mem, cur, prev, left, mark, val, held, faults>>

LastPageHeader ==
  /\ pc = "lastPageHeader"
  /\ mem' = WithPage /\ PutHeader(mem')
  /\ pc' = "writeHeader"
  /\ UNCHANGED <<cur, prev, left, mark, val, held, faults>>

Holding(p, v) == [q \in DOMAIN held \cup {p} |-> IF q = p THEN v ELSE held[q]]

\* Mutant of WriteHeader: UpdateMasterHeader is not called.
WriteHeaderNot ==
  /\ pc = "writeHeader"
  /\ held' = Holding(mark, val)
  /\ Return
  /\ UNCHANGED <<file, mem, faults>> /\ NoAccess

WriteHeader ==
  /\ pc = "writeHeader"
  /\ PutHeader(mem)
  /\ held' = Holding(mark, val)
  /\ Return
  /\ UNCHANGED <<mem, faults>>

-----------------------------------------------------------------------------
(* FreeBytesBatch: the head in memory at once, then every link negated and *)
(* the last one joined to the old head, then the header.                   *)

FreeBegin(p) ==
  /\ Idle
  /\ mem.free # 0
  /\ mem' = [mem EXCEPT !.free = p]
  /\ pc' = "freeChunk" /\ cur' = p /\ mark' = mem.free /\ val' = held[p]
  /\ held' = [q \in DOMAIN held \ {p} |-> held[q]]
  /\ UNCHANGED <<file, prev, left, faults>> /\ NoAccess

FreeChunk ==
  /\ pc = "freeChunk" /\ cur > 0
  /\ Put(cur, -link[cur], Zero)
  /\ cur' = link[cur] /\ prev' = cur
  /\ UNCHANGED <<mem, pc, left, mark, val, held, faults>>

\* Mutant of FreeJoin: the old list is not joined.
FreeJoinCut ==
  /\ pc = "freeChunk" /\ cur = 0
  /\ Put(prev, 0, Zero)
  /\ pc' = "freeHeader"
  /\ UNCHANGED <<mem, cur, prev, left, mark, val, held, faults>>

FreeJoin ==
  /\ pc = "freeChunk" /\ cur = 0
  /\ Put(prev, -mark, Zero)
  /\ pc' = "freeHeader"
  /\ UNCHANGED <<mem, cur, prev, left, mark, val, held, faults>>

FreeHeader ==
  /\ pc = "freeHeader"
  /\ PutHeader(mem)
  /\ Return
  /\ UNCHANGED <<mem, held, faults>>

-----------------------------------------------------------------------------
(* The program ends and starts again.                                      *)

\* Database::Load.
Load == hdr

\* Between calls the file is closed and opened again.
Reopen ==
  /\ Idle
  /\ mem' = Load
  /\ Flush /\ latest' = Untouched
  /\ UNCHANGED <<file, call, held, faults>>

Strikes(kind) ==
  kind \in Kinds /\ Len(faults) < MaxFaults /\ faults' = Append(faults, kind)

\* The process is killed, what is in the buffer is lost, and the file opened
\* again.  What the callers may still count on is what the file accounts for.
Crash ==
  /\ Strikes("crash")
  /\ link' = disk.link /\ data' = disk.data /\ hdr' = disk.hdr /\ held' = disk.held
  /\ mem' = hdr'
  /\ latest' = Untouched
  /\ Return
  /\ UNCHANGED disk

\* fwrite of a page or a chunk fails, which it reports when the buffer runs over
\* (the header fits in); the exception leaves the call and the process goes on.
\* Other errors of the system show only in the seek before the next access,
\* whose result is not looked at: they are left out, as behind them nothing is
\* certain.
Fail ==
  /\ Strikes("fail")
  /\ pc \in {"initPage", "chunk", "chunkToPage", "lastPage", "freeChunk"} /\ cur >= 0
  /\ Access
  /\ Return
  /\ UNCHANGED <<file, mem, held>>

-----------------------------------------------------------------------------
\* The next access is at a negative position.  The seek fails and the access
\* is made wherever the stream is: the model ends here, and nothing below is
\* about what follows.
Astray == pc \in {"chunk", "freeChunk"} /\ cur < 0

Step ==
  \/ InitPage \/ InitHeader
  \/ WriteChunk \/ WriteNeedsPage \/ WritePageHeader \/ WriteChunkToPage
  \/ WriteLast \/ LastPage \/ LastPageHeader \/ WriteHeader
  \/ FreeChunk \/ FreeJoin \/ FreeHeader

Next ==
  \/ Step
  \/ \E n \in 1 .. MaxLen, v \in Values : WriteBegin(n, v)
  \/ \E p \in DOMAIN held : FreeBegin(p)
  \/ Reopen \/ Crash \/ Fail
  \/ Astray /\ UNCHANGED vars

Spec == Init /\ [][Next]_vars

-----------------------------------------------------------------------------
(* What must hold, faults or not.                                          *)

TypeOK ==
  /\ Len(link) \in 0 .. MaxFile /\ DOMAIN data = DOMAIN link
  /\ \A c \in DOMAIN link : link[c] \in -MaxFile .. MaxFile
  /\ \A h \in {hdr, mem} : h.end \in 0 .. Len(link) /\ h.free \in -MaxFile .. Len(link)
  /\ cur \in -MaxFile .. Len(link) /\ prev \in 0 .. Len(link)
  /\ DOMAIN held \subseteq DOMAIN link
  /\ DOMAIN disk = {"link", "data", "hdr", "held"}
  /\ left \in 0 .. MaxLen

\* What UpdateMasterHeader is for: between calls the header the stream has at
\* offset 0 is the one in memory, so closing the file and opening it again
\* changes nothing.  A write that failed leaves them different.
HeaderCurrent == Idle /\ (\A k \in DOMAIN faults : faults[k] # "fail") => hdr = mem

\* ReadStruct in a file with links l: the n chunks from p on.
ReadIn(l, p, n) ==
  LET at[k \in 1 .. n] == IF k = 1 THEN p ELSE l[at[k - 1]] IN at

Intact(f) ==
  \A p \in DOMAIN f.held :
    LET n == f.held[p][2] IN
    /\ \A k \in 1 .. n : ReadIn(f.link, p, n)[k] \in DOMAIN f.link
                      /\ f.data[ReadIn(f.link, p, n)[k]] = f.held[p]
    /\ f.link[ReadIn(f.link, p, n)[n]] = 0

\* A structure that was written and not freed is read as it was written, by the
\* process whatever call is running and whatever has failed, and in the file a
\* kill leaves if the access after the one that ended its writing has been made;
\* until a call goes astray.
HeldIntact == ~Astray => Intact(View) /\ Intact(disk)

HeldChunksIn(l, h) == UNION {{ReadIn(l, p, h[p][2])[k] : k \in 1 .. h[p][2]} : p \in DOMAIN h}

HeldChunks == HeldChunksIn(link, held)

\* Neither the header in memory, nor the one in the buffer or the file, nor the
\* one that a kill leaves offers a chunk of a structure that is held; until a
\* call goes astray.
NeverOffered ==
  ~Astray =>
    /\ (Offered(hdr) \cup Offered(mem)) \cap HeldChunks = {}
    /\ OfferedIn(disk.link, disk.hdr) \cap HeldChunksIn(disk.link, disk.held) = {}

\* The chunks of a file that are lost for ever.
LostIn(l, h, hd) == 1 .. h.end \ (OfferedIn(l, h) \cup HeldChunksIn(l, hd))

\* The head of the list is a chunk that is in use.
UsedHead(l, h) == h.free # 0 /\ l[h.free] > 0

Lost == LostIn(link, hdr, held)

DiskLost == LostIn(disk.link, disk.hdr, disk.held)

\* What the first kill costs.  A file closed between calls has lost nothing.  If
\* the last call to touch the file was freeing, or has freed, a structure, at
\* most the chunks of that are lost.  Only if it was writing one, or has
\* written it, can the list of the file run into a used chunk: the first of
\* that structure; then all the rest of the list may be lost with it.
CrashLoss ==
  faults = <<>> =>
    /\ Idle => Lost = {}
    /\ latest = Untouched => DiskLost = {}
    /\ latest.freeing => Cardinality(DiskLost) <= latest.batch[2]
    /\ UsedHead(disk.link, disk.hdr) =>
         latest.batch # Zero /\ ~latest.freeing /\ disk.data[disk.hdr.free] = latest.batch

-----------------------------------------------------------------------------
(* What the code asserts and does not keep.                                *)

\* FileInterface::Read asserts that its position is not negative.
ReadsInFile == ~(pc \in {"chunk", "freeChunk"} /\ cur < 0)
===============================================================================
