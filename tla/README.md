# A verification development for the linked-chunk database

The repository is a document database in one file: schemas, a tree of elements
and strings are kept in chunks of pages (`src/llp`), a small query language is
parsed (`src/parser`), sent by a client (`src/client`) over gRPC
(`src/proto`) and answered by a server (`src/server`). This directory holds
TLA+ models of its core, what TLC checks of them and what TLAPS proves.

Every page and line below without a path is in `src/llp/include/Database.h`.

## 1. The system

| part | state | operations |
|---|---|---|
| chunk storage | `file_end`, per list `first_free_element`; in the file page headers and chunks with one link `nxt_chunk` | `Init` 310, `AllocPage` 329, `WriteBytesBatch` 363, `FreeBytesBatch` 405, `RewriteBytesBatch` 428, `ReadStruct` 451 |
| element tree | `elements.first_element`, `elements.count`, the four links of every `ElementBox`, `cnt_elements_` of every schema | `InsertElement` 612, `DeleteElement` 740, `DeleteElements` 761, `UpdateElements` 562, `GetElements` 501 and 534, `GetElementByPath` 511, `ElementsTreeIterator` 152-284, `ValidateElementByPtr` 847 |
| schema list | `schemas.first_element`, `schemas.count`, `nxt_` of every `SchemaBox` | `CreateSchema` 795, `DeleteSchema` 721, `GetSchemas` 699, `GetSchemaByName` 817, `SchemasListIterator` 125-150 |
| strings | the string pointers in schemas and elements | `SaveString` 477, `RemoveString` 812, `ReadString` 470 |
| conditions | a tree of `struct filter` in the client, a list of nodes on the wire, a vector of `fields_conditional` in the server | grammar in `parser.y` 121-173, `node_to_proto_filter` (client), `proto_new_fields_to_db_conds` (server), `CheckConditionals` in `Query.h` |
| commands | the lexer's and parser's globals `q` and `list_alloc`, the loop of the client's `main` | `lexer.l`, `parser.y`, `free_all`, `src/client/src/main.cpp` 78 |
| gRPC service | one `Database` shared by the handler's threads | `GetQuery` in `src/server/src/main.cpp` 77 |
| file | `FILE *` with one position; `master_header_` in memory and at offset 0 | `FileInterface.h`, `UpdateMasterHeader` 832, `Load` 286 |

How they interact: a public call of the Database walks the schema list, saves
or removes strings, reads and rewrites element boxes, and each of these is a
call of the chunk storage, which changes the file and the header. There are no
callbacks and no threads inside the Database; the server is the only place
where calls can overlap.

What is hard here: a link kept in two places and repaired in one; a chunk that
changes from used to free and back with the sign of its link; loops that trust a
counter; ids that are file positions and are reused; calls of which one part
fails after another has written; positions in a list of nodes that two programs
must count alike; several writes that belong together and between which the
process may end; a global that one turn of a loop leaves to the next.
`PROJECT.json` lists each at its line.

What makes each part correct:

- chunk storage: every chunk is in one free list or in one structure, chains
  end, a read returns what was written, the file grows only when it must;
- element tree: the links form one tree of the elements there are, the counters
  agree with it, a scan meets each element once, a conditional deletion or
  update touches exactly the elements it selects;
- schema list and strings: each string has one owner, a schema is deleted only
  when nothing refers to it;
- file: between calls the header the program would read back is the one in
  memory; what a killed process or a failed write leaves is still a database, and
  how much of what was answered it has is bounded;
- service: two calls do not disturb each other;
- commands: each is parsed as it was typed, whatever came before it, and sent
  once;
- conditions and values: what comes back is what the typed command says.

## 2. The modules

| module | models | depends on |
|---|---|---|
| `ChunkStore` | the storage layer, one loop iteration per action | `ChunkHeap` for the refinement |
| `ChunkHeap` | its promise: a heap of structures | |
| `PageLayout` | positions of pages and chunks, the links between them, the validation of ids | |
| `DatabaseFile` | the writes of the storage layer in their order, killed processes and failed writes, `Load` | |
| `ElementTree` | the data tree and its calls | `ElementForest` for the refinement |
| `ElementForest` | its promise: a tree that grows and shrinks by leaves | |
| `InsertSteps` | `InsertElement`, one access per action, with threads and crashes | |
| `SchemaStore` | the schema list, the strings and their owners | `SchemaCatalog` for the refinement |
| `SchemaCatalog` | its promise: a catalogue of definitions in use or not | |
| `ClientSession` | the prompt loop, the lexer and the parser over tokens | |
| `QueryPipeline` | one command from its tokens to the printed response | |
| `...Proofs` | theorems about the module of that name | that module, `WalkProofs`, `TLAPS` |
| `CommandProofs` | theorems about `ClientSession` and `QueryPipeline` | both, `WalkProofs`, `TLAPS` |
| `WalkProofs` | lemmas on walks: induction over the number of a step, the length of a walk without repetition | |
| `MC...` | definitions for TLC: schemas, queries, lines, commands | the module of that name |

The modules stand on each other by what they promise, not by `EXTENDS`:
`ElementTree`, `SchemaStore` and `InsertSteps` take a structure for one thing
with one pointer, which is what `ChunkHeap` says and `ChunkStore` is shown to
implement; `ChunkStore` names chunks by their order in the file, which
`PageLayout` shows to be sound for the computed positions; `QueryPipeline` takes
the tokens of a command for granted, and `ClientSession` shows which tokens
become one.

### ChunkStore and ChunkHeap

A chunk is named by its ordinal in the file instead of its offset; `marker` says
to which list the page of a chunk belongs. The list of the three template
instances is the parameter `lst`. The data of a chunk are abstracted to the
value being written and the number of the piece, counted from the end.
`InitPage`, `WriteNext`, `WriteNextPage`, `WriteLast`, `WriteLastPage`,
`FreeNext`, `FreeLast`, `RewriteNext` and `RewriteLast` are one iteration of the
loops or the code after them, so that every intermediate file is a state;
`WriteBegin`, `FreeBegin` and `RewriteBegin` are the code before the loops.

Callers free and rewrite only what they hold and rewrite it with a structure of
the same size: `held` records the pointers returned and not freed. That is
what the Database does with the pointers it stores, except after the faults
of section 5. `owner` and `rank` are history: no step reads them (`RewriteBegin`
takes from `rank` the size that the caller of the code passes).

`ChunkHeap` has one variable, pointer to sequence of pieces. A structure appears
when `WriteBytesBatch` returns, disappears when `FreeBytesBatch` starts and
changes when `RewriteBytesBatch` starts (in between nobody can read it); the
mapping reads the file with `ReadStruct`.

### PageLayout

`PageAt`, `ChunksAt` and `NewLink` are the address arithmetic of `AllocPage`,
with sizes as parameters. `WriteBegin` and `WriteChunk` are `WriteBytesBatch` for an
element of any number of chunks, one chunk per action: the free head moves by
following links, onto a new page at the end of one. `Free` is `FreeBytesBatch` of a
whole element, `OtherPage` puts pages of the other lists in between. `Valid` is
`ValidateElementByPtr`: the page below a position, its marker, the sign of the
word there. It accepts the later chunks of an element like the first one, and
`FreeRefused` says so; `InsertElement` refuses those by their size only (667). Positions are in words of eight bytes. Data words are never negative
in `NotNegative`, so it accepts at least what the code accepts.

### DatabaseFile

`link`, `data` and `hdr` are the file as the program reads it, `mem` is
`master_header_`. Each action makes at most one write, in the order of the code: page,
header, chunk, header.

`disk` is what the system has. `FileInterface::Write` calls `fflush` only under `DEBUG`
(`FileInterface.h`:63-65), which no `CMakeLists.txt` defines, so a write ends in the
buffer of the stream, and the `fseek` with which the next access starts hands it on.
`disk` is therefore one write behind, also between calls: the header with which a call
ends waits for the next call. `Flush` is that seek; `Access` does it and notes in `latest`
which call made the access. `held` is what callers were answered and did not free, as far
as the file accounts for it: `disk` has a `held` of its own.

`Crash` ends the call anywhere, loses what is in the buffer and loads the header the system
has. The prefix of the writes that is left may thus end before a write that was already
answered: the structure written last is then unknown to the file, and its head is offered
again. `Reopen` closes the file, which hands everything on. `Fail` ends a call with
the exception of `FileInterface::Write`, after which the server goes on with the header in
memory, which `FreeBytesBatch` and the end of a write have already changed. Only
`fwrite` of a page or a chunk fails so, when the buffer runs over; the header fits into
the buffer the seek has emptied, so no failure comes between line 357 and the
write of line 359.

What the model does not follow:

- errors of the system that show only in the `fseek` of the next access, whose
  result is not looked at (57-62 of `FileInterface.h`): behind them a write may be missing
  without anybody knowing, and nothing can be said of the file;
- what follows a seek to a negative position. It fails, and the access is made wherever the
  stream is. `Astray` is the state before such an access; the behaviour ends there, and the
  properties are about the time until then. `DatabaseFileCrash` (section 5) shows how it is reached;
- a write of which stdio hands on a part: a chunk across the end of a block is
  of a batch nobody was answered, a page is behind `hdr.end`;
- a `DEBUG` build, which flushes each write;
- the order in which an operating system that fails writes its pages back.

One list stands for the three.

### ElementTree and ElementForest

Storage is the free list as a sequence and the chunks of every element; that
this is what the file amounts to is what `ChunkStore` shows. `rec` is the
element box read from a chunk; a freed chunk reads as zeros. Elements have any
number of chunks, by schema (`Size`), and one may be too small to be the parent of
another (line 667). Schemas are created beforehand, values are
well typed, strings are left out: `SchemaStore` has them.

Calls do not overlap in the Database, so each is one action, except
`DeleteElements`: it removes under its own iterator, so `DeleteBegin`,
`DeleteRemove`, `DeleteSkip`, `DeleteReturn` are its iterations and
`DeleteThrow` the exception of a read that goes wrong. `GetElements` is the
function `Order` of the iterator; both it and `GetElementByPath` change nothing.
`GetElementByPath` has three outcomes: a path is found, it is not, or it goes on below
an element without children, when the code reads position 0 (518-526): `ReadStruct` reads
no chunk and the element box is taken from behind an empty buffer.

`damaged` is history: a call has written through a link or an id that does not
lead to the element it meant. `Remove` does so when it follows a stale
`prev_brother_link_`; `Insert` does so when the client passes a position that
passes `ValidateElementByPtr` without being an element. The behaviour is followed to
the end of that call. The invariants say `~damaged =>`: they hold up to the first
such call; what that call does to the tree is shown by a configuration that drops
the condition.

### InsertSteps

`InsertElement` with its accesses as actions: `Check`, `ReadSchema`, `ChooseId`,
`ReadParent`, `LinkParent`, `Take`, `Put`, `Head`, `ReadBrother`, `LinkBrother`,
`WriteSchema`, `Answer`. `loc` are the locals of a thread, so what a thread read
stays what it was when another one writes. `hdr`, `el` and `cnt` are the file as
the program reads it and `disk` is what the system has, one write behind as in
`DatabaseFile`. `Crash` throws away the header in memory, the locals and what is in the
buffer, which between calls is the header of the last answer: the file then knows nothing of
an answered element, and if it was the root a second one is accepted. `acked` is
what was answered and the file accounts for. Elements are one chunk, of one schema.

### SchemaStore and SchemaCatalog

`box`, `text` and `el` are the three lists as maps from pointers, `first` and
`count` the fields of the header. `Walk` trusts `count`, as the code does.
`CreateSchema`, `DeleteSchema`, `Insert`, `Refuse`, `Delete`, `DeleteStale` and `Update` are
whole calls: the strings they save or remove, the schema or element, the
counters. `Refuse` is the insertion that fails after its strings are saved.
`Update` stops at an element whose condition cannot be evaluated, with any of the others
already written; when it writes a column whose type differs it sets
`damaged`, and the behaviour ends there.

`order` and `prev` are there for one thing: whether `prev_brother_link_` of an element is
right when it is removed (`LinkedBack`). The strings go first (161-166). If the link is stale,
the element it leads to is then read as the previous brother; the read throws and the element
stays without its strings, or the element goes and the wrong chunk is written. `DeleteStale`
allows both and sets `damaged`. With three elements this happens without any update.

`lost` collects the strings of refused
insertions. `SchemaCatalog` is what a caller may expect: definitions in a list, newest
first, removed only when no element uses them.

### ClientSession

A line is a sequence of classes of tokens. `Shifts` and `Complete` are the
parser's decisions: a token is shifted as long as some command continues that way,
and a complete one is accepted at once (`YYACCEPT`). `Accept`, `Nothing`
and `Refuse` are the three ways in which `yyparse` returns, `Build` and `Respond` the rest
of the loop, `FreeAll` is `free_all`. Fields and new values count as `nodes`,
copies of names as `strings`.

### QueryPipeline

`Literal`, `NewVals`, `Filter`, `Filters` and `Command` are the grammar's
actions, `Write` and `Request` the client, `MapOf` and `DbConds` the server,
`Accepted` and `Check` the Database, and `AnswerInsert`, `AnswerFind`,
`AnswerUpdate`, `AnswerDelete`, `AnswerNot` and `AnswerThrow` the ways in which
a request ends. `Says`, `Sensible` and `Meant` are the meaning of a typed
command, written without looking at the code, and the properties compare the two.
Strings, doubles and Booleans are numbers with a type; `Half` is half of the
numbers of an int. There is one schema, at most two elements, and a parent a command
names is an element or is refused: what a client reaches with ids of its own making is in
`ElementTree` (`Insert` with a position that passes `Valid`), what updates do to elements of
another schema in `MCElementTreeUpdate`, and what deletions of brothers do
from three elements on in `MCElementTreeDelete` (section 5). The conditions of a command are a sequence in the order in
which the parser is done with them, so that `Parsed` is a loop like the parser's
and `nodes` are the filters of `list_alloc`; what calls itself in the code
(`Write`, `Check`) is a recursive function of the position of a node.

## 3. What TLC checks

| run | shows | bounds |
|---|---|---|
| `chunk_store` | `FreeHeadReady`, `FreeListComplete`, `NoOrphan`, `PageOnlyWhenFull` and the inductive invariant | 2 lists, 2 chunks a page, structures of 1 to 3 chunks, 8 chunks |
| `chunk_heap` | `ImplementsHeap`, `CallReturns` | 1 list, 2 values, 6 chunks |
| `page_layout` | `LinksMeetChunks`, `IdsAccepted`, `FreeRefused` | sizes 5, 2 and 3 words, 2 chunks a page, elements of 1 to 3 chunks, 5 pages |
| `database_file` | `HeaderCurrent`, `HeldIntact`, `NeverOffered`, `CrashLoss` | 2 chunks a page, structures of 1 to 3, 6 chunks, 2 faults of either kind; each until `Astray` |
| `element_tree` | `LinksAgree`, `ScanComplete`, `SchemaCounts`, `ChunksAccounted`, `PathsAgree`, `IteratorLive`, `DeletesExact`, `DeleteReturns` | elements of 1 and 2 chunks, 6 chunks, 1 value |
| `element_rows` | `ImplementsForest` with values and updates | 2 fields, 2 values, 4 chunks |
| `insert_steps` | `AckedReachable`, `CountLag`, `OneRoot` | 1 thread, 8 chunks, 2 kills |
| `schema_store` | `OneOwner`, `ElementsReadable`, `ListComplete`, `ImplementsCatalog` | 3 definitions, 3 schemas, 3 elements, 6 strings |
| `client_session` | `NothingKept`, `SessionAsTyped`, `GoodLineSent` | 3 lines of 8 kinds, lists of 2 fields |
| `query_path` | `WireIsTree`, `AnswerRight`, `DoneAsTyped` | 2 fields, 2 elements, ints of 4 bits, lists of 1 to 3 conditions, nested twice |
| `delete_brothers`, `query_ne` | counterexamples | as `element_rows`; conditions with `$ne` |

Why these bounds are enough. With two chunks a page and structures of three, a
write can stay in a page, end exactly at its last chunk, open one page in the
middle, or open one at the end; frees interleave the free lists with all chains of
that size, and two lists show that one does not disturb the other. Two faults are a
kill on what a kill or a failed write has left; a kill between calls loses the header of
the call before, which may have written or freed up to three chunks. In the tree,
six chunks hold up to five elements (one chunk is always free): every shape
of tree of that size, with middle, first and last brothers removed, ids
reused and pages appended in between. Three schemas are the smallest list with
a schema that is neither first nor last; one definition has a string column,
one has a number only, one has no field. Three elements are the fewest with two brothers,
of which the first leaves the second a stale link when it is removed. The sizes of `page_layout` have no common divisor, so an address that is
wrong by one of them meets nothing by chance. Three lines let an error, what
it leaves and a right command follow each other. The proofs of section 4 do
not depend on any of these bounds.

Bounds of the models themselves: `MaxFile` and `MaxChunks` (guards of
`WriteBegin`, via `Room`, of `Call` and of `Insert`), `MaxLen`, `MaxPages`,
`MaxFaults`, `MaxCrashes`, `MaxLines`, `MaxFields`, `MaxEnds` (the counter
saturates), `MaxRows`, and the sets `Boxes`, `Elements` and `Strings`. Deadlock is
checked in every run; the states in which a bound or a damaged file ends the behaviour
loop (`Full`, `Astray`, `damaged`).

Fairness. `WF(Step)` in `ChunkStore` and `WF(DeleteStep)` in `ElementTree` say
that a call which has begun goes on: the Database runs a call on the caller's thread
without waiting for anything. `WF_vars(Next)` in `ClientSession` says that the
loop of the client runs on: it waits for input, which is `lines`, and
for the server. The last is an assumption: the client sets no deadline, and a
server that never answers stops it.

Every property of a passing run has a mutant: next to the definition it changes,
the module has a plausible bug under which TLC finds the property violated
(`PROJECT.json`, "mutants"). Mutants are used by no definition.

## 4. What is proved

All theorems hold for every value of the constants that satisfies the `ASSUME`s
of the module; what these leave out is said at each module below.

How walks are proved about. Most of what matters here is said with a function
defined by recursion along links: `Walk`, `Read`, `Offered`, `From`, `Order`.
The invariants say the same without recursion: there is a sequence
(or a rank, or a pair of numbers for each element) such that every link leads to the next
of it. `WalkProofs` has the bridge: `UpTo` is induction over the steps of a bounded
walk, said of a set of numbers; `Iterate` gives the function that a
recursion defines; `WalkBound` and `Greatest` say that a walk that meets nothing
twice ends. One lemma for each module then shows that the recursive function
is the sequence (`ChainWalk`, `WalkIs`, `ReadRow`, `OffersReach`, `FromClosed`).

**`ChunkStoreProofs`** - `Invariant` (`[]IInv`), `TypeCorrect`, `FreeHeadsReady`,
`NoOrphans`, the action property `PagesOnlyWhenFull`, `FreeListsComplete`, and the
refinement `StoreImplementsHeap`. Assumed: lists, chunks of
a page and `MaxLen` are positive, the file has room for the pages of `Init`, and
zeros are not a value that is written.

`FreeHeadReady` alone is not inductive: that the next chunk of a free list is
free depends on all links of the list, in the middle of a write or a free as
well. `IInv` describes chains locally: `rank` counts the chunks of a chain down
to 1, every link leads to the chunk of the next lower rank of the same chain
(`FreeLinks`, `UsedLinks`), and no two chunks of a chain have the same rank
(`FreeRanks`, `UsedRanks`), so that no recursion is needed to say that a
chain ends and does not share a chunk. `Top` and `FirstOf` say where a chain
begins while a call is moving it, and `WriteCall`, `FreeCall`, `RewriteCall`,
`InitCall` what the locals of the call mean. There is one lemma per action
(`WriteNextInv`, `FreeLastInv`, ...), with one step per conjunct; `PageChain` and
`PageFacts` are the lemmas on an appended page, `FullList` the one on a list
whose only free chunk is the one being filled.

For the refinement the invariant is extended by `Batch`: behind the loop of a
write or a rewrite the pieces of its batch are in the file. Each step is
then one of `ChunkHeap` or leaves what can be read as it is: the last write of
`WriteBytesBatch` adds an entry, `FreeBegin` takes one away, `RewriteBegin` changes
one.

**`PageLayoutProofs`** - `LayoutTypeOK`, `LiveIdsAccepted`, `ListMeetsChunks` and
`FreeChunksRefused`, for all sizes and lengths of elements, in the middle of a write
too. All follow from one invariant (`Layout`), which says of each walk that there is a sequence
of distinct positions along the links: `Threaded`, the free chunks from the head to the one
with link 0; `Chained`, the chunks of every element from its id to a link 0; `Open`, what is
written of the element under way, up to the chunk taken next; `Owned`, that a chunk in
use is of an element or of the one under way. A write moves the first position of the thread
to the end of the open sequence (`WriteThread`, `WriteInv`), a free puts a sequence before the
thread (`FreeInv`), and a page appended at the end of the thread makes it longer
(`PageThread`). The lemmas on positions say that pages do not
overlap and that `PageOf` finds the page of a chunk; they are the only place where
the remainder is computed with.

**`ElementTreeProofs`** - `TreeTypeOK`, `ChunksKept`, `CountsKept`, `ScansComplete`,
`LinksKept`, `PathsFound`, `IteratorStands`, the action property `DeletionsExact` and the
refinement `TreeImplementsForest`; all but the types up to the call that
damages the file. The invariant has two parts that need nothing of each other.

`Kept` is about chunks: `Placed` says that free
list and elements share out the chunks and that the last free chunk is the last of the
file, `Counted` that a chunk that is no element has no schema. `Given` (chunks go back in front
of the free list) and `Taken` (chunks come from its front, behind which pages have been
appended) are the two ways in which `Placed` changes; `PagesSuffice` is the arithmetic of the
pages, for elements of any number of chunks. That
`~damaged` is needed shows in `Remove`: only an element that is linked where it
is unlinked leaves the free list whole (`FreeWhole`).

`Scanned(pos, lo)` is about links. `pos[x]` is the place of an element in the order of the
iterator, `lo[x]` that of the first element at or below it; the links of an element
determine these numbers locally, and what lies at or below it has the places from
`lo[x]` to `pos[x]`. That the links form a tree, that a scan of `count` steps is complete and that
each path is found (and which paths go on below an element without children) follow from the
numbers, without a closure. An insertion shifts the
places behind the new element by one, a removal shifts them back.
`prev_brother_link_` is not part of it: what goes wrong when a stale one is
followed is what `damaged` says. `Loop` says where the
iterator of a running `DeleteElements` stands among these places, and that what it has passed
is what must stay.

`TreeImplementsForest` has a hypothesis: there is one schema, or there are no
updates. With two schemas an update is not one of `ElementForest`, as
`MCElementTreeUpdate` shows (section 5). `UpdatesAssumption` says that an update is one of
a schema there is and to a value of a column, which lines 563-582 make sure of before
anything is changed.

**`SchemaStoreProofs`** - `StoreTypeOK`, `SchemasKept`, `StringsOwned`,
`ListWalked`, and the refinement `SchemasImplementCatalog`, for all definitions,
rows, updates and pointers and any number of elements; all but the types until an
update, or a removal along a stale link, damages the file. `StoreTypeOK` needs in
addition that links to previous brothers are pointers (`Brothers`), which `BrothersKept` shows.
The invariant `IInv` has three parts. `Readable` is `ElementsReadable` without its
condition on `damaged`; the counter of a schema is the cardinality of the set
of its elements, and one lemma for each call adds or takes one. `OwnedOnce` says that
owners and strings correspond one to one (`Held`), `lost` ones aside; what the removal of
an element takes from it is `DataAlone`, its own strings and nobody else's. It needs that a
lost string is still in the list (`Shapes`): if it could be freed, its chunk could
be saved again for somebody. `HeldMore` and `HeldLess` are the two ways
in which the correspondence changes, `OwnersAre` unfolds the set of owners, and
`RankBijective` says that the strings of a row are numbered without a gap, so that
each goes to one column. `ListInv` says that the schemas stand in a sequence along the links
of the list (`Lists`), with distinct names; it holds behind a damaging update as well. An insertion
puts one in front of the sequence, a deletion takes one out, wherever it
stands, and the same is done to the list of the catalogue.

**`DatabaseFileProofs`** - `HeaderStaysCurrent`, for any number of kills,
`HeldStaysIntact` and `HeldNeverOffered`, for any faults in any order, and
`CrashLossBounded`, for the first kill at any point. All are about the program as modelled: a
kill loses the write in the buffer, and the behaviour ends at `Astray`.
For the first the invariant says in
addition what kinds of faults there are; the proof shows for each write of each call that no
call is over between a change of the header in memory and its `UpdateMasterHeader`.

For the next two it is `Safe`: `Apart` of the file as the program reads it, and `Behind` of
the one the system has. A fault may leave links of which nothing is known, with the signs of
free and of used chunks mixed, and a later call writes and frees along them. What stays true is
that the file falls into three parts: the structures that are held, each a row of
chunks (`Structs`); a set `A` of chunks closed under links, whatever their signs,
that holds both heads and everything the running call may touch (`Alive`, `Heads`, `Writing`,
`Taking`); and the rest, which is lost. Ranks that descend along the links in `A` say that no call
comes back to a chunk it has written. A call that returns moves
its row from `A` to the structures, and one that frees moves a row into `A`. `Apart` quantifies over
functions on the chunks, so TLC does not check it; it checks the two properties.

`Settled(f)` is what `Apart` says of a file with no call running. `ViewSettled` shows that the
file as the program reads it is settled at every moment, in the middle of a call too, with its
own header and the structures it accounts for. `disk` is either what it was or that file
(`DiskStep`), so it is settled always; and a kill, which makes it the file, finds `Apart`
again with no call running (`CrashApart`). The same steps carry `Intact` and `Refuses`, the two
properties of one file.

What a kill loses needs more: not what can be reached at most, but whose each chunk is. Until the
first fault the file as the program reads it has `Books`: `own[c]` is the list a chunk is on (the
free list, a structure that is held, or the batch of the running call) and `ord[c]` its number in it,
counted from the end. The links determine the numbers locally (`Leads`), a head has the greatest
(`FreeList`, `HeldLists`, `Written`, `Taken`), and no number occurs twice in a list, so whoever
follows the links from the head meets the whole list (`Numbering`). Each write moves one chunk
between lists or turns one link round; `Fits` says that the bound of the model leaves room for the
pages a call still needs. `LossKnown` reads off what the header at offset 0 loses at each moment, and
`DiskLoss` is the same for the file of the system, in terms of the access made last (`latest`): an
access hands on the file of the moment before, with the call that is then running
(`LastStep`, `Batched`). So the bound of a call holds from its first access until the first
access of the next call, also when it has returned in between.

**`InsertStepsProofs`** - with one thread, for any number of
elements and kills: `OneRootAlone`, `AckedStayReachable` and `CountersLag`.
`OneRoot` is not inductive, because the test is one of a
counter and a kill brings the counter of the file back: needed besides are that the
counter in the file is positive once the file accounts for anything (`Counted`), that the one in
memory is not less, that it is 0 while a root is under way (`RootUnderWay`), and the
same of what the system has (`KilledOneRoot`).

The other two rest on `Sure`: unless a kill has torn the
file, at every access of a call the elements of the file form a tree (`Sound`), and so do
those of what the system has (`Settled`). `Anchored` says it
locally: every element but the root has an older parent, and is its first child or the brother
of a younger one. So the oldest element missed by a walk would have a parent that is met, and the
youngest brother missed would have a younger brother that is met (`Covers`). Between the link of
the parent and the write of the element the parent's first child is known to
the thread alone (`Hanging`, `FirstChild`); that is also what tears the file when it is killed.
`Sums` says how far a kill leaves each
counter behind, `LastAnswerAtMost` that between calls the system lacks one answer at most. One
thread is an assumption of the theorems (`Alone`), and section 5 shows that
it is needed.

**`CommandProofs`, prompt loop** - `TurnsStartEmpty` (`[]NothingKept`) and `SentAsTyped`
(`[]SessionAsTyped`), for all lines.

The second is about the grammar first. `CommandsFramed` says where a command has its
`db.` and its closing bracket, whatever lists of fields are between them, and
`NoneInAnother` that therefore no command is the beginning of another one: along a
typed command each token is shifted, and the command is complete with its last
token and not before (`RightShifts`); between commands nothing but `db.` is shifted
(`OnlyDbShifts`). The property is not inductive, because it does not say where in the lines
the loop is. `Follows(start)` does: `start[n]` is the count of the tokens before line
`n`, what is left of the input is an end of the lines (`InOrder`), the stack is
the part of one right line that was read and `q` is a whole one (`InCommand`), and the
right lines before are what was sent (`InTurn`). `Flattened` shows that `start`
exists, from what `FlattenSeq` does with two sequences; `TokenAhead` says which token is
next, and `PassBy`, `GoOn`, `Finish`, `SendsNext` and `Stand` are the five ways in which a step
goes on.

**`CommandProofs`, path of a command** - `WireTree` (`[]WireIsTree`), for all commands;
`AnswerAsAsked` (`AnswerRight`) and `EveryCommandDone` (`DoneAsTyped`), for all lists of fields and
all conditions nested in any way, within what the module models: one schema, whatever its fields;
at most two elements (`MaxRows` is 1 or 2); parents that are elements or are refused; and no command
that names the master schema. With a second schema an update throws half way, and with three elements
a deletion can follow a stale link (section 5), so neither theorem can be had without these.

The invariant of the first is what the conditions sent are (`TreeInv`); the work is in the
recursive functions. `Recursion` shows that a function exists whose value at each
argument is made of the values at arguments of a lower rank, so that the function
`Write` chooses is one that satisfies its equation (`WriteIsWire`). `Heap` is what the
parser has made after `k` conditions: every node stands behind its operands, and each
condition has a node for its top (`MadeHeap`, `FiltersHeap`, `RenamedHeap`, `ParsedHeap`). `Block`
says of a part of the list on the wire that it is a tree of its own: its positions are
named once, from inside, but for the first. Two blocks behind a condition that
names both are a block (`BlockOfTwo`), and so the whole list is (`WireBlocks`, `SendBlock`).

The other two compare what `CheckConditionals` makes of the conditions on the wire with
`Says`, the meaning of the typed ones. In between stand the parser's nodes: `Described` says which
node a condition has, and `Truths` gives every node a truth value, from any values of the
leaves. `ListTruth` is the core: the top of the chain of pairs made for a list is true if and only if
all, or some, of its conditions are. With the values of the leaves on an element `SaysTop` turns `Says`
into the truth of the top node and `WireChecks` does the same for the call `Check` makes at
any position; with "fits the schema" for the leaves, and every list read as a conjunction, `FitsTop`
and `WireFits` do it for what the Database refuses. Together they are `Meaning`: the
conditions sent are refused when the typed ones do not fit the schema, and otherwise
no element makes them throw, and they are true of those the typed ones describe. `PathInv`
carries the typed command to the Database, `ListSent` and `LastStays` its fields;
`AcceptedIsSensible` and `SelectedAsMeant` follow, and `AnswerIs` says each answer in terms of
what was typed. `Removed` is what a deletion needs: the largest set of selected elements that is
closed downwards.

Both theorems have two hypotheses about the commands, and the properties a third inside
(`Plain`); the commands of the run `query_path` satisfy the hypotheses, and without any of the
three what the code does is something else: `IntsFit`, ids and numbers are those of an `int`
(`MCQueryPipelineFar`); `OnlyEqualities`, no comparison but equality is typed (run `query_ne`);
`Plain`, no list of one (`MCQueryPipelineSingle`).

Only model-checked: the liveness properties (`CallReturns`, `DeleteReturns`, `GoodLineSent`),
which the prover does not do.

## 5. What the checks found

Two runs are counterexamples, and so are the other configurations
listed here: each checks one property that the repository states and the
code does not keep. They are run like the others
(`tlc -config <file>.cfg <module>`) and end with a violation.

| configuration | property | what the repository says | what happens |
|---|---|---|---|
| `MCElementTreeDelete` (run `delete_brothers`) | `DeletesMatching` | README.md:115, deletion of the elements that satisfy the conditions | `Remove` does not repair the next brother's `prev_brother_link_` (168-180); a `DeleteElements` of two adjacent brothers writes to a freed chunk, the parent keeps its link, the free list is cut at that chunk |
| `MCQueryPipelineNe` (run `query_ne`) | `AnswerRight` | parser/README.md:16, conditions of equality and inequality | the comparator is not sent, and every comparison is evaluated as equality |
| `MCQueryPipelineSingle` | `AnyListRight` | parser/README.md:18, combinations of any number of conditions | a `$and` or `$or` list of one overwrites the connective of its condition |
| `MCQueryPipelineFar` | `AnswerRight` | README.md:83, data of 10 GB and more | ids are positions and the lexer reads them with `atoi`: above 2^31 an insertion below them is refused |
| `MCElementTreeUpdate` | `UpdatesMatching` | README.md:114, update of the elements that satisfy the conditions | `UpdateElements` does not compare schemas (587; 554 and 782 do): elements of other schemas change, or the call throws in the middle |
| `MCSchemaStoreUpdate` | `StringColumnsPoint` | `ReadString` asserts that its pointer is positive (471) | the same, where a number overwrites a string's pointer |
| `MCSchemaStoreLeak` | `NoStringLeaks` | RULES.md:10, resources are released whatever errors occur | a refused insertion leaves its strings (667) |
| `MCElementTreePath` | `PathsReadElements` | `ReadStruct` asserts its position (452) | a path that goes on below a leaf reads the element at 0 |
| `MCChunkStoreSize` | `FileSizeProportional` | README.md:127, the file is proportional to the elements | pages are never given back |
| `DatabaseFileCrash` | `ReadsInFile` | `FileInterface.h`:73 asserts a position that is not negative | after a process is killed inside a long write, the head of the list is a used chunk, and the next long write follows its link |
| `InsertStepsThreads` | `OneRoot` | `insert_elements_and_some.cpp`:89, a second insertion without a parent fails | two threads of the service both see an empty tree |
| `PageLayoutInner` | `OnlyLastChunk` | the TODO at 859 names one position that passes without being an element | so do positions inside chunks (and, as `FreeRefused` says, the later chunks of longer elements) |
| `MCClientSessionLine` | `LineAnswered` | parser/README.md:25, a tree or a message | a line behind an unfinished one disappears |
| `MCClientSessionStray` | `RefusedNotSent` | the same | a command with a character no rule matches is reported as wrong and executed |
| `MCClientSessionEnd` | `EndEndsLoop` | RULES.md:9, loops have an exit | at the end of the input the client prompts for ever |
| `MCClientSessionStrings` | `NoStringKept` | RULES.md:10, memory allocated by hand is freed | names copied by the lexer are not |

The passing runs say where these stop: what is right until a stale link is
followed or a seek goes to a negative position, with plain conditions, one schema,
ids below 2^31, one thread.

## 6. What is not modelled

- Logging (`logger.h`) and the texts of messages.
- Threads of the service in calls other than `InsertElement`, and the position
  of the `FILE *` that a seek and a transfer of two threads share.
- The status of an RPC, deadlines and reconnection: the client prints the response
  whatever the status, and an RPC that fails prints an empty one.
- The operating system's crash, which may reorder the writes of a file; errors of the
  system that only an unchecked `fseek` would report; and what a release build writes, and
  where, after a seek to a negative position.
- Commands below parents that are no elements but pass `ValidateElementByPtr`, and a
  second schema, in the path of a command (`QueryPipeline`); `ElementTree` has both.
- The server's start, which overwrites the file (`src/server/src/main.cpp`) and so
  never meets what a crash left, as do the tests and examples; `DatabaseFile` and
  `InsertSteps` are about a program that opens an existing file, which is what the
  constructor of `Database` does unless told otherwise.
- Tests, benchmark, `src/examples` and the parser's own `main`: they are clients of
  what is modelled, read for the calls they make.
- Generated parser tables: `ClientSession` says what they accept.
