----------------------------- MODULE InsertSteps -----------------------------
(***************************************************************************)
(* InsertElement of src/llp/include/Database.h, one access to the file or  *)
(* to the header in memory per action: what other threads of the gRPC      *)
(* service (src/server/src/main.cpp has one Database and no lock) can see, *)
(* and what a killed process leaves in the file.                           *)
(*                                                                         *)
(* Every element is one chunk and of one schema, whose box the calls read  *)
(* and write back.  Values and the strings saved for them are left out,    *)
(* and so is deletion: the free chunks are the ones above the used ones.   *)
(* The seek and the transfer of one access are one step here.  What is     *)
(* written is in the buffer of the stream until the next access, as in     *)
(* DatabaseFile: hdr, el and cnt are the file as the program reads it,     *)
(* disk is what the system has and a kill leaves, one write behind.        *)
(***************************************************************************)
EXTENDS Integers, FiniteSets

CONSTANTS
  Threads,        \* threads in InsertElement at a time
  ChunksPerPage,
  MaxChunks,      \* bound: element chunks of the file
  MaxCrashes      \* bound

ASSUME SizesAssumption ==
  /\ ChunksPerPage \in Nat \ {0}
  /\ MaxChunks \in Nat /\ ChunksPerPage <= MaxChunks
  /\ MaxCrashes \in Nat

Chunks == 1 .. MaxChunks

VARIABLES
  hdr,      \* the header at offset 0: [end, free, first, count]
  mem,      \* master_header_
  el,       \* chunk -> ElementBox, Blank in a free chunk
  cnt,      \* SchemaBox.cnt_elements_
  disk,     \* what the system has: [hdr, el, cnt, acked, exposed], see View
  pc,       \* thread -> the access that comes next
  loc,      \* thread -> its locals
  \* what the callers know, and history
  acked,    \* ids answered, with the parent asked for: {<<id, parent>>}; a
            \* kill takes back the ones the file does not account for
  crashes,  \* how many crashes there have been
  torn      \* one of them left an insertion's first write without its header

file == <<hdr, el, cnt>>
vars == <<file, mem, pc, loc, acked, crashes, torn, disk>>

Blank == [parent |-> 0, child |-> 0, prev |-> 0, brother |-> 0, used |-> FALSE]

NewBox(p, b) == [parent |-> p, child |-> 0, prev |-> 0, brother |-> b, used |-> TRUE]

Nowhere == [p |-> 0, seen |-> 0, id |-> 0, box |-> Blank, old |-> 0, at |-> 0, next |-> 0]

\* The link that a read of chunk c gives, as the next free chunk.
NextFree(c) == IF el[c].used \/ c % ChunksPerPage = 0 THEN 0 ELSE c + 1

\* The thread has linked its parent to a chunk the header still calls free.
Exposed(t) == loc[t].p # 0 /\ pc[t] \in {"take", "put", "head"}

View == [hdr |-> hdr, el |-> el, cnt |-> cnt, acked |-> acked, exposed |-> \E t \in Threads : Exposed(t)]

\* The seek of an access: what is in the buffer goes to the system.
Flush == disk' = View

Init ==
  /\ mem = [end |-> ChunksPerPage, free |-> 1, first |-> 0, count |-> 0] /\ hdr = mem
  /\ el = [c \in Chunks |-> Blank]
  /\ cnt = 0
  /\ pc = [t \in Threads |-> "idle"] /\ loc = [t \in Threads |-> Nowhere]
  /\ acked = {} /\ crashes = 0 /\ torn = FALSE
  /\ disk = View

Ids == {a[1] : a \in acked}

Goto(t, from, to) == pc[t] = from /\ pc' = [pc EXCEPT ![t] = to]

Local(t, l) == loc' = [loc EXCEPT ![t] = l]

-----------------------------------------------------------------------------
\* The bound keeps room for every thread to open a page.
Room == mem.end + Cardinality(Threads) * ChunksPerPage <= MaxChunks

\* A client names the parent by an id it was answered.
Call(t, p) ==
  /\ Goto(t, "idle", "check") /\ Room
  /\ Local(t, [Nowhere EXCEPT !.p = p])
  /\ UNCHANGED <<file, mem, acked, crashes, torn, disk>>

\* Mutant of Passes: the test for a second root is missing.
PassesAnyRoot(p) == p # 0 => el[p].used

\* "Multiple tree roots" and ValidateElementByPtr.
Passes(p) == IF p = 0 THEN mem.count = 0 ELSE el[p].used

Check(t) ==
  /\ IF Passes(loc[t].p)
       THEN Goto(t, "check", "schema") /\ UNCHANGED loc
       ELSE Goto(t, "check", "idle") /\ Local(t, Nowhere)
  /\ UNCHANGED <<file, mem, acked, crashes, torn>> /\ Flush

ReadSchema(t) ==
  /\ Goto(t, "schema", "id")
  /\ Local(t, [loc[t] EXCEPT !.seen = cnt])
  /\ UNCHANGED <<file, mem, acked, crashes, torn>> /\ Flush

ChooseId(t) ==
  /\ Goto(t, "id", IF loc[t].p = 0 THEN "take" ELSE "parent")
  /\ Local(t, [loc[t] EXCEPT !.id = mem.free])
  /\ UNCHANGED <<file, mem, acked, crashes, torn, disk>>

ReadParent(t) ==
  /\ Goto(t, "parent", "link")
  /\ Local(t, [loc[t] EXCEPT !.box = el[loc[t].p], !.old = el[loc[t].p].child])
  /\ UNCHANGED <<file, mem, acked, crashes, torn>> /\ Flush

\* The parent is linked to the chunk the element is going to take.
LinkParent(t) ==
  /\ Goto(t, "link", "take")
  /\ el' = [el EXCEPT ![loc[t].p] = [loc[t].box EXCEPT !.child = mem.free]]
  /\ UNCHANGED <<hdr, mem, cnt, loc, acked, crashes, torn>> /\ Flush

-----------------------------------------------------------------------------
(* SaveElement: WriteBytesBatch of one chunk.                              *)

Take(t) ==
  /\ Goto(t, "take", "put")
  /\ Local(t, [loc[t] EXCEPT !.at = mem.free, !.next = NextFree(mem.free)])
  /\ UNCHANGED <<file, mem, acked, crashes, torn>> /\ Flush

\* Mutant of Put: the children there were are not linked behind the new one.
PutAlone(t) ==
  /\ Goto(t, "put", "head")
  /\ el' = [el EXCEPT ![loc[t].at] = NewBox(loc[t].p, 0)]
  /\ mem' = IF loc[t].next = 0
            THEN [mem EXCEPT !.free = mem.end + 1, !.end = @ + ChunksPerPage]
            ELSE [mem EXCEPT !.free = loc[t].next]
  /\ UNCHANGED <<hdr, cnt, loc, acked, crashes, torn>> /\ Flush

\* The element is written; a page is appended if the list is at its end (its
\* chunks are blank whether it is in the file yet or not).
Put(t) ==
  /\ Goto(t, "put", "head")
  /\ el' = [el EXCEPT ![loc[t].at] = NewBox(loc[t].p, loc[t].old)]
  /\ mem' = IF loc[t].next = 0
            THEN [mem EXCEPT !.free = mem.end + 1, !.end = @ + ChunksPerPage]
            ELSE [mem EXCEPT !.free = loc[t].next]
  /\ UNCHANGED <<hdr, cnt, loc, acked, crashes, torn>> /\ Flush

AfterSave(t) == IF loc[t].old = 0 THEN "schemaBack" ELSE "brother"

\* The header; the root, in memory, after it.
Head(t) ==
  /\ Goto(t, "head", AfterSave(t))
  /\ hdr' = mem
  /\ mem' = IF loc[t].p = 0 THEN [mem EXCEPT !.first = loc[t].at] ELSE mem
  /\ UNCHANGED <<el, cnt, loc, acked, crashes, torn>> /\ Flush

-----------------------------------------------------------------------------
ReadBrother(t) ==
  /\ Goto(t, "brother", "linkBrother")
  /\ Local(t, [loc[t] EXCEPT !.box = el[loc[t].old]])
  /\ UNCHANGED <<file, mem, acked, crashes, torn>> /\ Flush

LinkBrother(t) ==
  /\ Goto(t, "linkBrother", "schemaBack")
  /\ el' = [el EXCEPT ![loc[t].old] = [loc[t].box EXCEPT !.prev = loc[t].id]]
  /\ UNCHANGED <<hdr, mem, cnt, loc, acked, crashes, torn>> /\ Flush

\* The box read at the start of the call, one element more.
WriteSchema(t) ==
  /\ Goto(t, "schemaBack", "answer")
  /\ cnt' = loc[t].seen + 1
  /\ UNCHANGED <<hdr, el, mem, loc, acked, crashes, torn>> /\ Flush

\* Mutant of Answer: the header is not written.
AnswerEarly(t) ==
  /\ Goto(t, "answer", "idle")
  /\ mem' = [mem EXCEPT !.count = @ + 1]
  /\ acked' = acked \cup {<<loc[t].id, loc[t].p>>}
  /\ Local(t, Nowhere)
  /\ UNCHANGED <<file, crashes, torn, disk>>

Answer(t) ==
  /\ Goto(t, "answer", "idle")
  /\ mem' = [mem EXCEPT !.count = @ + 1] /\ hdr' = mem'
  /\ acked' = acked \cup {<<loc[t].id, loc[t].p>>}
  /\ Local(t, Nowhere)
  /\ UNCHANGED <<el, cnt, crashes, torn>> /\ Flush

-----------------------------------------------------------------------------
\* The process is killed and the file opened again.
Crash ==
  /\ crashes < MaxCrashes
  /\ crashes' = crashes + 1
  /\ torn' = (torn \/ disk.exposed)
  /\ hdr' = disk.hdr /\ el' = disk.el /\ cnt' = disk.cnt /\ acked' = disk.acked
  /\ mem' = hdr'
  /\ pc' = [t \in Threads |-> "idle"] /\ loc' = [t \in Threads |-> Nowhere]
  /\ UNCHANGED disk

Step(t) ==
  \/ Check(t) \/ ReadSchema(t) \/ ChooseId(t) \/ ReadParent(t) \/ LinkParent(t)
  \/ Take(t) \/ Put(t) \/ Head(t) \/ ReadBrother(t) \/ LinkBrother(t)
  \/ WriteSchema(t) \/ Answer(t)

Full == ~Room /\ \A t \in Threads : pc[t] = "idle"

Next ==
  \/ \E t \in Threads : Step(t) \/ \E p \in {0} \cup Ids : Call(t, p)
  \/ Crash
  \/ Full /\ UNCHANGED vars

Spec == Init /\ [][Next]_vars

-----------------------------------------------------------------------------
(* One thread, any crashes.  The file is as the program reads it; a crash  *)
(* makes that the file a kill leaves, so this is about both.               *)

Header == [end : 0 .. MaxChunks, free : Chunks, first : {0} \cup Chunks, count : Nat]

TypeOK ==
  /\ hdr \in Header /\ mem \in Header /\ mem.free <= mem.end /\ hdr.free <= hdr.end
  /\ \A c \in Chunks : {el[c].parent, el[c].child, el[c].prev, el[c].brother} \subseteq 0 .. mem.end
  /\ cnt \in Nat
  /\ Ids \subseteq Chunks
  /\ \A t \in Threads : loc[t].at \in 0 .. mem.end /\ loc[t].next \in 0 .. mem.end

\* What child and brother links of the file lead to from c.
From(c) ==
  LET at[k \in 0 .. MaxChunks] ==
        IF k = 0 THEN {c} \ {0}
        ELSE LET es == at[k - 1]
             IN (es \cup UNION {{el[x].child, el[x].brother} : x \in es}) \ {0}
  IN at[MaxChunks]

\* Whenever the process is killed, every element that was answered can be
\* reached from the root in the file, below the parent it was inserted under;
\* but for the older children of the parent of an insertion that has linked its
\* parent and not yet written the header.
AckedReachable ==
  ~torn =>
    \A a \in acked :
      /\ el[a[1]].used /\ el[a[1]].parent = a[2]
      /\ \/ a[1] \in From(hdr.first)
         \/ \E t \in Threads : Exposed(t) /\ a[1] \in From(loc[t].old)

\* The system has the file, or has it without the last header of InsertElement:
\* the last answer is not counted, and if it was a root, not linked.
LastAnswerAtMost ==
  /\ disk.el = el /\ disk.cnt = cnt
  /\ \/ disk.hdr = hdr /\ disk.acked = acked
     \/ \E a \in acked :
          /\ disk.acked = acked \ {a}
          /\ disk.hdr = [hdr EXCEPT !.count = hdr.count - 1,
                                   !.first = IF a[2] = 0 THEN 0 ELSE hdr.first]

\* What crashes leave of the counters.  elements.count, which the scans trust,
\* counts the answered insertions; the tree may hold one element more per crash,
\* and cnt_elements_, which DeleteSchema trusts, may count one more per crash,
\* but neither follows from the other.  And between the calls a kill takes back
\* one answer at most.
CountLag ==
  ~torn /\ (\A t \in Threads : pc[t] = "idle") =>
    LET n == Cardinality(From(hdr.first)) IN
    /\ hdr = mem
    /\ hdr.count = Cardinality(acked)
    /\ n - hdr.count \in 0 .. crashes
    /\ cnt - hdr.count \in 0 .. crashes
    /\ LastAnswerAtMost

-----------------------------------------------------------------------------
\* insert_elements_and_some.cpp: a second insertion without a parent fails.
OneRoot == \A a, b \in acked : a[2] = 0 /\ b[2] = 0 => a = b
=============================================================================
