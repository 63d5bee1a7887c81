-------------------------- MODULE InsertStepsProofs --------------------------
(***************************************************************************)
(* What one thread of insertions keeps through any number of crashes, for  *)
(* every file and every number of pages: the guard against a second root,  *)
(* the way from the root to every answered element, and the counters.      *)
(***************************************************************************)
EXTENDS InsertSteps, WalkProofs, TLAPS

\* The service calls InsertElement from one thread at a time.
Alone == \E t : Threads = {t}

Places == {"idle", "check", "schema", "id", "parent", "link", "take", "put", "head",
           "brother", "linkBrother", "schemaBack", "answer"}

\* An insertion without a parent that has passed the test of elements.count.
RootUnderWay(t) == pc[t] \notin {"idle", "check"} /\ loc[t].p = 0

Counted ==
  /\ mem.count \in Nat /\ hdr.count \in Nat
  /\ DOMAIN mem = {"end", "free", "first", "count"} /\ DOMAIN hdr = DOMAIN mem
  /\ acked # {} => hdr.count > 0
  /\ mem.count >= hdr.count

Locals ==
  /\ pc \in [Threads -> Places] /\ DOMAIN loc = Threads
  /\ \A t \in Threads : DOMAIN loc[t] = DOMAIN Nowhere

\* A kill brings back the answers and the count of what the system has.
KilledOneRoot ==
  /\ disk.hdr.count \in Nat /\ DOMAIN disk.hdr = {"end", "free", "first", "count"}
  /\ disk.acked # {} => disk.hdr.count > 0
  /\ \A a, b \in disk.acked : a[2] = 0 /\ b[2] = 0 => a = b

\* OneRoot does not follow from itself: the test is on a counter, and a crash
\* brings the counter of the file back.
IInv ==
  /\ Counted
  /\ Locals
  /\ \A t \in Threads : RootUnderWay(t) => mem.count = 0
  /\ OneRoot
  /\ KilledOneRoot

\* The new file has no element and no call.
LEMMA InitIInv == Init => IInv
<1> SUFFICES ASSUME Init PROVE IInv
    OBVIOUS
<1>1. Counted /\ Locals /\ (\A t \in Threads : RootUnderWay(t) => mem.count = 0) /\ OneRoot
    BY DEF Init, Counted, Locals, RootUnderWay, OneRoot, Nowhere, Blank, Places
<1>2. KilledOneRoot
    <2>1. disk.hdr = hdr /\ disk.acked = {}
        BY DEF Init, View
    <2> QED
        BY <1>1, <2>1 DEF Counted, KilledOneRoot
<1> QED
    BY <1>1, <1>2 DEF IInv

\* What the system has is what it had, or the file before the step.
LEMMA DiskStep == [Next]_vars => disk' \in {disk, View}
  BY DEF Next, Step, Call, Check, ReadSchema, ChooseId, ReadParent, LinkParent, Take, Put, Head,
         ReadBrother, LinkBrother, WriteSchema, Answer, Crash, Flush, vars

\* With one thread, no step makes a second root.
LEMMA NextIInv ==
  ASSUME Alone
  PROVE  IInv /\ [Next]_vars => IInv'
<1> SUFFICES ASSUME NEW t, Threads = {t}, IInv, [Next]_vars PROVE IInv'
    BY DEF Alone
<1>k. KilledOneRoot'
    <2>1. disk' = disk \/ disk' = View
        BY DiskStep
    <2>2. CASE disk' = disk
        BY <2>2 DEF IInv, KilledOneRoot
    <2>3. CASE disk' = View
        <3>1. disk'.hdr = hdr /\ disk'.acked = acked
            BY <2>3 DEF View
        <3> QED
            BY <3>1 DEF IInv, KilledOneRoot, Counted, OneRoot
    <2> QED
        BY <2>1, <2>2, <2>3
<1> DEFINE J == /\ Counted /\ Locals /\ (\A u \in Threads : RootUnderWay(u) => mem.count = 0)
                /\ OneRoot
<1>j. J /\ KilledOneRoot
    BY DEF IInv
<1> SUFFICES J'
    BY <1>k DEF IInv
<1> USE <1>j
<1>1. ASSUME NEW p \in {0} \cup Ids, Call(t, p) PROVE J'
    BY <1>1 DEF Call, Goto, Local, file, Counted, Locals, RootUnderWay, OneRoot, Nowhere, Places
<1>2. CASE Check(t)
    BY <1>2 DEF Check, Goto, Local, file, Counted, Locals, RootUnderWay, OneRoot, Nowhere, Places, Passes
<1>3. CASE ReadSchema(t)
    BY <1>3 DEF ReadSchema, Goto, Local, file, Counted, Locals, RootUnderWay, OneRoot, Nowhere, Places
<1>4. CASE ChooseId(t)
    BY <1>4 DEF ChooseId, Goto, Local, file, Counted, Locals, RootUnderWay, OneRoot, Nowhere, Places
<1>5. CASE ReadParent(t)
    BY <1>5 DEF ReadParent, Goto, Local, file, Counted, Locals, RootUnderWay, OneRoot, Nowhere, Places
<1>6. CASE LinkParent(t)
    BY <1>6 DEF LinkParent, Goto, Counted, Locals, RootUnderWay, OneRoot, Places
<1>7. CASE Take(t)
    BY <1>7 DEF Take, Goto, Local, file, Counted, Locals, RootUnderWay, OneRoot, Nowhere, Places
<1>8. CASE Put(t)
    BY <1>8 DEF Put, Goto, Counted, Locals, RootUnderWay, OneRoot, Places
<1>9. CASE Head(t)
    BY <1>9 DEF Head, Goto, Counted, Locals, RootUnderWay, OneRoot, Places, AfterSave
<1>10. CASE ReadBrother(t)
    BY <1>10 DEF ReadBrother, Goto, Local, file, Counted, Locals, RootUnderWay, OneRoot, Nowhere, Places
<1>11. CASE LinkBrother(t)
    BY <1>11 DEF LinkBrother, Goto, Counted, Locals, RootUnderWay, OneRoot, Places
<1>12. CASE WriteSchema(t)
    BY <1>12 DEF WriteSchema, Goto, Counted, Locals, RootUnderWay, OneRoot, Places
<1>13. CASE Answer(t)
    <2>1. mem'.count = mem.count + 1 /\ hdr' = mem' /\ DOMAIN mem' = DOMAIN mem
        BY <1>13 DEF Answer, Counted
    <2>2. acked' = acked \cup {<<loc[t].id, loc[t].p>>}
        BY <1>13 DEF Answer
    <2>3. loc[t].p = 0 => acked = {}
        BY <1>13 DEF Answer, Goto, RootUnderWay, Counted
    <2>4. OneRoot'
        BY <2>2, <2>3 DEF OneRoot
    <2>5. Counted'
        BY <2>1 DEF Counted
    <2>6. Locals' /\ pc'[t] = "idle"
        BY <1>13 DEF Answer, Goto, Local, Locals, Nowhere, Places
    <2> QED
        BY <2>4, <2>5, <2>6 DEF RootUnderWay
<1>14. CASE Crash
    <2>1. mem' = hdr' /\ hdr' = disk.hdr /\ acked' = disk.acked
        BY <1>14 DEF Crash
    <2>2. Counted' /\ OneRoot'
        BY <2>1 DEF Counted, OneRoot, KilledOneRoot
    <2>3. Locals' /\ \A u \in Threads : pc'[u] = "idle"
        BY <1>14 DEF Crash, Locals, Nowhere, Places
    <2> QED
        BY <2>2, <2>3 DEF RootUnderWay
<1>15. CASE UNCHANGED vars
    BY <1>15 DEF vars, file, Counted, Locals, RootUnderWay, OneRoot
<1> QED
    BY <1>1, <1>2, <1>3, <1>4, <1>5, <1>6, <1>7, <1>8, <1>9, <1>10, <1>11, <1>12, <1>13,
       <1>14, <1>15 DEF Next, Step

\* As long as one thread inserts at a time, at most one element without a
\* parent is ever answered, wherever the process is killed and however often.
THEOREM OneRootAlone ==
  ASSUME Alone
  PROVE  Spec => []OneRoot
<1>1. IInv => OneRoot
    BY DEF IInv
<1>2. IInv /\ [Next]_vars => IInv'
    BY NextIInv
<1> QED
    BY InitIInv, <1>1, <1>2, PTL DEF Spec

-----------------------------------------------------------------------------
(* What the links of the file lead to.                                     *)

Box == [parent : 0 .. MaxChunks, child : 0 .. MaxChunks, prev : 0 .. MaxChunks,
        brother : 0 .. MaxChunks, used : BOOLEAN]

Grow(es) == (es \cup UNION {{el[x].child, el[x].brother} : x \in es}) \ {0}

\* No link leads out of S.
Closed(S) == \A x \in S : {el[x].child, el[x].brother} \subseteq S \cup {0}

Growth(f, c) ==
  /\ f \in [0 .. MaxChunks -> SUBSET Chunks]
  /\ f[0] = {c} \ {0}
  /\ \A k \in 1 .. MaxChunks : f[k] = Grow(f[k - 1])

\* From is such a sequence's last set.
LEMMA FromGrows ==
  ASSUME el \in [Chunks -> Box], NEW c \in 0 .. MaxChunks
  PROVE  \E f : Growth(f, c) /\ From(c) = f[MaxChunks]
<1> DEFINE S == SUBSET Chunks
           at[k \in 0 .. MaxChunks] ==
             IF k = 0 THEN {c} \ {0}
             ELSE LET es == at[k - 1]
                  IN (es \cup UNION {{el[x].child, el[x].brother} : x \in es}) \ {0}
<1>1. From(c) = at[MaxChunks]
    BY DEF From
<1> HIDE DEF at
<1>2. MaxChunks \in Nat /\ {c} \ {0} \in S
    BY SizesAssumption DEF Chunks
<1> PICK step : step = [es \in S |-> Grow(es)]
    OBVIOUS
<1>3. ASSUME NEW es \in S PROVE Grow(es) \in S
    <2>1. ASSUME NEW x \in es PROVE {el[x].child, el[x].brother} \subseteq 0 .. MaxChunks
        BY DEF Box
    <2>2. 0 .. MaxChunks \ {0} \subseteq Chunks
        BY <1>2 DEF Chunks
    <2> QED
        BY <2>1, <2>2 DEF Grow
<1>4. step \in Steps(S)
    <2>1. step \in [S -> S]
        <3> HIDE DEF S
        <3> QED
            BY <1>3
    <2> QED
        BY <2>1 DEF Steps
<1> PICK c0 : c0 = {c} \ {0}
    OBVIOUS
<1>5. PICK g : IsWalk(g, MaxChunks, S, c0, step)
    <2> HIDE DEF S
    <2> QED
        BY <1>2, <1>4, Iterate
<1>6. g \in [0 .. MaxChunks -> S] /\ g[0] = c0 /\ \A k \in 1 .. MaxChunks : g[k] = step[g[k - 1]]
    BY <1>5 DEF IsWalk
<1>7. ASSUME NEW k \in 1 .. MaxChunks PROVE g[k] = Grow(g[k - 1]) /\ k - 1 \in 0 .. MaxChunks
    <2> HIDE DEF S
    <2>1. k - 1 \in 0 .. MaxChunks
        BY <1>2
    <2>2. g[k - 1] \in S
        BY <1>6, <2>1
    <2> QED
        BY <1>6, <2>1, <2>2
<1>8. \A k \in 0 .. MaxChunks : g[k] = IF k = 0 THEN {c} \ {0}
                                       ELSE LET es == g[k - 1]
                                            IN (es \cup UNION {{el[x].child, el[x].brother} : x \in es}) \ {0}
    <2> SUFFICES ASSUME NEW k \in 0 .. MaxChunks
                 PROVE  g[k] = IF k = 0 THEN {c} \ {0}
                               ELSE LET es == g[k - 1]
                                    IN (es \cup UNION {{el[x].child, el[x].brother} : x \in es}) \ {0}
        OBVIOUS
    <2>1. CASE k = 0
        BY <1>6, <2>1, Zenon
    <2>2. CASE k # 0
        <3>1. k \in 1 .. MaxChunks
            BY <1>2, <2>2
        <3> QED
            BY <1>7, <2>2, <3>1, Zenon DEF Grow
    <2> QED
        BY <2>1, <2>2
<1>9. g = [k \in 0 .. MaxChunks |-> IF k = 0 THEN {c} \ {0}
                                    ELSE LET es == g[k - 1]
                                         IN (es \cup UNION {{el[x].child, el[x].brother} : x \in es}) \ {0}]
    <2>1. g = [k \in 0 .. MaxChunks |-> g[k]]
        <3> HIDE DEF S
        <3> QED
            BY <1>6
    <2> QED
        BY <1>8, <2>1, Zenon
<1>10. \E f : f = [k \in 0 .. MaxChunks |-> IF k = 0 THEN {c} \ {0}
                                            ELSE LET es == f[k - 1]
                                                 IN (es \cup UNION {{el[x].child, el[x].brother} : x \in es}) \ {0}]
    BY <1>9, Zenon
<1>11. at = [k \in 0 .. MaxChunks |-> IF k = 0 THEN {c} \ {0}
                                      ELSE LET es == at[k - 1]
                                           IN (es \cup UNION {{el[x].child, el[x].brother} : x \in es}) \ {0}]
    BY <1>10, Zenon DEF at
<1>12. at[0] = c0 /\ \A k \in 1 .. MaxChunks : at[k] = Grow(at[k - 1])
    <2>1. \A k \in 0 .. MaxChunks : at[k] = IF k = 0 THEN {c} \ {0}
                                            ELSE LET es == at[k - 1]
                                                 IN (es \cup UNION {{el[x].child, el[x].brother} : x \in es}) \ {0}
        BY <1>11, Zenon
    <2>2. 0 \in 0 .. MaxChunks /\ \A k \in 1 .. MaxChunks : k \in 0 .. MaxChunks /\ k # 0
        BY <1>2
    <2> QED
        BY <2>1, <2>2, Zenon DEF Grow
<1> DEFINE T == {k \in 0 .. MaxChunks : at[k] = g[k]}
<1>13. 0 \in T
    <2>1. 0 \in 0 .. MaxChunks /\ at[0] = g[0]
        BY <1>2, <1>6, <1>12
    <2> QED
        BY <2>1, Zenon
<1>14. ASSUME NEW i \in 0 .. MaxChunks - 1, i \in T PROVE i + 1 \in T
    <2> PICK j : j = i + 1
        OBVIOUS
    <2>1. j \in 1 .. MaxChunks /\ j \in 0 .. MaxChunks /\ j - 1 = i
        BY <1>2
    <2>2. at[i] = g[i]
        BY <1>14
    <2>3. at[j] = Grow(at[i]) /\ g[j] = Grow(g[i])
        BY <1>7, <1>12, <2>1
    <2> QED
        BY <2>1, <2>2, <2>3
<1>15. \A k \in 0 .. MaxChunks : k \in T
    <2> HIDE DEF T
    <2> QED
        BY <1>2, <1>13, <1>14, UpTo
<1>16. Growth(g, c)
    BY <1>6, <1>7 DEF Growth
<1>17. at[MaxChunks] = g[MaxChunks]
    BY <1>2, <1>15
<1> QED
    BY <1>1, <1>16, <1>17

\* It is the least set without a link out of it: there are not chunks enough for
\* it to grow in every step.
LEMMA FromClosed ==
  ASSUME el \in [Chunks -> Box], NEW c \in 0 .. MaxChunks
  PROVE  /\ From(c) \subseteq Chunks /\ Closed(From(c)) /\ (c # 0 => c \in From(c))
         /\ \A U \in SUBSET Chunks : Closed(U) /\ c \in U \cup {0} => From(c) \subseteq U
<1>1. PICK f : Growth(f, c) /\ From(c) = f[MaxChunks]
    BY FromGrows
<1>2. /\ MaxChunks \in Nat /\ f[0] = {c} \ {0}
      /\ \A k \in 0 .. MaxChunks : f[k] \subseteq Chunks
      /\ \A k \in 1 .. MaxChunks : f[k] = Grow(f[k - 1])
    BY <1>1, SizesAssumption DEF Growth
<1>3. IsFiniteSet(Chunks) /\ Cardinality(Chunks) = MaxChunks
    BY <1>2, FS_Interval DEF Chunks
<1>4. \A S \in SUBSET Chunks : 0 \notin S /\ IsFiniteSet(S) /\ Cardinality(S) \in Nat
    <2> SUFFICES ASSUME NEW S \in SUBSET Chunks
                 PROVE  0 \notin S /\ IsFiniteSet(S) /\ Cardinality(S) \in Nat
        OBVIOUS
    <2>1. 0 \notin Chunks
        BY <1>2 DEF Chunks
    <2>2. IsFiniteSet(S)
        BY <1>3, FS_Subset
    <2>3. Cardinality(S) \in Nat
        BY <2>2, FS_CardinalityType
    <2> QED
        BY <2>1, <2>2, <2>3
<1>5. \A S \in SUBSET Chunks : S \subseteq Grow(S) /\ (Closed(S) <=> Grow(S) = S)
    <2> SUFFICES ASSUME NEW S \in SUBSET Chunks
                 PROVE  S \subseteq Grow(S) /\ (Closed(S) <=> Grow(S) = S)
        OBVIOUS
    <2>1. 0 \notin S
        BY <1>4
    <2>2. Grow(S) \subseteq S <=> \A x \in S : {el[x].child, el[x].brother} \subseteq S \cup {0}
        BY Zenon DEF Grow
    <2> QED
        BY <2>1, <2>2 DEF Grow, Closed
<1> DEFINE T == {k \in 0 .. MaxChunks : Closed(f[k]) \/ Cardinality(f[k]) >= k}
<1>6. 0 \in T
    BY <1>2, <1>4
<1>7. ASSUME NEW i \in 0 .. MaxChunks - 1, i \in T PROVE i + 1 \in T
    <2> PICK j : j = i + 1
        OBVIOUS
    <2>1. j \in 1 .. MaxChunks /\ j \in 0 .. MaxChunks /\ j - 1 = i /\ i \in 0 .. MaxChunks /\ i \in Nat
        BY <1>2
    <2> PICK S, R : S = f[i] /\ R = f[j]
        OBVIOUS
    <2>2. S \in SUBSET Chunks /\ R \in SUBSET Chunks /\ R = Grow(S) /\ S \subseteq R
        BY <1>2, <1>5, <2>1
    <2>3. CASE Closed(S)
        <3>1. R = S
            BY <1>5, <2>2, <2>3
        <3> QED
            BY <2>1, <2>3, <3>1
    <2>4. CASE ~Closed(S)
        <3>1. S # R /\ Cardinality(S) >= i
            BY <1>5, <1>7, <2>2, <2>4
        <3>3. Cardinality(S) \in Nat /\ Cardinality(R) \in Nat /\ IsFiniteSet(R)
            BY <1>4, <2>2
        <3>2. Cardinality(S) < Cardinality(R)
            <4>1. Cardinality(S) <= Cardinality(R) /\ (Cardinality(R) = Cardinality(S) => R = S)
                BY <2>2, <3>3, FS_Subset
            <4> QED
                BY <3>1, <3>3, <4>1
        <3>4. Cardinality(R) >= j
            BY <2>1, <3>1, <3>2, <3>3
        <3> QED
            BY <2>1, <3>4
    <2> QED
        BY <2>3, <2>4
<1>8. \A k \in 0 .. MaxChunks : k \in T
    <2> HIDE DEF T
    <2> QED
        BY <1>2, <1>6, <1>7, UpTo
<1> PICK S : S = From(c)
    OBVIOUS
<1>9. S \subseteq Chunks /\ Closed(S)
    <2>1. S \in SUBSET Chunks /\ (Closed(S) \/ Cardinality(S) >= MaxChunks)
        BY <1>1, <1>2, <1>8
    <2>2. CASE Cardinality(S) >= MaxChunks
        <3>1. S = Chunks
            <4>1. Cardinality(S) <= Cardinality(Chunks) /\ (Cardinality(Chunks) = Cardinality(S) => Chunks = S)
                BY <1>3, <2>1, FS_Subset
            <4>2. Cardinality(S) \in Nat
                BY <1>4, <2>1
            <4> QED
                BY <1>2, <1>3, <2>2, <4>1, <4>2
        <3>2. \A x \in Chunks : {el[x].child, el[x].brother} \subseteq 0 .. MaxChunks
            BY DEF Box
        <3>3. 0 .. MaxChunks \subseteq Chunks \cup {0}
            BY <1>2 DEF Chunks
        <3> QED
            BY <3>1, <3>2, <3>3 DEF Closed
    <2> QED
        BY <2>1, <2>2
<1>10. ASSUME c # 0 PROVE c \in S
    <2> DEFINE Q == {k \in 0 .. MaxChunks : c \in f[k]}
    <2>1. 0 \in Q
        BY <1>2, <1>10
    <2>2. ASSUME NEW i \in 0 .. MaxChunks - 1, i \in Q PROVE i + 1 \in Q
        <3> PICK j : j = i + 1
            OBVIOUS
        <3>1. j \in 1 .. MaxChunks /\ j \in 0 .. MaxChunks /\ j - 1 = i /\ i \in 0 .. MaxChunks
            BY <1>2
        <3>2. f[i] \subseteq f[j]
            BY <1>2, <1>5, <3>1
        <3> QED
            BY <2>2, <3>1, <3>2
    <2>3. \A k \in 0 .. MaxChunks : k \in Q
        <3> HIDE DEF Q
        <3> QED
            BY <1>2, <2>1, <2>2, UpTo
    <2> QED
        BY <1>1, <1>2, <2>3
<1>11. ASSUME NEW U \in SUBSET Chunks, Closed(U), c \in U \cup {0} PROVE S \subseteq U
    <2> DEFINE Q == {k \in 0 .. MaxChunks : f[k] \subseteq U}
    <2>1. 0 \in Q
        BY <1>2, <1>11
    <2>2. ASSUME NEW i \in 0 .. MaxChunks - 1, i \in Q PROVE i + 1 \in Q
        <3> PICK j : j = i + 1
            OBVIOUS
        <3>1. j \in 1 .. MaxChunks /\ j \in 0 .. MaxChunks /\ j - 1 = i /\ i \in 0 .. MaxChunks
            BY <1>2
        <3> PICK R : R = f[i]
            OBVIOUS
        <3>2. f[j] = Grow(R) /\ R \subseteq U
            BY <1>2, <2>2, <3>1
        <3>3. Grow(R) \subseteq U
            <4>1. \A x \in R : {el[x].child, el[x].brother} \subseteq U \cup {0}
                BY <1>11, <3>2 DEF Closed
            <4>2. \A y \in Grow(R) : y # 0 /\ (y \in R \/ \E x \in R : y \in {el[x].child, el[x].brother})
                BY Zenon DEF Grow
            <4> QED
                BY <3>2, <4>1, <4>2
        <3> QED
            BY <3>1, <3>2, <3>3
    <2>3. \A k \in 0 .. MaxChunks : k \in Q
        <3> HIDE DEF Q
        <3> QED
            BY <1>2, <2>1, <2>2, UpTo
    <2> QED
        BY <1>1, <1>2, <2>3
<1> QED
    BY <1>9, <1>10, <1>11

-----------------------------------------------------------------------------
(* The file between the calls of one thread, and in the middle of one.      *)

Before == {"idle", "check", "schema", "id", "parent", "link", "take", "put"}

Past == {"head", "brother", "linkBrother", "schemaBack", "answer"}

\* The elements that are in the tree.  What is used besides them are roots that
\* a crash has cut off.
Tree == {c \in Chunks : el[c].used /\ (c = hdr.first \/ el[c].parent # 0)}

\* The parent is linked to a chunk that is not written yet; the children it had
\* are known to the thread only.
Hanging(t) == loc[t].p # 0 /\ pc[t] \in {"take", "put"}

FirstChild(t, x) == IF Hanging(t) /\ x = loc[t].p THEN loc[t].old ELSE el[x].child

Heads == [end : 0 .. MaxChunks, free : Chunks, first : 0 .. MaxChunks, count : Nat]

Locs == [p : 0 .. MaxChunks, seen : Nat, id : 0 .. MaxChunks, box : Box,
         old : 0 .. MaxChunks, at : 0 .. MaxChunks, next : 0 .. MaxChunks]

Typed(t) ==
  /\ el \in [Chunks -> Box] /\ hdr \in Heads /\ mem \in Heads
  /\ mem.free <= mem.end /\ mem.end % ChunksPerPage = 0
  /\ hdr.free <= hdr.end /\ hdr.end % ChunksPerPage = 0
  /\ pc \in [Threads -> Places] /\ loc \in [Threads -> Locs]
  /\ pc[t] \in Before \ {"idle"} => mem.end + ChunksPerPage <= MaxChunks
  /\ acked \subseteq Chunks \X (0 .. MaxChunks) /\ IsFiniteSet(acked)
  /\ cnt \in Nat /\ crashes \in Nat

Rooted ==
  /\ hdr.first # 0 => hdr.first \in Tree /\ el[hdr.first].parent = 0 /\ hdr.count > 0
  /\ hdr.first = 0 => Tree = {} /\ acked = {} /\ hdr.count = 0

\* Ids grow: no chunk is freed.
Low == \A c \in Tree : c < mem.free

\* Links lead to elements, first children to children.
Linked(t) ==
  \A x \in Tree :
    /\ FirstChild(t, x) # 0 => FirstChild(t, x) \in Tree /\ el[FirstChild(t, x)].parent = x
    /\ el[x].brother # 0 => el[x].brother \in Tree

\* Every element but the root has an older parent, and is its first child or
\* the brother of a younger one.
Anchored(t) ==
  \A x \in Tree : x # hdr.first => \E q \in Tree :
    /\ el[x].parent = q /\ q < x
    /\ \/ FirstChild(t, q) = x
       \/ \E z \in Tree : x < z /\ el[z].parent = q /\ el[z].brother = x

Answered == \A a \in acked : a[1] \in Tree /\ el[a[1]].parent = a[2]

\* What the locals of a call mean.
InCall(t) ==
  /\ pc[t] \in Before => hdr = mem
  /\ pc[t] = "head" => mem.first = hdr.first /\ mem.count = hdr.count
  /\ pc[t] \in Past \ {"head"} =>
       /\ hdr.end = mem.end /\ hdr.free = mem.free /\ hdr.count = mem.count
       /\ mem.first = IF loc[t].p = 0 THEN loc[t].id ELSE hdr.first
  /\ loc[t].p # 0 => loc[t].p \in Tree
  /\ loc[t].p = 0 => loc[t].old = 0
  /\ loc[t].p = 0 /\ pc[t] \notin {"idle", "check"} => hdr.first = 0
  /\ pc[t] \in {"parent", "link", "brother", "linkBrother"} => loc[t].p # 0
  /\ pc[t] \in {"parent", "link", "take", "put"} => loc[t].id = mem.free
  /\ pc[t] = "link" => loc[t].box = el[loc[t].p] /\ loc[t].old = el[loc[t].p].child
  /\ Hanging(t) => el[loc[t].p].child = mem.free
  /\ pc[t] = "put" => /\ loc[t].at = mem.free
                      /\ loc[t].next # 0 => loc[t].at < loc[t].next /\ loc[t].next <= mem.end
  /\ pc[t] \in Past =>
       /\ loc[t].at = loc[t].id /\ loc[t].id \in Chunks /\ loc[t].id < mem.free
       /\ el[loc[t].id].used /\ el[loc[t].id].parent = loc[t].p
       /\ \A a \in acked : a[1] # loc[t].id
  /\ pc[t] \in {"head", "brother", "linkBrother"} /\ loc[t].old # 0 => loc[t].old \in Tree
  /\ pc[t] \in {"brother", "linkBrother"} => loc[t].old # 0
  /\ pc[t] = "linkBrother" => loc[t].box = el[loc[t].old]
  /\ loc[t].p = 0 /\ pc[t] \in Past => el[loc[t].id] = NewBox(0, 0)

\* The counters, and by how much crashes may have left them behind the tree.
Sums(t) ==
  /\ hdr.count = Cardinality(acked)
  /\ pc[t] \in Places \ {"idle", "check", "schema", "answer"} => loc[t].seen = cnt
  /\ cnt - hdr.count - (IF pc[t] = "answer" THEN 1 ELSE 0) \in 0 .. crashes
  /\ Cardinality(Tree) - hdr.count - (IF pc[t] \in Past /\ loc[t].p # 0 THEN 1 ELSE 0) \in 0 .. crashes

Sound(t) ==
  /\ Typed(t) /\ Rooted /\ Low /\ Linked(t) /\ Anchored(t) /\ Answered
  /\ InCall(t) /\ Sums(t)

\* What the system has is a file between the calls, with what one more crash may
\* leave of the counters.
TreeOf(d) == {c \in Chunks : d.el[c].used /\ (c = d.hdr.first \/ d.el[c].parent # 0)}

SettledTyped(d) ==
  /\ d.el \in [Chunks -> Box] /\ d.hdr \in Heads
  /\ d.hdr.free <= d.hdr.end /\ d.hdr.end % ChunksPerPage = 0
  /\ d.acked \subseteq Chunks \X (0 .. MaxChunks) /\ IsFiniteSet(d.acked)
  /\ d.cnt \in Nat

SettledTree(d) ==
  /\ d.hdr.first # 0 => d.hdr.first \in TreeOf(d) /\ d.el[d.hdr.first].parent = 0 /\ d.hdr.count > 0
  /\ d.hdr.first = 0 => TreeOf(d) = {} /\ d.acked = {} /\ d.hdr.count = 0
  /\ \A c \in TreeOf(d) : c < d.hdr.free
  /\ \A a \in d.acked : a[1] \in TreeOf(d) /\ d.el[a[1]].parent = a[2]

SettledLinks(d) ==
  /\ \A x \in TreeOf(d) :
       /\ d.el[x].child # 0 => d.el[x].child \in TreeOf(d) /\ d.el[d.el[x].child].parent = x
       /\ d.el[x].brother # 0 => d.el[x].brother \in TreeOf(d)
  /\ \A x \in TreeOf(d) : x # d.hdr.first => \E q \in TreeOf(d) :
       /\ d.el[x].parent = q /\ q < x
       /\ \/ d.el[q].child = x
          \/ \E z \in TreeOf(d) : x < z /\ d.el[z].parent = q /\ d.el[z].brother = x

SettledSums(d) ==
  /\ d.hdr.count = Cardinality(d.acked)
  /\ d.cnt - d.hdr.count \in 0 .. crashes + 1
  /\ Cardinality(TreeOf(d)) - d.hdr.count \in 0 .. crashes + 1

Settled(d) == SettledTyped(d) /\ SettledTree(d) /\ SettledLinks(d) /\ SettledSums(d)

Sure == ~torn => /\ \A t \in Threads : Sound(t) /\ (pc[t] = "idle" => LastAnswerAtMost)
                 /\ ~disk.exposed => Settled(disk)

-----------------------------------------------------------------------------

\* A set that holds the root and whatever its members' links lead to holds the
\* whole tree.
LEMMA Covers ==
  ASSUME NEW t, Rooted, Anchored(t), MaxChunks \in Nat, NEW S, hdr.first \in S,
         \A x \in Tree : x \in S => {FirstChild(t, x), el[x].brother} \subseteq S \cup {0}
  PROVE  Tree \subseteq S
<1> SUFFICES ASSUME NEW b \in Tree, b \notin S PROVE FALSE
    OBVIOUS
<1> PICK X : X = {x \in Tree : x \notin S}
    OBVIOUS
<1>1. X \subseteq Nat /\ X # {} /\ \A x \in Tree : x \in 0 .. MaxChunks /\ x # 0
    BY DEF Tree, Chunks
<1>2. PICK x \in X : \A y \in X : x <= y
    BY <1>1, Least
<1> PICK q : q = el[x].parent
    OBVIOUS
<1>3. q \in S /\ q \in Tree
    <2>1. x \in Tree /\ x # hdr.first
        OBVIOUS
    <2>2. q \in Tree /\ q < x
        BY <2>1 DEF Anchored
    <2>3. q \in Nat /\ x \in Nat
        BY <1>1, <2>1, <2>2
    <2>4. q \notin X
        BY <1>2, <2>2, <2>3
    <2> QED
        BY <2>2, <2>4
<1> PICK Y : Y = {y \in X : el[y].parent = q}
    OBVIOUS
<1>4. Y \subseteq 0 .. MaxChunks /\ Y # {}
    BY <1>1
<1>5. PICK y \in Y : \A z \in Y : z <= y
    BY <1>4, Greatest
<1>6. y \in Tree /\ y \notin S /\ y # hdr.first /\ y # 0 /\ el[y].parent = q
    BY <1>1
<1>7. \/ FirstChild(t, q) = y
      \/ \E z \in Tree : y < z /\ el[z].parent = q /\ el[z].brother = y
    BY <1>6 DEF Anchored
<1>8. FirstChild(t, q) # y
    BY <1>3, <1>6
<1>9. ASSUME NEW z \in Tree, y < z, el[z].parent = q, el[z].brother = y PROVE FALSE
    <2>1. z \in S
        <3>1. z \notin Y
            <4>1. y \in Nat /\ z \in Nat
                BY <1>1, <1>6, <1>9
            <4> QED
                BY <1>5, <1>9, <4>1
        <3> QED
            BY <1>9, <3>1
    <2>2. y \in S \cup {0}
        BY <1>9, <2>1
    <2> QED
        BY <1>6, <2>2
<1> QED
    BY <1>7, <1>8, <1>9

LEMMA TreeFinite == Tree \subseteq Chunks /\ IsFiniteSet(Tree) /\ Cardinality(Tree) \in Nat
<1>1. Tree \subseteq Chunks
    BY DEF Tree
<1>2. IsFiniteSet(Chunks)
    BY SizesAssumption, FS_Interval DEF Chunks
<1>3. IsFiniteSet(Tree)
    BY <1>1, <1>2, FS_Subset
<1> QED
    BY <1>1, <1>3, FS_CardinalityType

\* A step that leaves the links of the tree alone.
LEMMA LinksStand ==
  ASSUME NEW t, Linked(t), Anchored(t),
         \A x \in Chunks : /\ el'[x].used = el[x].used /\ el'[x].parent = el[x].parent
                           /\ el'[x].brother = el[x].brother
                           /\ FirstChild(t, x)' = FirstChild(t, x),
         hdr'.first = hdr.first
  PROVE  Tree' = Tree /\ Linked(t)' /\ Anchored(t)'
<1>1. Tree' = Tree
    BY DEF Tree
<1>2. \A x \in Tree : x \in Chunks
    BY DEF Tree
<1>3. Linked(t)'
    <2> SUFFICES ASSUME NEW x \in Tree
                 PROVE  /\ FirstChild(t, x)' # 0 => /\ FirstChild(t, x)' \in Tree
                                                    /\ el'[FirstChild(t, x)'].parent = x
                        /\ el'[x].brother # 0 => el'[x].brother \in Tree
        BY <1>1 DEF Linked
    <2> PICK y : y = FirstChild(t, x)
        OBVIOUS
    <2>1. /\ y # 0 => y \in Tree /\ el[y].parent = x
          /\ el[x].brother # 0 => el[x].brother \in Tree
        BY DEF Linked
    <2>2. FirstChild(t, x)' = y /\ el'[x].brother = el[x].brother
        BY <1>2
    <2> QED
        BY <1>2, <2>1, <2>2
<1>4. Anchored(t)'
    <2> SUFFICES ASSUME NEW x \in Tree, x # hdr.first
                 PROVE  \E q \in Tree :
                          /\ el'[x].parent = q /\ q < x
                          /\ \/ FirstChild(t, q)' = x
                             \/ \E z \in Tree : x < z /\ el'[z].parent = q /\ el'[z].brother = x
        BY <1>1 DEF Anchored
    <2>1. PICK q \in Tree :
            /\ el[x].parent = q /\ q < x
            /\ \/ FirstChild(t, q) = x
               \/ \E z \in Tree : x < z /\ el[z].parent = q /\ el[z].brother = x
        BY DEF Anchored
    <2>2. el'[x].parent = q /\ FirstChild(t, q)' = FirstChild(t, q)
        BY <1>2, <2>1
    <2> QED
        BY <1>2, <2>1, <2>2
<1> QED
    BY <1>1, <1>3, <1>4

\* The same, in a step that answers nothing.
LEMMA TreeKept ==
  ASSUME NEW t, Rooted, Linked(t), Anchored(t), Answered,
         \A x \in Chunks : /\ el'[x].used = el[x].used /\ el'[x].parent = el[x].parent
                           /\ el'[x].brother = el[x].brother
                           /\ FirstChild(t, x)' = FirstChild(t, x),
         hdr'.first = hdr.first, hdr'.count = hdr.count, acked' = acked
  PROVE  /\ Tree' = Tree
         /\ Rooted' /\ Linked(t)' /\ Anchored(t)' /\ Answered'
<1>1. Tree' = Tree /\ Linked(t)' /\ Anchored(t)'
    BY LinksStand
<1>2. \A x \in Tree : x \in Chunks
    BY DEF Tree
<1>3. Rooted'
    BY <1>1, <1>2 DEF Rooted
<1>4. Answered'
    BY <1>1, <1>2 DEF Answered
<1> QED
    BY <1>1, <1>3, <1>4

\* A page more leaves the end of the file at the end of a page.
LEMMA PageMore ==
  ASSUME NEW P \in Nat, P > 0, NEW a \in Nat, a % P = 0
  PROVE  (a + P) % P = 0
<1> PICK b, q, k : b = a + P /\ q = a \div P /\ k = b \div P
    OBVIOUS
<1>1. b \in Nat /\ q \in Nat /\ a = P * q + (a % P)
    OBVIOUS
<1>2. k \in Nat /\ b % P \in Nat /\ b % P < P /\ b = P * k + (b % P)
    BY <1>1
<1>3. b = P * (q + 1)
    <2>1. P * (q + 1) = P * q + P
        BY <1>1
    <2> QED
        BY <1>1, <2>1
<1> PICK j, r : j = q + 1 /\ r = b % P
    OBVIOUS
<1>4. j \in Nat /\ b = P * j /\ b = P * k + r /\ r \in Nat /\ r < P
    BY <1>1, <1>2, <1>3
<1>5. k = j
    <2>1. P * k \in Nat /\ P * j \in Nat
        BY <1>2, <1>4
    <2>2. CASE k < j
        <3>1. P * (k + 1) <= P * j
            BY <1>2, <1>4, <2>2
        <3>2. P * (k + 1) = P * k + P
            BY <1>2
        <3> QED
            BY <1>4, <2>1, <3>1, <3>2
    <2>3. CASE j < k
        <3>1. P * (j + 1) <= P * k
            BY <1>2, <1>4, <2>3
        <3>2. P * (j + 1) = P * j + P
            BY <1>4
        <3> QED
            BY <1>4, <2>1, <3>1, <3>2
    <2> QED
        BY <1>2, <1>4, <2>2, <2>3
<1>6. P * k \in Nat /\ P * k = P * j
    BY <1>2, <1>5
<1>7. r = 0
    BY <1>4, <1>6
<1> QED
    BY <1>7

\* But between the link of a parent and the header, the file is one that calls
\* can start from.
LEMMA SettledFile ==
  ASSUME NEW t, Threads = {t}, Sound(t), ~Exposed(t)
  PROVE  Settled(View)
<1>s. /\ Typed(t) /\ Rooted /\ Low /\ Linked(t) /\ Anchored(t) /\ Answered
      /\ InCall(t) /\ Sums(t)
    BY DEF Sound
<1>t. /\ MaxChunks \in Nat /\ hdr \in Heads /\ cnt \in Nat /\ crashes \in Nat
    BY <1>s, SizesAssumption DEF Typed
<1>1. loc[t].p = 0 \/ pc[t] \notin {"take", "put", "head"}
    BY DEF Exposed
<1> PICK d : d = View
    OBVIOUS
<1>2. d.hdr = hdr /\ d.el = el /\ d.cnt = cnt /\ d.acked = acked
    BY DEF View
<1>3. TreeOf(d) = Tree
    BY <1>2 DEF TreeOf, Tree
<1>4. SettledTyped(d)
    BY <1>2, <1>s DEF Typed, SettledTyped
<1>5. \A c \in Tree : c < hdr.free
    <2>1. CASE pc[t] = "head"
        <3>1. Tree = {}
            BY <1>1, <1>s, <2>1 DEF InCall, Rooted
        <3> QED
            BY <3>1
    <2>2. CASE pc[t] # "head"
        <3>1. hdr.free = mem.free
            BY <1>s, <1>t, <2>2 DEF InCall, Before, Past, Places, Typed
        <3> QED
            BY <1>s, <3>1 DEF Low
    <2> QED
        BY <2>1, <2>2
<1>6. SettledTree(d)
    BY <1>2, <1>3, <1>5, <1>s DEF SettledTree, Rooted, Answered
<1>7. SettledLinks(d)
    <2>1. \A x \in Chunks : FirstChild(t, x) = el[x].child
        BY <1>1 DEF FirstChild, Hanging
    <2>2. \A x \in Tree : x \in Chunks
        BY DEF Tree
    <2> QED
        BY <1>2, <1>3, <1>s, <2>1, <2>2 DEF SettledLinks, Linked, Anchored
<1>8. SettledSums(d)
    <2>1. hdr.count \in Nat /\ Cardinality(Tree) \in Nat
        BY <1>t, TreeFinite DEF Heads
    <2>2. cnt - hdr.count \in 0 .. crashes + 1
        BY <1>s, <1>t, <2>1 DEF Sums
    <2>3. Cardinality(Tree) - hdr.count \in 0 .. crashes + 1
        BY <1>s, <1>t, <2>1 DEF Sums
    <2>4. hdr.count = Cardinality(acked)
        BY <1>s DEF Sums
    <2> QED
        BY <1>2, <1>3, <2>2, <2>3, <2>4 DEF SettledSums
<1> QED
    BY <1>4, <1>6, <1>7, <1>8 DEF Settled

LEMMA InitSure ==
  ASSUME NEW t, Threads = {t}
  PROVE  Init => Sure
<1> SUFFICES ASSUME Init PROVE Sound(t) /\ LastAnswerAtMost /\ Settled(disk)
    BY DEF Sure
<1> SUFFICES Sound(t)
    <2>1. disk = View /\ ~Exposed(t)
        BY DEF Init, Exposed
    <2>2. LastAnswerAtMost
        BY <2>1 DEF View, LastAnswerAtMost
    <2> QED
        BY <2>1, <2>2, SettledFile
<1>1. /\ mem = [end |-> ChunksPerPage, free |-> 1, first |-> 0, count |-> 0] /\ hdr = mem
      /\ el = [c \in Chunks |-> Blank] /\ cnt = 0
      /\ pc = [u \in Threads |-> "idle"] /\ loc = [u \in Threads |-> Nowhere]
      /\ acked = {} /\ crashes = 0
    BY DEF Init
<1>2. ChunksPerPage \in Nat \ {0} /\ MaxChunks \in Nat /\ ChunksPerPage <= MaxChunks
    BY SizesAssumption
<1>3. Blank \in Box /\ Nowhere \in Locs /\ pc[t] = "idle" /\ loc[t] = Nowhere /\ Nowhere.p = 0 /\ Nowhere.old = 0
    BY <1>1, <1>2 DEF Blank, Nowhere, Box, Locs
<1>4. Tree = {}
    <2>1. \A c \in Chunks : ~el[c].used
        BY <1>1 DEF Blank
    <2> QED
        BY <2>1 DEF Tree
<1>5. Typed(t)
    <2>1. mem \in Heads /\ mem.free = 1 /\ mem.end = ChunksPerPage
        BY <1>1, <1>2 DEF Heads, Chunks
    <2>2. ChunksPerPage % ChunksPerPage = 0
        <3>1. 0 \in Nat /\ 0 % ChunksPerPage = 0 /\ ChunksPerPage > 0
            BY <1>2
        <3>2. (0 + ChunksPerPage) % ChunksPerPage = 0
            BY <1>2, <3>1, PageMore
        <3> QED
            BY <1>2, <3>2
    <2>3. IsFiniteSet(acked)
        BY <1>1, FS_EmptySet
    <2> QED
        BY <1>1, <1>2, <1>3, <2>1, <2>2, <2>3 DEF Typed, Places, Before
<1>6. Rooted /\ Low /\ Linked(t) /\ Anchored(t) /\ Answered
    BY <1>1, <1>4 DEF Rooted, Low, Linked, Anchored, Answered
<1>7. InCall(t)
    BY <1>1, <1>3 DEF InCall, Hanging, Before, Past
<1>8. Sums(t)
    <2>1. Cardinality({}) = 0
        BY FS_EmptySet
    <2> QED
        BY <1>1, <1>3, <1>4, <2>1 DEF Sums, Past
<1> QED
    BY <1>5, <1>6, <1>7, <1>8 DEF Sound

\* What a step of the thread does to its place and its locals.
LEMMA Stepped ==
  ASSUME NEW t, Threads = {t}, pc \in [Threads -> Places], loc \in [Threads -> Locs]
  PROVE  /\ pc[t] \in Places /\ loc[t] \in Locs
         /\ \A from, to : to \in Places /\ Goto(t, from, to) =>
              pc[t] = from /\ pc'[t] = to /\ pc' \in [Threads -> Places]
         /\ \A l : l \in Locs /\ Local(t, l) => loc'[t] = l /\ loc' \in [Threads -> Locs]
BY DEF Goto, Local

LEMMA CallSound ==
  ASSUME NEW t, Threads = {t}, Sound(t), NEW p \in {0} \cup Ids, Call(t, p)
  PROVE  Sound(t)'
<1>s. /\ Typed(t) /\ Rooted /\ Low /\ Linked(t) /\ Anchored(t) /\ Answered
      /\ InCall(t) /\ Sums(t)
    BY DEF Sound
<1>t. /\ pc \in [Threads -> Places] /\ loc \in [Threads -> Locs] /\ MaxChunks \in Nat
    BY <1>s, SizesAssumption DEF Typed
<1> PICK l : l = [Nowhere EXCEPT !.p = p]
    OBVIOUS
<1>1. p \in 0 .. MaxChunks /\ (p # 0 => p \in Tree)
    <2>1. \A i \in Ids : i \in Tree /\ i \in Chunks
        BY <1>s DEF Ids, Answered, Tree
    <2> QED
        BY <1>t, <2>1 DEF Chunks
<1>2. l \in Locs /\ l.p = p /\ l.old = 0
    <2>1. Blank \in Box
        BY <1>t DEF Blank, Box
    <2> QED
        BY <1>1, <1>t, <2>1 DEF Locs, Nowhere
<1>3. /\ pc[t] = "idle" /\ pc'[t] = "check" /\ pc' \in [Threads -> Places]
      /\ loc'[t] = l /\ loc' \in [Threads -> Locs]
      /\ Room /\ UNCHANGED <<hdr, mem, el, cnt, acked, crashes>>
    <2>1. Goto(t, "idle", "check") /\ Local(t, l) /\ Room /\ UNCHANGED <<file, mem, acked, crashes>>
        BY DEF Call
    <2> QED
        BY <1>2, <1>t, <2>1, Stepped DEF Places, file
<1>4. mem.end + ChunksPerPage <= MaxChunks
    <2>1. Cardinality(Threads) = 1
        BY FS_Singleton
    <2> QED
        BY <1>3, <1>s, <2>1, SizesAssumption DEF Room, Typed, Heads
<1>5. Tree' = Tree /\ Rooted' /\ Linked(t)' /\ Anchored(t)' /\ Answered'
    <2>1. \A x \in Chunks : FirstChild(t, x)' = FirstChild(t, x)
        BY <1>3 DEF FirstChild, Hanging
    <2> QED
        BY <1>3, <1>s, <2>1, TreeKept
<1>6. Typed(t)'
    BY <1>3, <1>4, <1>s DEF Typed
<1>7. Low' /\ Sums(t)'
    BY <1>3, <1>5, <1>s DEF Low, Sums, Past
<1>8. InCall(t)'
    BY <1>1, <1>2, <1>3, <1>5, <1>s DEF InCall, Hanging, Before, Past
<1> QED
    BY <1>5, <1>6, <1>7, <1>8 DEF Sound

LEMMA CheckSound ==
  ASSUME NEW t, Threads = {t}, Sound(t), Check(t)
  PROVE  Sound(t)'
<1>s. /\ Typed(t) /\ Rooted /\ Low /\ Linked(t) /\ Anchored(t) /\ Answered
      /\ InCall(t) /\ Sums(t)
    BY DEF Sound
<1>t. /\ pc \in [Threads -> Places] /\ loc \in [Threads -> Locs] /\ MaxChunks \in Nat
    BY <1>s, SizesAssumption DEF Typed
<1>0. Nowhere \in Locs /\ Nowhere.p = 0 /\ Nowhere.old = 0
    <2>1. Blank \in Box
        BY <1>t DEF Blank, Box
    <2> QED
        BY <1>t, <2>1 DEF Locs, Nowhere
<1>3. /\ pc[t] = "check" /\ pc' \in [Threads -> Places] /\ loc' \in [Threads -> Locs]
      /\ \/ Passes(loc[t].p) /\ pc'[t] = "schema" /\ loc'[t] = loc[t]
         \/ pc'[t] = "idle" /\ loc'[t] = Nowhere
      /\ UNCHANGED <<hdr, mem, el, cnt, acked, crashes>>
    BY <1>0, <1>t, Stepped DEF Check, Places, file
<1>5. Tree' = Tree /\ Rooted' /\ Linked(t)' /\ Anchored(t)' /\ Answered'
    <2>1. \A x \in Chunks : FirstChild(t, x)' = FirstChild(t, x)
        BY <1>3 DEF FirstChild, Hanging
    <2> QED
        BY <1>3, <1>s, <2>1, TreeKept
<1>6. Typed(t)'
    BY <1>3, <1>s DEF Typed, Before
<1>7. Low' /\ Sums(t)'
    BY <1>3, <1>5, <1>s DEF Low, Sums, Past
<1>8. InCall(t)'
    <2>1. loc[t].p = 0 /\ Passes(loc[t].p) => hdr.first = 0
        BY <1>3, <1>s DEF Passes, InCall, Before, Rooted
    <2> QED
        BY <1>0, <1>3, <1>5, <1>s, <2>1 DEF InCall, Hanging, Before, Past
<1> QED
    BY <1>5, <1>6, <1>7, <1>8 DEF Sound

LEMMA ReadSchemaSound ==
  ASSUME NEW t, Threads = {t}, Sound(t), ReadSchema(t)
  PROVE  Sound(t)'
<1>s. /\ Typed(t) /\ Rooted /\ Low /\ Linked(t) /\ Anchored(t) /\ Answered
      /\ InCall(t) /\ Sums(t)
    BY DEF Sound
<1>t. /\ pc \in [Threads -> Places] /\ loc \in [Threads -> Locs] /\ MaxChunks \in Nat
      /\ loc[t] \in Locs
    BY <1>s, SizesAssumption DEF Typed
<1> PICK l : l = [loc[t] EXCEPT !.seen = cnt]
    OBVIOUS
<1>2. l \in Locs
    BY <1>s, <1>t DEF Locs, Typed
<1>3. /\ pc[t] = "schema" /\ pc'[t] = "id" /\ pc' \in [Threads -> Places]
      /\ loc'[t] = l /\ loc' \in [Threads -> Locs]
      /\ UNCHANGED <<hdr, mem, el, cnt, acked, crashes>>
    BY <1>2, <1>t, Stepped DEF ReadSchema, Places, file
<1>5. Tree' = Tree /\ Rooted' /\ Linked(t)' /\ Anchored(t)' /\ Answered'
    <2>1. \A x \in Chunks : FirstChild(t, x)' = FirstChild(t, x)
        BY <1>3, <1>t DEF FirstChild, Hanging, Locs
    <2> QED
        BY <1>3, <1>s, <2>1, TreeKept
<1>6. Typed(t)'
    BY <1>3, <1>s DEF Typed, Before
<1>7. Low' /\ Sums(t)'
    BY <1>3, <1>5, <1>s, <1>t DEF Low, Sums, Past, Places, Locs
<1>8. InCall(t)'
    BY <1>3, <1>5, <1>s, <1>t DEF InCall, Hanging, Before, Past, Locs
<1> QED
    BY <1>5, <1>6, <1>7, <1>8 DEF Sound

LEMMA ChooseIdSound ==
  ASSUME NEW t, Threads = {t}, Sound(t), ChooseId(t)
  PROVE  Sound(t)'
<1>s. /\ Typed(t) /\ Rooted /\ Low /\ Linked(t) /\ Anchored(t) /\ Answered
      /\ InCall(t) /\ Sums(t)
    BY DEF Sound
<1>t. /\ pc \in [Threads -> Places] /\ loc \in [Threads -> Locs] /\ MaxChunks \in Nat
      /\ loc[t] \in Locs
    BY <1>s, SizesAssumption DEF Typed
<1>f. mem.free \in 0 .. MaxChunks /\ mem.end \in 0 .. MaxChunks /\ mem.free <= mem.end
    <2>1. mem \in Heads /\ mem.free <= mem.end
        BY <1>s DEF Typed
    <2> QED
        BY <1>t, <2>1 DEF Heads, Chunks
<1> PICK l : l = [loc[t] EXCEPT !.id = mem.free]
    OBVIOUS
<1>2. l \in Locs
    BY <1>f, <1>t DEF Locs
<1>3. /\ pc[t] = "id" /\ pc'[t] = (IF loc[t].p = 0 THEN "take" ELSE "parent") /\ pc' \in [Threads -> Places]
      /\ loc'[t] = l /\ loc' \in [Threads -> Locs]
      /\ UNCHANGED <<hdr, mem, el, cnt, acked, crashes>>
    BY <1>2, <1>t, Stepped DEF ChooseId, Places, file
<1>5. Tree' = Tree /\ Rooted' /\ Linked(t)' /\ Anchored(t)' /\ Answered'
    <2>1. \A x \in Chunks : FirstChild(t, x)' = FirstChild(t, x)
        BY <1>3, <1>t DEF FirstChild, Hanging, Locs
    <2> QED
        BY <1>3, <1>s, <2>1, TreeKept
<1>6. Typed(t)'
    BY <1>3, <1>s DEF Typed, Before
<1>7. Low' /\ Sums(t)'
    BY <1>3, <1>5, <1>s, <1>t DEF Low, Sums, Past, Places, Locs
<1>8. InCall(t)'
    BY <1>3, <1>5, <1>s, <1>t DEF InCall, Hanging, Before, Past, Locs
<1> QED
    BY <1>5, <1>6, <1>7, <1>8 DEF Sound

LEMMA ReadParentSound ==
  ASSUME NEW t, Threads = {t}, Sound(t), ReadParent(t)
  PROVE  Sound(t)'
<1>s. /\ Typed(t) /\ Rooted /\ Low /\ Linked(t) /\ Anchored(t) /\ Answered
      /\ InCall(t) /\ Sums(t)
    BY DEF Sound
<1>t. /\ pc \in [Threads -> Places] /\ loc \in [Threads -> Locs] /\ MaxChunks \in Nat
      /\ loc[t] \in Locs
    BY <1>s, SizesAssumption DEF Typed
<1>1. pc[t] = "parent" /\ loc[t].p # 0
    BY <1>s DEF ReadParent, Goto, InCall
<1>p. el[loc[t].p] \in Box /\ el[loc[t].p].child \in 0 .. MaxChunks
    <2>1. loc[t].p \in Chunks
        BY <1>1, <1>t DEF Locs, Chunks
    <2> QED
        BY <1>s, <2>1 DEF Typed, Box
<1> PICK l : l = [loc[t] EXCEPT !.box = el[loc[t].p], !.old = el[loc[t].p].child]
    OBVIOUS
<1>2. l \in Locs
    BY <1>s, <1>t, <1>1, <1>p DEF Locs
<1>3. /\ pc[t] = "parent" /\ pc'[t] = "link" /\ pc' \in [Threads -> Places]
      /\ loc'[t] = l /\ loc' \in [Threads -> Locs]
      /\ UNCHANGED <<hdr, mem, el, cnt, acked, crashes>>
    BY <1>2, <1>t, Stepped DEF ReadParent, Places, file
<1>5. Tree' = Tree /\ Rooted' /\ Linked(t)' /\ Anchored(t)' /\ Answered'
    <2>1. \A x \in Chunks : FirstChild(t, x)' = FirstChild(t, x)
        BY <1>3, <1>t DEF FirstChild, Hanging, Locs
    <2> QED
        BY <1>3, <1>s, <2>1, TreeKept
<1>6. Typed(t)'
    BY <1>3, <1>s DEF Typed, Before
<1>7. Low' /\ Sums(t)'
    BY <1>3, <1>5, <1>s, <1>t DEF Low, Sums, Past, Places, Locs
<1>8. InCall(t)'
    BY <1>3, <1>5, <1>s, <1>t, <1>1, <1>p DEF InCall, Hanging, Before, Past, Locs
<1> QED
    BY <1>5, <1>6, <1>7, <1>8 DEF Sound

LEMMA TakeSound ==
  ASSUME NEW t, Threads = {t}, Sound(t), Take(t)
  PROVE  Sound(t)'
<1>s. /\ Typed(t) /\ Rooted /\ Low /\ Linked(t) /\ Anchored(t) /\ Answered
      /\ InCall(t) /\ Sums(t)
    BY DEF Sound
<1>t. /\ pc \in [Threads -> Places] /\ loc \in [Threads -> Locs] /\ MaxChunks \in Nat
      /\ loc[t] \in Locs
    BY <1>s, SizesAssumption DEF Typed
<1>f. mem.free \in 0 .. MaxChunks /\ mem.end \in 0 .. MaxChunks /\ mem.free <= mem.end
    <2>1. mem \in Heads /\ mem.free <= mem.end
        BY <1>s DEF Typed
    <2> QED
        BY <1>t, <2>1 DEF Heads, Chunks
<1>p. /\ NextFree(mem.free) \in 0 .. MaxChunks
      /\ NextFree(mem.free) # 0 => mem.free < NextFree(mem.free) /\ NextFree(mem.free) <= mem.end
    <2> PICK f : f = mem.free
        OBVIOUS
    <2>1. f % ChunksPerPage # 0 => f < mem.end
        BY <1>s, <1>f DEF Typed
    <2>2. f % ChunksPerPage # 0 => f + 1 <= mem.end /\ f + 1 \in 0 .. MaxChunks /\ f < f + 1
        BY <1>f, <1>t, <2>1
    <2> QED
        BY <1>t, <2>2 DEF NextFree
<1> PICK l : l = [loc[t] EXCEPT !.at = mem.free, !.next = NextFree(mem.free)]
    OBVIOUS
<1>2. l \in Locs
    BY <1>f, <1>t, <1>p DEF Locs
<1>3. /\ pc[t] = "take" /\ pc'[t] = "put" /\ pc' \in [Threads -> Places]
      /\ loc'[t] = l /\ loc' \in [Threads -> Locs]
      /\ UNCHANGED <<hdr, mem, el, cnt, acked, crashes>>
    BY <1>2, <1>t, Stepped DEF Take, Places, file
<1>5. Tree' = Tree /\ Rooted' /\ Linked(t)' /\ Anchored(t)' /\ Answered'
    <2>1. \A x \in Chunks : FirstChild(t, x)' = FirstChild(t, x)
        BY <1>3, <1>t DEF FirstChild, Hanging, Locs
    <2> QED
        BY <1>3, <1>s, <2>1, TreeKept
<1>6. Typed(t)'
    BY <1>3, <1>s DEF Typed, Before
<1>7. Low' /\ Sums(t)'
    BY <1>3, <1>5, <1>s, <1>t DEF Low, Sums, Past, Places, Locs
<1>8. InCall(t)'
    BY <1>3, <1>5, <1>s, <1>t, <1>p DEF InCall, Hanging, Before, Past, Locs
<1> QED
    BY <1>5, <1>6, <1>7, <1>8 DEF Sound

LEMMA ReadBrotherSound ==
  ASSUME NEW t, Threads = {t}, Sound(t), ReadBrother(t)
  PROVE  Sound(t)'
<1>s. /\ Typed(t) /\ Rooted /\ Low /\ Linked(t) /\ Anchored(t) /\ Answered
      /\ InCall(t) /\ Sums(t)
    BY DEF Sound
<1>t. /\ pc \in [Threads -> Places] /\ loc \in [Threads -> Locs] /\ MaxChunks \in Nat
      /\ loc[t] \in Locs
    BY <1>s, SizesAssumption DEF Typed
<1>1. pc[t] = "brother" /\ loc[t].old # 0
    BY <1>s DEF ReadBrother, Goto, InCall
<1>p. el[loc[t].old] \in Box
    <2>1. loc[t].old \in Chunks
        BY <1>1, <1>t DEF Locs, Chunks
    <2> QED
        BY <1>s, <2>1 DEF Typed
<1> PICK l : l = [loc[t] EXCEPT !.box = el[loc[t].old]]
    OBVIOUS
<1>2. l \in Locs
    BY <1>s, <1>t, <1>1, <1>p DEF Locs
<1>3. /\ pc[t] = "brother" /\ pc'[t] = "linkBrother" /\ pc' \in [Threads -> Places]
      /\ loc'[t] = l /\ loc' \in [Threads -> Locs]
      /\ UNCHANGED <<hdr, mem, el, cnt, acked, crashes>>
    BY <1>2, <1>t, Stepped DEF ReadBrother, Places, file
<1>5. Tree' = Tree /\ Rooted' /\ Linked(t)' /\ Anchored(t)' /\ Answered'
    <2>1. \A x \in Chunks : FirstChild(t, x)' = FirstChild(t, x)
        BY <1>3, <1>t DEF FirstChild, Hanging, Locs
    <2> QED
        BY <1>3, <1>s, <2>1, TreeKept
<1>6. Typed(t)'
    BY <1>3, <1>s DEF Typed, Before
<1>7. Low' /\ Sums(t)'
    BY <1>3, <1>5, <1>s, <1>t DEF Low, Sums, Past, Places, Locs
<1>8. InCall(t)'
    BY <1>3, <1>5, <1>s, <1>t, <1>1, <1>p DEF InCall, Hanging, Before, Past, Locs
<1> QED
    BY <1>5, <1>6, <1>7, <1>8 DEF Sound

LEMMA LinkParentSound ==
  ASSUME NEW t, Threads = {t}, Sound(t), LinkParent(t)
  PROVE  Sound(t)'
<1>s. /\ Typed(t) /\ Rooted /\ Low /\ Linked(t) /\ Anchored(t) /\ Answered
      /\ InCall(t) /\ Sums(t)
    BY DEF Sound
<1>t. /\ pc \in [Threads -> Places] /\ loc \in [Threads -> Locs] /\ MaxChunks \in Nat
      /\ loc[t] \in Locs /\ el \in [Chunks -> Box]
    BY <1>s, SizesAssumption DEF Typed
<1>f. mem.free \in 0 .. MaxChunks
    <2>1. mem \in Heads
        BY <1>s DEF Typed
    <2> QED
        BY <1>t, <2>1 DEF Heads, Chunks
<1> PICK p, b : p = loc[t].p /\ b = [el[p] EXCEPT !.child = mem.free]
    OBVIOUS
<1>1. /\ pc[t] = "link" /\ p \in Tree /\ p \in Chunks /\ p # 0
      /\ loc[t].box = el[p] /\ loc[t].old = el[p].child /\ loc[t].id = mem.free
    <2>1. pc[t] = "link"
        BY DEF LinkParent, Goto
    <2> QED
        BY <1>s, <2>1 DEF InCall, Tree
<1>2. /\ b \in Box /\ b.child = mem.free /\ b.parent = el[p].parent /\ b.prev = el[p].prev
      /\ b.brother = el[p].brother /\ b.used = el[p].used
    BY <1>f, <1>t, <1>1 DEF Box
<1>3. /\ pc'[t] = "take" /\ pc' \in [Threads -> Places]
      /\ el' = [el EXCEPT ![p] = b]
      /\ UNCHANGED <<hdr, mem, cnt, loc, acked, crashes>>
    BY <1>1, <1>t, Stepped DEF LinkParent, Places
<1>4. el' \in [Chunks -> Box] /\ el'[p] = b /\ \A x \in Chunks : x # p => el'[x] = el[x]
    BY <1>1, <1>2, <1>3, <1>t
<1>5. Tree' = Tree /\ Rooted' /\ Linked(t)' /\ Anchored(t)' /\ Answered'
    <2>1. \A x \in Chunks : FirstChild(t, x)' = FirstChild(t, x)
        BY <1>1, <1>3, <1>4 DEF FirstChild, Hanging
    <2>2. \A x \in Chunks : /\ el'[x].used = el[x].used /\ el'[x].parent = el[x].parent
                            /\ el'[x].brother = el[x].brother
        BY <1>2, <1>4
    <2> QED
        BY <1>3, <1>s, <2>1, <2>2, TreeKept
<1>6. Typed(t)'
    BY <1>1, <1>3, <1>4, <1>s DEF Typed, Before
<1>7. Low' /\ Sums(t)'
    BY <1>1, <1>3, <1>5, <1>s DEF Low, Sums, Past, Places
<1>8. InCall(t)'
    BY <1>1, <1>2, <1>3, <1>4, <1>5, <1>s DEF InCall, Hanging, Before, Past
<1> QED
    BY <1>5, <1>6, <1>7, <1>8 DEF Sound

LEMMA LinkBrotherSound ==
  ASSUME NEW t, Threads = {t}, Sound(t), LinkBrother(t)
  PROVE  Sound(t)'
<1>s. /\ Typed(t) /\ Rooted /\ Low /\ Linked(t) /\ Anchored(t) /\ Answered
      /\ InCall(t) /\ Sums(t)
    BY DEF Sound
<1>t. /\ pc \in [Threads -> Places] /\ loc \in [Threads -> Locs] /\ MaxChunks \in Nat
      /\ loc[t] \in Locs /\ el \in [Chunks -> Box]
    BY <1>s, SizesAssumption DEF Typed
<1> PICK o, b : o = loc[t].old /\ b = [el[o] EXCEPT !.prev = loc[t].id]
    OBVIOUS
<1>1. pc[t] = "linkBrother" /\ o \in Tree /\ o \in Chunks /\ loc[t].box = el[o] /\ loc[t].p # 0
    <2>1. pc[t] = "linkBrother"
        BY DEF LinkBrother, Goto
    <2> QED
        BY <1>s, <2>1 DEF InCall, Tree
<1>2. /\ b \in Box /\ b.child = el[o].child /\ b.parent = el[o].parent
      /\ b.brother = el[o].brother /\ b.used = el[o].used
    BY <1>t, <1>1 DEF Box, Locs
<1>3. /\ pc'[t] = "schemaBack" /\ pc' \in [Threads -> Places]
      /\ el' = [el EXCEPT ![o] = b]
      /\ UNCHANGED <<hdr, mem, cnt, loc, acked, crashes>>
    BY <1>1, <1>t, Stepped DEF LinkBrother, Places
<1>4. el' \in [Chunks -> Box] /\ el'[o] = b /\ \A x \in Chunks : x # o => el'[x] = el[x]
    BY <1>1, <1>2, <1>3, <1>t
<1>a. \A x \in Chunks : /\ el'[x].used = el[x].used /\ el'[x].parent = el[x].parent
                        /\ el'[x].brother = el[x].brother /\ el'[x].child = el[x].child
    BY <1>2, <1>4
<1>5. Tree' = Tree /\ Rooted' /\ Linked(t)' /\ Anchored(t)' /\ Answered'
    <2>1. \A x \in Chunks : FirstChild(t, x)' = FirstChild(t, x)
        BY <1>1, <1>3, <1>a DEF FirstChild, Hanging
    <2> QED
        BY <1>3, <1>s, <1>a, <2>1, TreeKept
<1>6. Typed(t)'
    BY <1>1, <1>3, <1>4, <1>s DEF Typed, Before
<1>7. Low' /\ Sums(t)'
    BY <1>1, <1>3, <1>5, <1>s DEF Low, Sums, Past, Places
<1>8. InCall(t)'
    BY <1>1, <1>3, <1>a, <1>5, <1>s DEF InCall, Hanging, Before, Past
<1> QED
    BY <1>5, <1>6, <1>7, <1>8 DEF Sound

LEMMA WriteSchemaSound ==
  ASSUME NEW t, Threads = {t}, Sound(t), WriteSchema(t)
  PROVE  Sound(t)'
<1>s. /\ Typed(t) /\ Rooted /\ Low /\ Linked(t) /\ Anchored(t) /\ Answered
      /\ InCall(t) /\ Sums(t)
    BY DEF Sound
<1>t. pc \in [Threads -> Places] /\ loc \in [Threads -> Locs] /\ cnt \in Nat /\ crashes \in Nat
    BY <1>s DEF Typed
<1>1. pc[t] = "schemaBack"
    BY DEF WriteSchema, Goto
<1>2. loc[t].seen = cnt
    BY <1>1, <1>s DEF Sums, Places
<1>3. /\ pc'[t] = "answer" /\ pc' \in [Threads -> Places] /\ cnt' = cnt + 1
      /\ UNCHANGED <<hdr, mem, el, loc, acked, crashes>>
    BY <1>2, <1>t, Stepped DEF WriteSchema, Places
<1>5. Tree' = Tree /\ Rooted' /\ Linked(t)' /\ Anchored(t)' /\ Answered'
    <2>1. \A x \in Chunks : FirstChild(t, x)' = FirstChild(t, x)
        BY <1>1, <1>3 DEF FirstChild, Hanging
    <2> QED
        BY <1>3, <1>s, <2>1, TreeKept
<1>6. Typed(t)'
    BY <1>1, <1>3, <1>s, <1>t DEF Typed, Before
<1>7. Low' /\ Sums(t)'
    <2>1. Low'
        BY <1>3, <1>5, <1>s DEF Low
    <2>2. hdr.count \in Nat
        BY <1>s DEF Typed, Heads
    <2>3. cnt - hdr.count \in 0 .. crashes
        BY <1>1, <1>s, <1>t, <2>2 DEF Sums
    <2>4. cnt' - hdr.count - 1 \in 0 .. crashes
        BY <1>3, <1>t, <2>2, <2>3
    <2>5. /\ hdr'.count = Cardinality(acked')
          /\ Cardinality(Tree') - hdr'.count - (IF pc'[t] \in Past /\ loc'[t].p # 0 THEN 1 ELSE 0) \in 0 .. crashes'
        BY <1>1, <1>3, <1>5, <1>s DEF Sums, Past
    <2> QED
        BY <1>3, <2>1, <2>4, <2>5 DEF Sums
<1>8. InCall(t)'
    BY <1>1, <1>3, <1>5, <1>s DEF InCall, Hanging, Before, Past
<1> QED
    BY <1>5, <1>6, <1>7, <1>8 DEF Sound

LEMMA HeadSound ==
  ASSUME NEW t, Threads = {t}, Sound(t), Head(t)
  PROVE  Sound(t)'
<1>s. /\ Typed(t) /\ Rooted /\ Low /\ Linked(t) /\ Anchored(t) /\ Answered
      /\ InCall(t) /\ Sums(t)
    BY DEF Sound
<1>t. /\ pc \in [Threads -> Places] /\ loc \in [Threads -> Locs] /\ MaxChunks \in Nat
      /\ mem \in Heads
    BY <1>s, SizesAssumption DEF Typed
<1>1. /\ pc[t] = "head" /\ mem.first = hdr.first /\ mem.count = hdr.count
      /\ loc[t].at = loc[t].id /\ loc[t].id \in Chunks
    <2>1. pc[t] = "head"
        BY DEF Head, Goto
    <2> QED
        BY <1>s, <2>1 DEF InCall, Past
<1>2. /\ mem' \in Heads /\ mem'.end = mem.end /\ mem'.free = mem.free /\ mem'.count = mem.count
      /\ mem'.first = IF loc[t].p = 0 THEN loc[t].id ELSE mem.first
    <2>1. loc[t].id \in 0 .. MaxChunks
        BY <1>1, <1>t DEF Chunks
    <2> QED
        BY <1>1, <1>t, <2>1 DEF Head, Heads
<1>3. /\ pc'[t] = (IF loc[t].old = 0 THEN "schemaBack" ELSE "brother") /\ pc' \in [Threads -> Places]
      /\ hdr' = mem /\ UNCHANGED <<el, cnt, loc, acked, crashes>>
    <2>1. AfterSave(t) \in Places /\ AfterSave(t) = (IF loc[t].old = 0 THEN "schemaBack" ELSE "brother")
        BY DEF AfterSave, Places
    <2>2. Goto(t, "head", AfterSave(t))
        BY DEF Head
    <2>3. pc'[t] = AfterSave(t) /\ pc' \in [Threads -> Places]
        BY <1>t, <2>1, <2>2, Stepped
    <2> QED
        BY <2>1, <2>3 DEF Head
<1>5. Tree' = Tree /\ Rooted' /\ Linked(t)' /\ Anchored(t)' /\ Answered'
    <2>1. \A x \in Chunks : FirstChild(t, x)' = FirstChild(t, x)
        BY <1>1, <1>3 DEF FirstChild, Hanging
    <2> QED
        BY <1>1, <1>3, <1>s, <2>1, TreeKept
<1>6. Typed(t)'
    BY <1>1, <1>2, <1>3, <1>s DEF Typed, Before
<1>7. Low' /\ Sums(t)'
    BY <1>1, <1>2, <1>3, <1>5, <1>s DEF Low, Sums, Past, Places
<1>8. InCall(t)'
    <2>1. loc[t].p = 0 => loc[t].old = 0
        BY <1>s DEF InCall
    <2> QED
        BY <1>1, <1>2, <1>3, <1>5, <1>s, <2>1 DEF InCall, Hanging, Before, Past
<1> QED
    BY <1>5, <1>6, <1>7, <1>8 DEF Sound

LEMMA AnswerSound ==
  ASSUME NEW t, Threads = {t}, Sound(t), Answer(t)
  PROVE  Sound(t)'
<1>s. /\ Typed(t) /\ Rooted /\ Low /\ Linked(t) /\ Anchored(t) /\ Answered
      /\ InCall(t) /\ Sums(t)
    BY DEF Sound
<1>t. /\ pc \in [Threads -> Places] /\ loc \in [Threads -> Locs] /\ MaxChunks \in Nat
      /\ loc[t] \in Locs /\ el \in [Chunks -> Box] /\ mem \in Heads /\ hdr \in Heads
      /\ cnt \in Nat /\ crashes \in Nat
    BY <1>s, SizesAssumption DEF Typed
<1> PICK i, p, a : i = loc[t].id /\ p = loc[t].p /\ a = <<i, p>>
    OBVIOUS
<1>0. Nowhere \in Locs /\ Nowhere.p = 0 /\ Nowhere.old = 0
    <2>1. Blank \in Box
        BY <1>t DEF Blank, Box
    <2> QED
        BY <1>t, <2>1 DEF Locs, Nowhere
<1>1. /\ pc[t] = "answer" /\ i \in Chunks /\ i < mem.free /\ el[i].used /\ el[i].parent = p
      /\ p \in 0 .. MaxChunks
      /\ \A b \in acked : b[1] # i
      /\ hdr.end = mem.end /\ hdr.free = mem.free /\ hdr.count = mem.count
      /\ mem.first = (IF p = 0 THEN i ELSE hdr.first)
      /\ p # 0 => p \in Tree
      /\ p = 0 => hdr.first = 0 /\ el[i] = NewBox(0, 0)
    <2>1. pc[t] = "answer"
        BY DEF Answer, Goto
    <2> QED
        BY <1>s, <1>t, <2>1 DEF InCall, Past, Locs
<1>2. /\ mem' \in Heads /\ mem'.end = mem.end /\ mem'.free = mem.free /\ mem'.first = mem.first
      /\ mem'.count = hdr.count + 1
    BY <1>1, <1>t DEF Answer, Heads
<1>3. /\ pc'[t] = "idle" /\ pc' \in [Threads -> Places]
      /\ loc'[t] = Nowhere /\ loc' \in [Threads -> Locs]
      /\ hdr' = mem' /\ acked' = acked \cup {a} /\ UNCHANGED <<el, cnt, crashes>>
    BY <1>0, <1>t, Stepped DEF Answer, Places
<1>4. IsFiniteSet(acked) /\ a \notin acked /\ acked \subseteq Chunks \X (0 .. MaxChunks)
    BY <1>1, <1>s DEF Typed
<1>5. /\ acked' \subseteq Chunks \X (0 .. MaxChunks) /\ IsFiniteSet(acked')
      /\ Cardinality(acked') = Cardinality(acked) + 1
    <2>1. IsFiniteSet(acked \cup {a}) /\ Cardinality(acked \cup {a}) = Cardinality(acked) + 1
        BY <1>4, FS_AddElement
    <2>2. a \in Chunks \X (0 .. MaxChunks)
        BY <1>1
    <2> QED
        BY <1>3, <1>4, <2>1, <2>2
<1>6. \A x \in Chunks : FirstChild(t, x)' = el[x].child /\ FirstChild(t, x) = el[x].child
    BY <1>1, <1>3 DEF FirstChild, Hanging
<1>7. Typed(t)'
    BY <1>1, <1>2, <1>3, <1>5, <1>s DEF Typed, Before
<1>8. InCall(t)'
    BY <1>0, <1>2, <1>3 DEF InCall, Hanging, Before, Past
<1>9. hdr.count = Cardinality(acked) /\ cnt - hdr.count - 1 \in 0 .. crashes
    BY <1>1, <1>s DEF Sums
<1>10. hdr'.count = Cardinality(acked') /\ cnt' - hdr'.count \in 0 .. crashes'
    <2>1. hdr.count \in Nat
        BY <1>t DEF Heads
    <2> QED
        BY <1>2, <1>3, <1>5, <1>9, <1>t, <2>1
<1>11. CASE p # 0
    <2>1. Tree' = Tree /\ Linked(t)' /\ Anchored(t)'
        BY <1>1, <1>2, <1>3, <1>6, <1>11, <1>s, LinksStand
    <2>2. \A x \in Tree : x \in Chunks
        BY DEF Tree
    <2>3. i \in Tree
        BY <1>1, <1>11 DEF Tree
    <2>4. Answered'
        BY <1>1, <1>3, <1>s, <2>1, <2>3 DEF Answered
    <2>5. Rooted'
        <3>1. hdr.first # 0
            BY <1>1, <1>11, <1>s DEF Rooted
        <3>2. hdr'.first = hdr.first /\ hdr'.count = hdr.count + 1 /\ hdr.count \in Nat
            BY <1>1, <1>2, <1>3, <1>11, <1>t DEF Heads
        <3> QED
            BY <1>3, <1>s, <2>1, <3>1, <3>2 DEF Rooted
    <2>6. Low'
        BY <1>2, <1>s, <2>1 DEF Low
    <2>7. Sums(t)'
        <3>1. Cardinality(Tree) - hdr.count - 1 \in 0 .. crashes
            BY <1>1, <1>11, <1>s DEF Sums, Past
        <3>2. hdr.count \in Nat /\ Cardinality(Tree) \in Nat
            BY <1>t, TreeFinite DEF Heads
        <3>3. Cardinality(Tree') - hdr'.count \in 0 .. crashes'
            BY <1>2, <1>3, <1>t, <2>1, <3>1, <3>2
        <3>4. pc'[t] = "idle" /\ "idle" \notin Past
            BY <1>3 DEF Past
        <3> QED
            BY <1>10, <3>2, <3>3, <3>4, <1>t, <2>1, <1>2, <1>3 DEF Sums
    <2> QED
        BY <1>7, <1>8, <2>1, <2>4, <2>5, <2>6, <2>7 DEF Sound
<1>12. CASE p = 0
    <2>1. hdr.first = 0 /\ Tree = {} /\ acked = {} /\ hdr.count = 0 /\ hdr'.first = i /\ 0 \notin Chunks
        BY <1>1, <1>2, <1>3, <1>12, <1>s DEF Rooted, Chunks
    <2>2. Tree' = {i}
        <3>1. \A c \in Chunks : el[c].used => el[c].parent = 0
            BY <2>1 DEF Tree
        <3> QED
            BY <1>1, <1>3, <2>1, <3>1 DEF Tree
    <2>3. el'[i].child = 0 /\ el'[i].brother = 0 /\ el'[i].parent = 0 /\ FirstChild(t, i)' = 0
        BY <1>1, <1>3, <1>6, <1>12 DEF NewBox
    <2>4. Linked(t)' /\ Anchored(t)'
        BY <2>1, <2>2, <2>3 DEF Linked, Anchored
    <2>5. Rooted' /\ Low' /\ Answered'
        BY <1>1, <1>2, <1>3, <1>12, <2>1, <2>2, <2>3 DEF Rooted, Low, Answered
    <2>6. Sums(t)'
        <3>1. Cardinality(Tree') = 1
            BY <2>2, FS_Singleton
        <3>2. hdr'.count = 1
            BY <1>2, <1>3, <2>1
        <3>3. pc'[t] = "idle" /\ "idle" \notin Past
            BY <1>3 DEF Past
        <3>4. Cardinality(Tree') - hdr'.count = 0 /\ 0 \in 0 .. crashes'
            BY <1>3, <1>t, <3>1, <3>2
        <3>5. cnt' - hdr'.count - 0 \in 0 .. crashes'
            BY <1>10, <1>3, <1>t, <3>2
        <3> QED
            BY <1>10, <3>1, <3>2, <3>3, <3>4, <3>5 DEF Sums
    <2> QED
        BY <1>7, <1>8, <2>4, <2>5, <2>6 DEF Sound
<1> QED
    BY <1>11, <1>12

\* A crash that tears nothing.
LEMMA CrashSound ==
  ASSUME NEW t, Threads = {t}, Settled(disk), Crash, crashes \in Nat
  PROVE  Sound(t)'
<1>s. SettledTyped(disk) /\ SettledTree(disk) /\ SettledLinks(disk) /\ SettledSums(disk)
    BY DEF Settled
<1>t. MaxChunks \in Nat
    BY SizesAssumption
<1>0. Nowhere \in Locs /\ Nowhere.p = 0 /\ Nowhere.old = 0
    <2>1. Blank \in Box
        BY <1>t DEF Blank, Box
    <2> QED
        BY <1>t, <2>1 DEF Locs, Nowhere
<1>2. /\ pc' = [u \in Threads |-> "idle"] /\ loc' = [u \in Threads |-> Nowhere]
      /\ mem' = hdr' /\ crashes' = crashes + 1
      /\ hdr' = disk.hdr /\ el' = disk.el /\ cnt' = disk.cnt /\ acked' = disk.acked
    BY DEF Crash
<1>3. /\ pc'[t] = "idle" /\ pc' \in [Threads -> Places]
      /\ loc'[t] = Nowhere /\ loc' \in [Threads -> Locs]
    BY <1>0, <1>2 DEF Places
<1>4. Tree' = TreeOf(disk)
    BY <1>2 DEF Tree, TreeOf
<1>5. Rooted' /\ Low' /\ Answered'
    BY <1>2, <1>4, <1>s DEF SettledTree, Rooted, Low, Answered
<1>6. Linked(t)' /\ Anchored(t)'
    <2>1. \A x \in Chunks : FirstChild(t, x)' = el'[x].child
        BY <1>3 DEF FirstChild, Hanging
    <2>2. \A x \in Tree' : x \in Chunks
        BY <1>4 DEF TreeOf
    <2> QED
        BY <1>2, <1>4, <1>s, <2>1, <2>2 DEF SettledLinks, Linked, Anchored
<1>7. Typed(t)'
    BY <1>2, <1>3, <1>s DEF SettledTyped, Typed, Before
<1>8. Sums(t)'
    <2>1. "idle" \notin Past
        BY DEF Past
    <2> PICK n, k, c : n = Cardinality(TreeOf(disk)) /\ k = disk.hdr.count /\ c = disk.cnt
        OBVIOUS
    <2>2. k = Cardinality(disk.acked) /\ c - k \in 0 .. crashes + 1 /\ n - k \in 0 .. crashes + 1
        BY <1>s DEF SettledSums
    <2>3. Cardinality(Tree') = n /\ hdr'.count = k /\ cnt' = c
        BY <1>2, <1>4
    <2>4. k \in Nat /\ c \in Nat
        BY <1>s DEF SettledTyped, Heads
    <2>5. c - k - 0 \in 0 .. crashes' /\ n - k - 0 \in 0 .. crashes'
        <3>1. n \in Nat
            <4>1. TreeOf(disk) \subseteq Chunks /\ IsFiniteSet(Chunks)
                BY <1>t, FS_Interval DEF TreeOf, Chunks
            <4> QED
                BY <4>1, FS_Subset, FS_CardinalityType
        <3> QED
            BY <1>2, <2>2, <2>4, <3>1
    <2> QED
        BY <1>2, <1>3, <2>1, <2>2, <2>3, <2>5 DEF Sums
<1>9. InCall(t)'
    BY <1>0, <1>2, <1>3 DEF InCall, Hanging, Before, Past
<1> QED
    BY <1>5, <1>6, <1>7, <1>8, <1>9 DEF Sound

\* The element is written into the chunk its parent has been linked to.
LEMMA PutSound ==
  ASSUME NEW t, Threads = {t}, Sound(t), Put(t)
  PROVE  Sound(t)'
<1>s. /\ Typed(t) /\ Rooted /\ Low /\ Linked(t) /\ Anchored(t) /\ Answered
      /\ InCall(t) /\ Sums(t)
    BY DEF Sound
<1>t. /\ pc \in [Threads -> Places] /\ loc \in [Threads -> Locs] /\ MaxChunks \in Nat
      /\ loc[t] \in Locs /\ el \in [Chunks -> Box] /\ mem \in Heads
      /\ ChunksPerPage \in Nat /\ ChunksPerPage > 0
    BY <1>s, SizesAssumption DEF Typed
<1> PICK f, p, o, b : f = mem.free /\ p = loc[t].p /\ o = loc[t].old /\ b = NewBox(p, o)
    OBVIOUS
<1>0. pc[t] = "put"
    BY DEF Put, Goto
<1>1. /\ hdr = mem /\ loc[t].at = f /\ loc[t].id = f /\ f \in Chunks
      /\ loc[t].next # 0 => f < loc[t].next /\ loc[t].next <= mem.end
      /\ p # 0 => p \in Tree /\ el[p].child = f
      /\ p = 0 => o = 0 /\ hdr.first = 0
      /\ mem.end + ChunksPerPage <= MaxChunks /\ mem.free <= mem.end /\ mem.end % ChunksPerPage = 0
    <2>1. /\ hdr = mem /\ loc[t].at = f /\ loc[t].id = f
          /\ loc[t].next # 0 => f < loc[t].next /\ loc[t].next <= mem.end
          /\ p # 0 => p \in Tree /\ el[p].child = f
          /\ p = 0 => o = 0 /\ hdr.first = 0
        BY <1>0, <1>s DEF InCall, Before, Hanging
    <2>2. /\ mem.end + ChunksPerPage <= MaxChunks /\ mem.free <= mem.end
          /\ mem.end % ChunksPerPage = 0
        BY <1>0, <1>s DEF Typed, Before
    <2> QED
        BY <1>t, <2>1, <2>2 DEF Heads
<1>2. b \in Box /\ b.child = 0 /\ b.parent = p /\ b.brother = o /\ b.used /\ p \in 0 .. MaxChunks
    BY <1>t DEF NewBox, Box, Locs
<1>3. /\ pc'[t] = "head" /\ pc' \in [Threads -> Places]
      /\ el' = [el EXCEPT ![f] = b]
      /\ UNCHANGED <<hdr, cnt, loc, acked, crashes>>
    BY <1>1, <1>t, Stepped DEF Put, Places
<1>4. el' \in [Chunks -> Box] /\ el'[f] = b /\ \A x \in Chunks : x # f => el'[x] = el[x]
    BY <1>1, <1>2, <1>3, <1>t
<1>5. /\ mem' \in Heads /\ mem'.free <= mem'.end /\ mem'.end % ChunksPerPage = 0
      /\ mem'.first = mem.first /\ mem'.count = mem.count /\ f < mem'.free
    <2>1. CASE loc[t].next = 0
        <3>1. /\ mem'.free = mem.end + 1 /\ mem'.end = mem.end + ChunksPerPage
              /\ mem'.first = mem.first /\ mem'.count = mem.count
              /\ mem' = [mem EXCEPT !.free = mem.end + 1, !.end = mem.end + ChunksPerPage]
            BY <1>t, <2>1 DEF Put, Heads
        <3>2. mem.end \in Nat /\ f \in Nat /\ mem.end + 1 \in Chunks /\ mem.end + ChunksPerPage \in 0 .. MaxChunks
            BY <1>1, <1>t DEF Heads, Chunks
        <3>3. (mem.end + ChunksPerPage) % ChunksPerPage = 0
            BY <1>1, <1>t, <3>2, PageMore
        <3>4. mem' \in Heads
            BY <1>t, <3>1, <3>2 DEF Heads
        <3> QED
            BY <1>1, <1>t, <3>1, <3>2, <3>3, <3>4
    <2>2. CASE loc[t].next # 0
        <3>1. /\ mem'.free = loc[t].next /\ mem'.end = mem.end
              /\ mem'.first = mem.first /\ mem'.count = mem.count
              /\ mem' = [mem EXCEPT !.free = loc[t].next]
            BY <1>t, <2>2 DEF Put, Heads
        <3>2. loc[t].next \in Chunks
            BY <1>t, <2>2 DEF Locs, Chunks
        <3>3. mem' \in Heads
            BY <1>t, <3>1, <3>2 DEF Heads
        <3> QED
            BY <1>1, <2>2, <3>1, <3>3
    <2> QED
        BY <2>1, <2>2
<1>6. f \notin Tree /\ \A x \in Tree : x < f /\ x \in Chunks /\ x # f /\ el'[x] = el[x]
    <2>1. \A x \in Tree : x \in Chunks /\ x < f
        BY <1>s DEF Low, Tree
    <2>2. f \in Nat /\ \A x \in Chunks : x \in Nat
        BY <1>1, <1>t DEF Chunks
    <2>3. \A x \in Tree : x # f
        BY <2>1, <2>2
    <2> QED
        BY <1>4, <2>1, <2>3
<1>7. \A x \in Chunks : FirstChild(t, x)' = el'[x].child
    BY <1>3 DEF FirstChild, Hanging
<1>8. Typed(t)'
    BY <1>1, <1>3, <1>4, <1>5, <1>s DEF Typed, Before
<1>9. Tree' = IF p = 0 THEN {} ELSE Tree \cup {f}
    <2>1. CASE p = 0
        <3>1. hdr'.first = 0 /\ 0 \notin Chunks /\ Tree = {}
            BY <1>1, <1>3, <1>s, <2>1 DEF Rooted, Chunks
        <3>2. \A c \in Chunks : el[c].used => el[c].parent = 0
            BY <3>1 DEF Tree
        <3>3. \A c \in Chunks : el'[c].used => el'[c].parent = 0
            BY <1>2, <1>4, <2>1, <3>2
        <3> QED
            BY <2>1, <3>1, <3>3 DEF Tree
    <2>2. CASE p # 0
        <3>1. el'[f].used /\ el'[f].parent # 0 /\ f \in Chunks
            BY <1>1, <1>2, <1>4, <2>2
        <3> QED
            BY <1>3, <1>4, <2>2, <3>1 DEF Tree
    <2> QED
        BY <2>1, <2>2
<1>10. p = 0 => Tree = {}
    BY <1>1, <1>s DEF Rooted
<1>11. Tree \subseteq Tree' /\ \A x \in Tree' : x \in Tree \/ (x = f /\ p # 0)
    BY <1>9, <1>10
<1>12. Rooted'
    <2>1. CASE hdr.first = 0
        <3>1. p = 0
            BY <1>1, <1>s, <2>1 DEF Rooted
        <3> QED
            BY <1>3, <1>9, <1>s, <2>1, <3>1 DEF Rooted
    <2>2. CASE hdr.first # 0
        BY <1>3, <1>6, <1>11, <1>s, <2>2 DEF Rooted
    <2> QED
        BY <2>1, <2>2
<1>13. Low'
    <2>1. mem'.free \in Nat /\ f \in Nat /\ \A x \in Tree : x \in Nat
        BY <1>1, <1>5, <1>6, <1>t DEF Heads, Chunks
    <2> QED
        BY <1>5, <1>6, <1>11, <2>1 DEF Low
<1>14. Answered'
    BY <1>3, <1>6, <1>11, <1>s DEF Answered
<1>15. p # 0 => /\ FirstChild(t, p) = o /\ FirstChild(t, p)' = f
                /\ \A x \in Tree : x # p => FirstChild(t, x) = el[x].child /\ FirstChild(t, x)' = el[x].child
    BY <1>0, <1>1, <1>6, <1>7 DEF FirstChild, Hanging
<1>16. Linked(t)'
    <2>1. CASE p = 0
        BY <1>9, <2>1 DEF Linked
    <2>2. CASE p # 0
        <3>1. \A x \in Tree : el'[x].brother # 0 => el'[x].brother \in Tree'
            BY <1>6, <1>11, <1>s DEF Linked
        <3>2. FirstChild(t, f)' = 0 /\ el'[f].brother = o /\ f \in Tree' /\ el'[f].parent = p
            BY <1>1, <1>2, <1>4, <1>7, <1>9, <2>2
        <3>3. o # 0 => o \in Tree
            BY <1>1, <1>15, <1>s, <2>2 DEF Linked
        <3>4. ASSUME NEW x \in Tree, x # p, el[x].child # 0
              PROVE  el[x].child \in Tree /\ el'[el[x].child].parent = x
            <4>1. el[x].child \in Tree /\ el[el[x].child].parent = x
                BY <1>15, <1>s, <2>2, <3>4 DEF Linked
            <4> QED
                BY <1>6, <4>1
        <3>5. \A x \in Tree : FirstChild(t, x)' # 0 =>
                FirstChild(t, x)' \in Tree' /\ el'[FirstChild(t, x)'].parent = x
            <4>1. \A x \in Tree : x = p => FirstChild(t, x)' \in Tree' /\ el'[FirstChild(t, x)'].parent = x
                BY <1>15, <2>2, <3>2
            <4>2. \A x \in Tree : x # p /\ FirstChild(t, x)' # 0 =>
                    FirstChild(t, x)' \in Tree' /\ el'[FirstChild(t, x)'].parent = x
                BY <1>11, <1>15, <2>2, <3>4
            <4> QED
                BY <4>1, <4>2
        <3> QED
            BY <1>11, <3>1, <3>2, <3>3, <3>5 DEF Linked
    <2> QED
        BY <2>1, <2>2
<1>17. Anchored(t)'
    <2>1. CASE p = 0
        BY <1>9, <2>1 DEF Anchored
    <2>2. CASE p # 0
        <3>1. /\ p \in Tree /\ p \in Tree' /\ f \in Tree' /\ el'[f].parent = p /\ el'[f].brother = o
              /\ p < f /\ FirstChild(t, p)' = f
            BY <1>1, <1>2, <1>4, <1>6, <1>9, <1>15, <2>2
        <3>2. ASSUME NEW x \in Tree, x # hdr.first
              PROVE  \E q \in Tree' :
                       /\ el'[x].parent = q /\ q < x
                       /\ \/ FirstChild(t, q)' = x
                          \/ \E z \in Tree' : x < z /\ el'[z].parent = q /\ el'[z].brother = x
            <4>1. PICK q \in Tree :
                    /\ el[x].parent = q /\ q < x
                    /\ \/ FirstChild(t, q) = x
                       \/ \E z \in Tree : x < z /\ el[z].parent = q /\ el[z].brother = x
                BY <1>s, <3>2 DEF Anchored
            <4>2. q \in Tree' /\ el'[x].parent = q /\ x < f
                BY <1>6, <1>11, <4>1
            <4>3. CASE FirstChild(t, q) = x
                <5>1. CASE q = p
                    <6>1. x = o
                        BY <1>15, <2>2, <4>3, <5>1
                    <6>2. el'[f].parent = q /\ el'[f].brother = x /\ f \in Tree'
                        BY <3>1, <5>1, <6>1
                    <6> QED
                        BY <4>1, <4>2, <6>2
                <5>2. CASE q # p
                    <6>1. FirstChild(t, q)' = x
                        BY <1>15, <2>2, <4>3, <5>2
                    <6> QED
                        BY <4>1, <4>2, <6>1
                <5> QED
                    BY <5>1, <5>2
            <4>4. CASE \E z \in Tree : x < z /\ el[z].parent = q /\ el[z].brother = x
                <5>1. PICK z \in Tree : x < z /\ el[z].parent = q /\ el[z].brother = x
                    BY <4>4
                <5>2. z \in Tree' /\ el'[z].parent = q /\ el'[z].brother = x
                    BY <1>6, <1>11, <5>1
                <5> QED
                    BY <4>1, <4>2, <5>1, <5>2
            <4> QED
                BY <4>1, <4>3, <4>4
        <3> QED
            BY <1>3, <1>11, <3>1, <3>2 DEF Anchored
    <2> QED
        BY <2>1, <2>2
<1>18. Sums(t)'
    <2> PICK n, k : n = Cardinality(Tree) /\ k = hdr.count
        OBVIOUS
    <2>1. n \in Nat /\ IsFiniteSet(Tree) /\ k \in Nat /\ k = Cardinality(acked)
        BY <1>1, <1>s, <1>t, TreeFinite DEF Sums, Heads
    <2>2. Cardinality(Tree') = IF p = 0 THEN n ELSE n + 1
        BY <1>6, <1>9, <1>10, <2>1, FS_AddElement
    <2>3. /\ loc[t].seen = cnt
          /\ cnt - k - (IF pc[t] = "answer" THEN 1 ELSE 0) \in 0 .. crashes
          /\ n - k - (IF pc[t] \in Past /\ p # 0 THEN 1 ELSE 0) \in 0 .. crashes
        BY <1>0, <1>s DEF Sums, Places
    <2>4. n - k \in 0 .. crashes
        BY <1>0, <2>1, <2>3 DEF Past
    <2>5. Cardinality(Tree') - k - (IF p # 0 THEN 1 ELSE 0) \in 0 .. crashes
        BY <2>1, <2>2, <2>4
    <2>6. "head" \in Past
        BY DEF Past
    <2>7. hdr'.count = k /\ Cardinality(acked') = k /\ cnt' = cnt /\ loc'[t].seen = cnt /\ loc'[t].p = p
          /\ crashes' = crashes
        BY <1>3, <2>1, <2>3
    <2>8. cnt - k - (IF "head" = "answer" THEN 1 ELSE 0) \in 0 .. crashes
        BY <1>0, <2>3
    <2> QED
        BY <1>3, <2>5, <2>6, <2>7, <2>8 DEF Sums
<1>19. InCall(t)'
    <2>1. o # 0 => o \in Tree'
        <3>1. o # 0 => p # 0 /\ FirstChild(t, p) = o /\ p \in Tree
            BY <1>1, <1>15
        <3> QED
            BY <1>11, <1>s, <3>1 DEF Linked
    <2>2. \A a \in acked : a[1] # f
        BY <1>6, <1>s DEF Answered
    <2>3. p = 0 => el'[f] = NewBox(0, 0)
        BY <1>1, <1>4
    <2>4. p # 0 => p \in Tree'
        BY <1>1, <1>11
    <2>5. el'[f].used /\ el'[f].parent = p
        BY <1>2, <1>4
    <2>6. loc'[t].p = p /\ loc'[t].old = o /\ loc'[t].id = f /\ loc'[t].at = f
        BY <1>1, <1>3
    <2> QED
        BY <1>1, <1>3, <1>5, <2>1, <2>2, <2>3, <2>4, <2>5, <2>6 DEF InCall, Hanging, Before, Past
<1> QED
    BY <1>8, <1>12, <1>13, <1>14, <1>16, <1>17, <1>18, <1>19 DEF Sound

\* A call ends with its header in the buffer, or with nothing.
LEMMA LastOnly ==
  ASSUME NEW t, Threads = {t}, Sound(t), pc[t] = "idle" => LastAnswerAtMost, [Next]_vars, pc'[t] = "idle"
  PROVE  LastAnswerAtMost'
<1>s. Typed(t) /\ InCall(t)
    BY DEF Sound
<1>t. pc \in [Threads -> Places] /\ mem \in Heads /\ hdr \in Heads
    BY <1>s DEF Typed
<1>1. CASE Check(t)
    <2>1. disk' = View /\ UNCHANGED <<hdr, el, cnt, acked>>
        BY <1>1 DEF Check, Flush, file
    <2> QED
        BY <2>1 DEF View, LastAnswerAtMost
<1>2. CASE Answer(t)
    <2>1. /\ disk' = View /\ UNCHANGED <<el, cnt>> /\ acked' = acked \cup {<<loc[t].id, loc[t].p>>}
          /\ hdr' = mem' /\ mem' = [mem EXCEPT !.count = @ + 1] /\ pc[t] = "answer"
        BY <1>2 DEF Answer, Flush, Goto
    <2> PICK i, p, a : i = loc[t].id /\ p = loc[t].p /\ a = <<i, p>>
        OBVIOUS
    <2>2. /\ \A b \in acked : b[1] # i
          /\ hdr.end = mem.end /\ hdr.free = mem.free /\ hdr.count = mem.count
          /\ mem.first = (IF p = 0 THEN i ELSE hdr.first)
          /\ p = 0 => hdr.first = 0
        BY <1>s, <2>1 DEF InCall, Past
    <2>3. acked = acked' \ {a} /\ a \in acked' /\ a[2] = p
        BY <2>1, <2>2
    <2>4. hdr = [hdr' EXCEPT !.count = hdr'.count - 1, !.first = IF p = 0 THEN 0 ELSE hdr'.first]
        <3> PICK h : h = [hdr' EXCEPT !.count = hdr'.count - 1, !.first = IF p = 0 THEN 0 ELSE hdr'.first]
            OBVIOUS
        <3>1. hdr' = [mem EXCEPT !.count = mem.count + 1]
            BY <2>1
        <3>2. hdr'.count = mem.count + 1 /\ hdr'.first = mem.first
            BY <1>t, <3>1 DEF Heads
        <3>3. h.count = mem.count + 1 - 1 /\ h.first = (IF p = 0 THEN 0 ELSE mem.first)
            BY <1>t, <3>1, <3>2 DEF Heads
        <3>4. h.end = mem.end /\ h.free = mem.free /\ h = [end |-> h.end, free |-> h.free, first |-> h.first, count |-> h.count]
            BY <1>t, <3>1 DEF Heads
        <3>5. hdr = [end |-> hdr.end, free |-> hdr.free, first |-> hdr.first, count |-> hdr.count]
            BY <1>t DEF Heads
        <3>6. h.count = hdr.count /\ h.first = hdr.first
            BY <1>t, <2>2, <3>3 DEF Heads
        <3> QED
            BY <2>2, <3>4, <3>5, <3>6
    <2>5. disk'.el = el' /\ disk'.cnt = cnt' /\ disk'.acked = acked /\ disk'.hdr = hdr
        BY <2>1 DEF View
    <2>6. /\ disk'.acked = acked' \ {a}
          /\ disk'.hdr = [hdr' EXCEPT !.count = hdr'.count - 1, !.first = IF a[2] = 0 THEN 0 ELSE hdr'.first]
        BY <2>3, <2>4, <2>5
    <2> QED
        BY <2>3, <2>5, <2>6 DEF LastAnswerAtMost
<1>3. CASE Crash
    <2>1. /\ hdr' = disk.hdr /\ el' = disk.el /\ cnt' = disk.cnt /\ acked' = disk.acked
          /\ disk' = disk
        BY <1>3 DEF Crash
    <2> QED
        BY <2>1 DEF LastAnswerAtMost
<1>4. CASE UNCHANGED vars
    <2>1. UNCHANGED <<hdr, el, cnt, acked, disk, pc>>
        BY <1>4 DEF vars, file
    <2> QED
        BY <2>1 DEF LastAnswerAtMost
<1>5. CASE /\ ~Check(t) /\ ~Answer(t)
           /\ (Step(t) \/ \E p \in {0} \cup Ids : Call(t, p))
    <2>1. pc'[t] \in Places \ {"idle"}
        BY <1>5, <1>t DEF Step, Call, ReadSchema, ChooseId, ReadParent, LinkParent, Take, Put, Head,
           ReadBrother, LinkBrother, WriteSchema, Goto, AfterSave, Places
    <2> QED
        BY <2>1
<1> QED
    BY <1>1, <1>2, <1>3, <1>4, <1>5 DEF Next

LEMMA NextSure ==
  ASSUME NEW t, Threads = {t}, Sure, [Next]_vars
  PROVE  Sure'
<1> SUFFICES ASSUME ~torn'
             PROVE  /\ Sound(t)' /\ (pc'[t] = "idle" => LastAnswerAtMost')
                    /\ ~disk'.exposed => Settled(disk)'
    BY DEF Sure
<1>0. ~torn
    <2>1. CASE Crash
        BY <2>1 DEF Crash
    <2>2. CASE ~Crash
        BY <2>2 DEF Next, Step, vars, Call, Check, ReadSchema, ChooseId, ReadParent, LinkParent, Take, Put,
                    Head, ReadBrother, LinkBrother, WriteSchema, Answer
    <2> QED
        BY <2>1, <2>2
<1>1. Sound(t) /\ (~disk.exposed => Settled(disk)) /\ crashes \in Nat
    BY <1>0 DEF Sure, Sound, Typed
<1>6. ASSUME ~disk'.exposed PROVE Settled(disk)'
    <2>1. crashes' \in {crashes, crashes + 1}
        BY DEF Next, Step, vars, Call, Check, ReadSchema, ChooseId, ReadParent, LinkParent, Take, Put,
               Head, ReadBrother, LinkBrother, WriteSchema, Answer, Crash
    <2>2. disk' = disk \/ disk' = View
        BY DiskStep
    <2>3. Settled(disk')
        <3>1. CASE disk' = disk
            BY <1>1, <1>6, <3>1
        <3>2. CASE disk' = View
            <4>1. ~Exposed(t)
                BY <1>6, <3>2 DEF View
            <4> QED
                BY <1>1, <3>2, <4>1, SettledFile
        <3> QED
            BY <2>2, <3>1, <3>2
    <2>4. SettledSums(disk)'
        <3> PICK n, k, c : n = Cardinality(TreeOf(disk')) /\ k = disk'.hdr.count /\ c = disk'.cnt
            OBVIOUS
        <3>1. k = Cardinality(disk'.acked) /\ c - k \in 0 .. crashes + 1 /\ n - k \in 0 .. crashes + 1
            BY <2>3 DEF Settled, SettledSums
        <3>2. c - k \in 0 .. crashes' + 1 /\ n - k \in 0 .. crashes' + 1
            BY <1>1, <2>1, <3>1
        <3> QED
            BY <3>1, <3>2 DEF SettledSums, TreeOf
    <2>5. SettledTyped(disk)' /\ SettledTree(disk)' /\ SettledLinks(disk)'
        BY <2>3 DEF Settled, SettledTyped, SettledTree, SettledLinks, TreeOf
    <2> QED
        BY <2>4, <2>5 DEF Settled
<1>7. pc'[t] = "idle" => LastAnswerAtMost'
    <2>1. pc[t] = "idle" => LastAnswerAtMost
        BY <1>0 DEF Sure
    <2> QED
        BY <1>1, <2>1, LastOnly
<1> SUFFICES Sound(t)'
    BY <1>6, <1>7
<1>2. CASE \E p \in {0} \cup Ids : Call(t, p)
    BY <1>1, <1>2, CallSound
<1>3. CASE Step(t)
    BY <1>1, <1>3, CheckSound, ReadSchemaSound, ChooseIdSound, ReadParentSound, LinkParentSound,
       TakeSound, PutSound, HeadSound, ReadBrotherSound, LinkBrotherSound, WriteSchemaSound, AnswerSound
       DEF Step
<1>4. CASE Crash
    <2>1. ~disk.exposed
        BY <1>4 DEF Crash
    <2> QED
        BY <1>1, <1>4, <2>1, CrashSound
<1>5. CASE UNCHANGED vars
    <2>1. UNCHANGED <<hdr, mem, el, cnt, pc, loc, acked, crashes>>
        BY <1>5 DEF vars, file
    <2>2. Typed(t)' /\ Rooted' /\ Low' /\ Answered'
        BY <1>1, <2>1 DEF Sound, Typed, Rooted, Low, Answered, Tree
    <2>3. Linked(t)' /\ Anchored(t)'
        BY <1>1, <2>1 DEF Sound, Linked, Anchored, Tree, FirstChild, Hanging
    <2>4. InCall(t)' /\ Sums(t)'
        BY <1>1, <2>1 DEF Sound, InCall, Sums, Tree, Hanging
    <2> QED
        BY <2>2, <2>3, <2>4 DEF Sound
<1> QED
    BY <1>2, <1>3, <1>4, <1>5 DEF Next

\* What can be reached from the root, and from the children that only the
\* thread knows, is the tree.
LEMMA Reached ==
  ASSUME NEW t, Sound(t), NEW o \in 0 .. MaxChunks, Hanging(t) => o = loc[t].old
  PROVE  hdr.first # 0 => Tree \subseteq From(hdr.first) \cup From(o)
<1> SUFFICES ASSUME hdr.first # 0 PROVE Tree \subseteq From(hdr.first) \cup From(o)
    OBVIOUS
<1>1. /\ Rooted /\ Anchored(t) /\ MaxChunks \in Nat /\ el \in [Chunks -> Box]
      /\ hdr.first \in 0 .. MaxChunks
    BY SizesAssumption DEF Sound, Typed, Heads
<1> PICK F, G : F = From(hdr.first) /\ G = From(o)
    OBVIOUS
<1>2. F \subseteq Chunks /\ Closed(F) /\ hdr.first \in F
    BY <1>1, FromClosed
<1>3. Closed(G) /\ (o # 0 => o \in G)
    BY <1>1, FromClosed
<1> PICK S : S = F \cup G
    OBVIOUS
<1>4. \A x \in Tree : x \in S => {FirstChild(t, x), el[x].brother} \subseteq S \cup {0}
    <2> SUFFICES ASSUME NEW x \in S
                 PROVE  FirstChild(t, x) \in S \cup {0} /\ el[x].brother \in S \cup {0}
        OBVIOUS
    <2>1. el[x].child \in S \cup {0} /\ el[x].brother \in S \cup {0}
        BY <1>2, <1>3 DEF Closed
    <2>2. FirstChild(t, x) \in {el[x].child, o}
        BY DEF FirstChild
    <2> QED
        BY <1>3, <2>1, <2>2
<1>5. hdr.first \in S
    BY <1>2
<1> QED
    BY <1>1, <1>4, <1>5, Covers

\* With one thread inserting at a time, no crash makes an answered element that
\* the file accounts for unreachable, but one between the link of a parent and
\* the header, which can lose the parent's older children; and those the thread
\* still reaches.
THEOREM AckedStayReachable ==
  ASSUME Alone
  PROVE  Spec => []AckedReachable
<1> PICK t : Threads = {t}
    BY DEF Alone
<1>1. Sure => AckedReachable
    <2> SUFFICES ASSUME Sure, ~torn, NEW a \in acked
                 PROVE  /\ el[a[1]].used /\ el[a[1]].parent = a[2]
                        /\ \/ a[1] \in From(hdr.first)
                           \/ Exposed(t) /\ a[1] \in From(loc[t].old)
        BY DEF AckedReachable
    <2>1. Sound(t)
        BY DEF Sure
    <2> PICK i : i = a[1]
        OBVIOUS
    <2>2. i \in Tree /\ el[i].parent = a[2] /\ el[i].used
        BY <2>1 DEF Sound, Answered, Tree
    <2>3. hdr.first # 0
        BY <2>1 DEF Sound, Rooted
    <2>4. MaxChunks \in Nat /\ loc[t].old \in 0 .. MaxChunks /\ 0 \in 0 .. MaxChunks
        BY <2>1, SizesAssumption DEF Sound, Typed, Locs
    <2>5. CASE Exposed(t)
        BY <2>1, <2>2, <2>3, <2>4, <2>5, Reached
    <2>6. CASE ~Exposed(t)
        <3>1. ~Hanging(t)
            BY <2>6 DEF Exposed, Hanging
        <3>2. i \in From(hdr.first) \cup From(0)
            BY <2>1, <2>2, <2>3, <2>4, <3>1, Reached
        <3>3. From(0) \subseteq {}
            <4>1. el \in [Chunks -> Box] /\ {} \in SUBSET Chunks /\ Closed({})
                BY <2>1 DEF Sound, Typed, Closed
            <4> QED
                BY <2>4, <4>1, FromClosed
        <3> QED
            BY <2>2, <3>2, <3>3
    <2> QED
        BY <2>2, <2>5, <2>6
<1>2. Init => Sure
    BY InitSure
<1>3. Sure /\ [Next]_vars => Sure'
    BY NextSure
<1> QED
    BY <1>1, <1>2, <1>3, PTL DEF Spec

\* Between the calls of one thread, the count of the header is the number of
\* the answers, neither the tree nor the schema's count is ahead of it by more
\* than the crashes, and a kill takes back the last answer at most.
THEOREM CountersLag ==
  ASSUME Alone
  PROVE  Spec => []CountLag
<1> PICK t : Threads = {t}
    BY DEF Alone
<1>1. Sure => CountLag
    <2> SUFFICES ASSUME Sure, ~torn, pc[t] = "idle"
                 PROVE  /\ hdr = mem
                        /\ hdr.count = Cardinality(acked)
                        /\ Cardinality(From(hdr.first)) - hdr.count \in 0 .. crashes
                        /\ cnt - hdr.count \in 0 .. crashes
                        /\ LastAnswerAtMost
        BY DEF CountLag
    <2>1. Sound(t)
        BY DEF Sure
    <2>2. MaxChunks \in Nat /\ 0 \in 0 .. MaxChunks /\ el \in [Chunks -> Box] /\ hdr.first \in 0 .. MaxChunks
        BY <2>1, SizesAssumption DEF Sound, Typed, Heads
    <2>3. ~Hanging(t)
        BY DEF Hanging
    <2>4. Tree \in SUBSET Chunks /\ Closed(Tree) /\ hdr.first \in Tree \cup {0}
        <3>1. \A x \in Tree : FirstChild(t, x) = el[x].child
            BY <2>3 DEF FirstChild
        <3>2. \A x \in Tree : el[x].child \in Tree \cup {0} /\ el[x].brother \in Tree \cup {0}
            BY <2>1, <3>1 DEF Sound, Linked
        <3> QED
            BY <2>1, <3>2, TreeFinite DEF Sound, Rooted, Closed
    <2>5. From(hdr.first) = Tree
        <3>1. From(hdr.first) \subseteq Tree
            BY <2>2, <2>4, FromClosed
        <3>2. CASE hdr.first = 0
            BY <2>1, <3>1, <3>2 DEF Sound, Rooted
        <3>3. CASE hdr.first # 0
            <4>1. From(0) \subseteq {}
                <5>1. {} \in SUBSET Chunks /\ Closed({})
                    BY DEF Closed
                <5> QED
                    BY <2>2, <5>1, FromClosed
            <4>2. Tree \subseteq From(hdr.first) \cup From(0)
                BY <2>1, <2>2, <2>3, <3>3, Reached
            <4> QED
                BY <3>1, <4>1, <4>2
        <3> QED
            BY <3>2, <3>3
    <2>6. hdr = mem /\ "idle" \notin Past
        BY <2>1 DEF Sound, InCall, Before, Past
    <2>7. hdr.count \in Nat /\ cnt \in Nat /\ crashes \in Nat /\ Cardinality(Tree) \in Nat
        BY <2>1, TreeFinite DEF Sound, Typed, Heads
    <2>8. hdr.count = Cardinality(acked)
        BY <2>1 DEF Sound, Sums
    <2>9. cnt - hdr.count \in 0 .. crashes /\ Cardinality(Tree) - hdr.count \in 0 .. crashes
        BY <2>1, <2>6, <2>7 DEF Sound, Sums
    <2>10. LastAnswerAtMost
        BY DEF Sure
    <2> QED
        BY <2>5, <2>6, <2>8, <2>9, <2>10
<1>2. Init => Sure
    BY InitSure
<1>3. Sure /\ [Next]_vars => Sure'
    BY NextSure
<1> QED
    BY <1>1, <1>2, <1>3, PTL DEF Spec
=============================================================================
