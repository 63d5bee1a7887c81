-------------------------- MODULE ElementTreeProofs --------------------------
(***************************************************************************)
(* The data tree, proved for all schemas, pages and files: the types       *)
(* always; the chunks of elements, the counters of schemas, the scans, the *)
(* links, the paths, what DeleteElements removes and the refinement of     *)
(* ElementForest up to the call that damages the file.                     *)
(*                                                                         *)
(* Kept says where the chunks are, Scanned in which order the iterator     *)
(* meets the elements, Loop where it stands in a running DeleteElements.   *)
(***************************************************************************)
EXTENDS ElementTree, WalkProofs, FiniteSetTheorems, SequenceTheorems, TLAPS

-----------------------------------------------------------------------------
(* Chunks.                                                                 *)

\* The chunks 1 .. end lie on the free list fr or in the element at the head of
\* its chain in ch, each of them once; the last of them is the last free one.
FreeOnce(fr, end) ==
  /\ end \in 0 .. MaxChunks
  /\ fr \in Seq(1 .. end) /\ Len(fr) >= 1 /\ fr[Len(fr)] = end
  /\ \A j, k \in 1 .. Len(fr) : fr[j] = fr[k] => j = k

Chained(ch, end) ==
  /\ ch \in [Chunks -> Seq(1 .. end)]
  /\ \A e \in Chunks : ch[e] # <<>> => ch[e][1] = e
  /\ \A e, f \in Chunks : \A j \in 1 .. Len(ch[e]), k \in 1 .. Len(ch[f]) :
       ch[e][j] = ch[f][k] => e = f /\ j = k

Placed(fr, ch, end) ==
  /\ FreeOnce(fr, end) /\ Chained(ch, end)
  /\ \A e \in Chunks : \A j \in 1 .. Len(ch[e]), k \in 1 .. Len(fr) : ch[e][j] # fr[k]
  /\ \A c \in 1 .. end :
       \/ \E k \in 1 .. Len(fr) : fr[k] = c
       \/ \E e \in Chunks : \E j \in 1 .. Len(ch[e]) : ch[e][j] = c

\* A sequence over a set is one over every set around it.
LEMMA Wider ==
  ASSUME NEW S, NEW T, S \subseteq T, NEW s \in Seq(S)
  PROVE  s \in Seq(T)
<1>1. Len(s) \in Nat /\ s \in [1 .. Len(s) -> S]
  BY LenProperties
<1>2. s \in [1 .. Len(s) -> T]
  BY <1>1
<1> QED
  BY <1>1, <1>2

\* A sequence is cut behind its n-th member.
LEMMA Cut ==
  ASSUME NEW S, NEW s \in Seq(S), NEW n \in 0 .. Len(s)
  PROVE  /\ SubSeq(s, 1, n) \in Seq(S) /\ Len(SubSeq(s, 1, n)) = n
         /\ \A k \in 1 .. n : SubSeq(s, 1, n)[k] = s[k]
         /\ SubSeq(s, n + 1, Len(s)) \in Seq(S)
         /\ Len(SubSeq(s, n + 1, Len(s))) = Len(s) - n
         /\ \A k \in 1 .. Len(s) - n : SubSeq(s, n + 1, Len(s))[k] = s[n + k]
<1>1. Len(s) \in Nat /\ n \in Int /\ \A k \in 1 .. Len(s) : s[k] \in S
  BY LenProperties, ElementOfSeq
<1>2. /\ SubSeq(s, 1, n) \in Seq(S) /\ Len(SubSeq(s, 1, n)) = n
      /\ \A k \in 1 .. n : SubSeq(s, 1, n)[k] = s[k]
  <2>1. \A k \in 1 .. n : s[k] \in S
    BY <1>1
  <2>2. /\ SubSeq(s, 1, n) \in Seq(S)
        /\ Len(SubSeq(s, 1, n)) = IF 1 <= n THEN n - 1 + 1 ELSE 0
        /\ \A k \in 1 .. n - 1 + 1 : SubSeq(s, 1, n)[k] = s[1 + k - 1]
    BY <1>1, <2>1, SubSeqProperties
  <2> QED
    BY <1>1, <2>2
<1>3. /\ SubSeq(s, n + 1, Len(s)) \in Seq(S)
      /\ Len(SubSeq(s, n + 1, Len(s))) = Len(s) - n
      /\ \A k \in 1 .. Len(s) - n : SubSeq(s, n + 1, Len(s))[k] = s[n + k]
  <2>1. \A k \in n + 1 .. Len(s) : s[k] \in S
    BY <1>1
  <2>2. n + 1 \in Int /\ Len(s) \in Int
    BY <1>1
  <2>3. /\ SubSeq(s, n + 1, Len(s)) \in Seq(S)
        /\ Len(SubSeq(s, n + 1, Len(s))) = IF n + 1 <= Len(s) THEN Len(s) - (n + 1) + 1 ELSE 0
        /\ \A k \in 1 .. Len(s) - (n + 1) + 1 : SubSeq(s, n + 1, Len(s))[k] = s[n + 1 + k - 1]
    BY <2>1, <2>2, SubSeqProperties
  <2> QED
    BY <1>1, <2>3
<1> QED
  BY <1>2, <1>3

\* The chunks of an element are put in front of the free list.
LEMMA Given ==
  ASSUME NEW fr, NEW ch, NEW end, Placed(fr, ch, end), NEW e \in Chunks
  PROVE  Placed(ch[e] \o fr, [ch EXCEPT ![e] = <<>>], end)
<1> DEFINE own == ch[e]
           fr2 == own \o fr
           ch2 == [ch EXCEPT ![e] = <<>>]
<1>1. /\ end \in 0 .. MaxChunks
      /\ fr \in Seq(1 .. end) /\ Len(fr) >= 1 /\ fr[Len(fr)] = end
      /\ \A j, k \in 1 .. Len(fr) : fr[j] = fr[k] => j = k
  BY DEF Placed, FreeOnce
<1>2. /\ ch \in [Chunks -> Seq(1 .. end)]
      /\ \A f \in Chunks : ch[f] # <<>> => ch[f][1] = f
      /\ \A f, g \in Chunks : \A j \in 1 .. Len(ch[f]), k \in 1 .. Len(ch[g]) :
           ch[f][j] = ch[g][k] => f = g /\ j = k
  BY DEF Placed, Chained
<1>3. /\ \A f \in Chunks : \A j \in 1 .. Len(ch[f]), k \in 1 .. Len(fr) : ch[f][j] # fr[k]
      /\ \A c \in 1 .. end :
           \/ \E k \in 1 .. Len(fr) : fr[k] = c
           \/ \E f \in Chunks : \E j \in 1 .. Len(ch[f]) : ch[f][j] = c
  BY DEF Placed
<1>4. own \in Seq(1 .. end) /\ Len(own) \in Nat /\ Len(fr) \in Nat
  BY <1>1, <1>2
<1>5. /\ fr2 \in Seq(1 .. end) /\ Len(fr2) = Len(own) + Len(fr)
      /\ \A k \in 1 .. Len(own) : fr2[k] = own[k]
      /\ \A k \in 1 .. Len(fr) : fr2[Len(own) + k] = fr[k]
  BY <1>1, <1>4
<1>6. \A k \in 1 .. Len(fr2) :
        \/ k \in 1 .. Len(own) /\ fr2[k] = own[k]
        \/ k - Len(own) \in 1 .. Len(fr) /\ fr2[k] = fr[k - Len(own)]
  BY <1>4, <1>5
<1>7. /\ ch2 \in [Chunks -> Seq(1 .. end)] /\ ch2[e] = <<>>
      /\ \A f \in Chunks : f # e => ch2[f] = ch[f]
  BY <1>2
<1>8. \A k \in 1 .. Len(own) : \A j \in 1 .. Len(fr) : own[k] # fr[j]
  BY <1>3
<1>9. \A j, k \in 1 .. Len(own) : own[j] = own[k] => j = k
  BY <1>2
<1> HIDE DEF own, fr2, ch2
<1>10. FreeOnce(fr2, end)
  <2>1. fr2[Len(fr2)] = end
    BY <1>1, <1>4, <1>5
  <2>2. ASSUME NEW j \in 1 .. Len(fr2), NEW k \in 1 .. Len(fr2), fr2[j] = fr2[k] PROVE j = k
    <3>1. CASE j \in 1 .. Len(own) /\ fr2[j] = own[j]
      <4>1. CASE k \in 1 .. Len(own) /\ fr2[k] = own[k]
        BY <1>9, <2>2, <3>1, <4>1
      <4>2. CASE k - Len(own) \in 1 .. Len(fr) /\ fr2[k] = fr[k - Len(own)]
        BY <1>8, <2>2, <3>1, <4>2
      <4> QED
        BY <1>6, <4>1, <4>2
    <3>2. CASE j - Len(own) \in 1 .. Len(fr) /\ fr2[j] = fr[j - Len(own)]
      <4>1. CASE k \in 1 .. Len(own) /\ fr2[k] = own[k]
        BY <1>8, <2>2, <3>2, <4>1
      <4>2. CASE k - Len(own) \in 1 .. Len(fr) /\ fr2[k] = fr[k - Len(own)]
        <5>1. j - Len(own) = k - Len(own)
          BY <1>1, <2>2, <3>2, <4>2
        <5>2. j \in Int /\ k \in Int
          OBVIOUS
        <5> QED
          BY <1>4, <5>1, <5>2
      <4> QED
        BY <1>6, <4>1, <4>2
    <3> QED
      BY <1>6, <3>1, <3>2
  <2> QED
    BY <1>1, <1>4, <1>5, <2>1, <2>2 DEF FreeOnce
<1>11. Chained(ch2, end)
  <2>1. ASSUME NEW f \in Chunks, ch2[f] # <<>> PROVE ch2[f][1] = f
    BY <1>2, <1>7, <2>1
  <2>2. ASSUME NEW f \in Chunks, NEW g \in Chunks, NEW j \in 1 .. Len(ch2[f]),
               NEW k \in 1 .. Len(ch2[g]), ch2[f][j] = ch2[g][k]
        PROVE  f = g /\ j = k
    <3>1. f # e /\ g # e
      BY <1>7
    <3>2. ch2[f] = ch[f] /\ ch2[g] = ch[g]
      BY <1>7, <3>1
    <3> QED
      BY <1>2, <2>2, <3>2
  <2> QED
    BY <1>7, <2>1, <2>2 DEF Chained
<1>12. ASSUME NEW f \in Chunks, NEW j \in 1 .. Len(ch2[f]), NEW k \in 1 .. Len(fr2)
       PROVE  ch2[f][j] # fr2[k]
  <2>1. f # e /\ ch2[f] = ch[f]
    BY <1>7
  <2> QED
    BY <1>2, <1>3, <1>6, <2>1 DEF own
<1>13. ASSUME NEW c \in 1 .. end
       PROVE  \/ \E k \in 1 .. Len(fr2) : fr2[k] = c
              \/ \E f \in Chunks : \E j \in 1 .. Len(ch2[f]) : ch2[f][j] = c
  <2>1. CASE \E k \in 1 .. Len(fr) : fr[k] = c
    <3>1. PICK k \in 1 .. Len(fr) : fr[k] = c
      BY <2>1
    <3>2. Len(own) + k \in 1 .. Len(fr2)
      BY <1>4, <1>5
    <3> QED
      BY <1>5, <3>1, <3>2
  <2>2. CASE \E f \in Chunks : \E j \in 1 .. Len(ch[f]) : ch[f][j] = c
    <3>1. PICK f \in Chunks : \E j \in 1 .. Len(ch[f]) : ch[f][j] = c
      BY <2>2
    <3>2. PICK j \in 1 .. Len(ch[f]) : ch[f][j] = c
      BY <3>1
    <3>3. CASE f = e
      <4>1. j \in 1 .. Len(fr2) /\ fr2[j] = c
        BY <1>4, <1>5, <3>2, <3>3 DEF own
      <4> QED
        BY <4>1
    <3>4. CASE f # e
      BY <1>7, <3>2, <3>4
    <3> QED
      BY <3>3, <3>4
  <2> QED
    BY <1>3, <2>1, <2>2
<1> QED
  BY <1>10, <1>11, <1>12, <1>13 DEF Placed, fr2, ch2, own

\* An element takes n chunks from the front of the free list, behind which m new
\* ones have been appended, so that one is left.
LEMMA Taken ==
  ASSUME NEW fr, NEW ch, NEW end, Placed(fr, ch, end),
         NEW n \in Nat, n >= 1, NEW m \in Nat, end + m <= MaxChunks, n < Len(fr) + m,
         NEW pool, pool = fr \o [k \in 1 .. m |-> end + k]
  PROVE  /\ fr[1] \in Chunks /\ ch[fr[1]] = <<>>
         /\ SubSeq(pool, 1, n) # <<>>
         /\ Placed(SubSeq(pool, n + 1, Len(pool)), [ch EXCEPT ![fr[1]] = SubSeq(pool, 1, n)], end + m)
<1> DEFINE id == fr[1]
           own == SubSeq(pool, 1, n)
           fr2 == SubSeq(pool, n + 1, Len(pool))
           ch2 == [ch EXCEPT ![id] = own]
           page == [k \in 1 .. m |-> end + k]
<1>1. /\ end \in 0 .. MaxChunks
      /\ fr \in Seq(1 .. end) /\ Len(fr) >= 1 /\ Len(fr) \in Nat /\ fr[Len(fr)] = end
      /\ \A j, k \in 1 .. Len(fr) : fr[j] = fr[k] => j = k
  BY DEF Placed, FreeOnce
<1>2. /\ ch \in [Chunks -> Seq(1 .. end)]
      /\ \A f \in Chunks : ch[f] # <<>> => ch[f][1] = f
      /\ \A f, g \in Chunks : \A j \in 1 .. Len(ch[f]), k \in 1 .. Len(ch[g]) :
           ch[f][j] = ch[g][k] => f = g /\ j = k
  BY DEF Placed, Chained
<1>3. /\ \A f \in Chunks : \A j \in 1 .. Len(ch[f]), k \in 1 .. Len(fr) : ch[f][j] # fr[k]
      /\ \A c \in 1 .. end :
           \/ \E k \in 1 .. Len(fr) : fr[k] = c
           \/ \E f \in Chunks : \E j \in 1 .. Len(ch[f]) : ch[f][j] = c
  BY DEF Placed
<1>4. MaxChunks \in Nat
  BY SizesAssumption
<1>5. page \in Seq(1 .. end + m) /\ Len(page) = m /\ \A k \in 1 .. m : page[k] = end + k
  <2>1. page \in [1 .. m -> 1 .. end + m]
    BY <1>1
  <2> QED
    BY <2>1
<1>6. fr \in Seq(1 .. end + m)
  <2>1. fr \in [1 .. Len(fr) -> 1 .. end] /\ 1 .. end \subseteq 1 .. end + m
    BY <1>1
  <2>2. fr \in [1 .. Len(fr) -> 1 .. end + m]
    BY <2>1
  <2> QED
    BY <1>1, <2>2
<1>7. /\ pool \in Seq(1 .. end + m) /\ Len(pool) = Len(fr) + m
      /\ \A k \in 1 .. Len(fr) : pool[k] = fr[k]
      /\ \A k \in Len(fr) + 1 .. Len(fr) + m : pool[k] = end + (k - Len(fr))
  <2> HIDE DEF page
  <2>1. pool = fr \o page
    BY DEF page
  <2>2. /\ pool \in Seq(1 .. end + m) /\ Len(pool) = Len(fr) + m
        /\ \A k \in 1 .. Len(fr) + m : pool[k] = IF k <= Len(fr) THEN fr[k] ELSE page[k - Len(fr)]
    BY <1>1, <1>5, <1>6, <2>1
  <2>3. ASSUME NEW k \in Len(fr) + 1 .. Len(fr) + m PROVE pool[k] = end + (k - Len(fr))
    <3>1. k - Len(fr) \in 1 .. m /\ k \in 1 .. Len(fr) + m /\ ~(k <= Len(fr))
      BY <1>1
    <3> QED
      BY <1>5, <2>2, <3>1
  <2>4. ASSUME NEW k \in 1 .. Len(fr) PROVE pool[k] = fr[k]
    <3>1. k \in 1 .. Len(fr) + m /\ k <= Len(fr)
      BY <1>1
    <3> QED
      BY <2>2, <3>1
  <2> QED
    BY <2>2, <2>3, <2>4
<1>8. \A k \in 1 .. Len(pool) :
        \/ k \in 1 .. Len(fr) /\ pool[k] = fr[k]
        \/ k \in Len(fr) + 1 .. Len(fr) + m /\ pool[k] = end + (k - Len(fr))
  BY <1>1, <1>7
<1>9. \A k \in 1 .. Len(fr) : fr[k] \in 1 .. end
  BY <1>1
<1>10. ASSUME NEW j \in 1 .. Len(pool), NEW k \in 1 .. Len(pool), pool[j] = pool[k] PROVE j = k
  BY <1>1, <1>8, <1>9, <1>10
<1>11. pool[Len(pool)] = end + m
  <2>1. CASE m = 0
    BY <1>1, <1>7, <2>1
  <2>2. CASE m # 0
    <3>1. Len(pool) \in Len(fr) + 1 .. Len(fr) + m
      BY <1>1, <1>7, <2>2
    <3> QED
      BY <1>1, <1>7, <3>1
  <2> QED
    BY <2>1, <2>2
<1>12. /\ own \in Seq(1 .. end + m) /\ Len(own) = n /\ \A k \in 1 .. n : own[k] = pool[k]
       /\ fr2 \in Seq(1 .. end + m) /\ Len(fr2) = Len(fr) + m - n
       /\ \A k \in 1 .. Len(fr2) : fr2[k] = pool[n + k] /\ n + k \in 1 .. Len(pool)
  <2>1. n \in 0 .. Len(pool) /\ Len(pool) \in Nat
    BY <1>1, <1>7
  <2> DEFINE S == 1 .. end + m
  <2>2. pool \in Seq(S)
    BY <1>7
  <2> HIDE DEF S
  <2>3. /\ own \in Seq(S) /\ Len(own) = n /\ \A k \in 1 .. n : own[k] = pool[k]
        /\ fr2 \in Seq(S) /\ Len(fr2) = Len(pool) - n
        /\ \A k \in 1 .. Len(pool) - n : fr2[k] = pool[n + k]
    BY <2>1, <2>2, Cut
  <2> HIDE DEF own, fr2
  <2>4. ASSUME NEW k \in 1 .. Len(fr2) PROVE fr2[k] = pool[n + k] /\ n + k \in 1 .. Len(pool)
    <3>1. k \in 1 .. Len(pool) - n
      BY <2>3
    <3>2. n + k \in 1 .. Len(pool)
      BY <2>1, <3>1
    <3> QED
      BY <2>3, <3>1, <3>2
  <2>5. Len(fr2) = Len(fr) + m - n
    BY <1>1, <1>7, <2>3
  <2>6. own \in Seq(1 .. end + m) /\ fr2 \in Seq(1 .. end + m)
    BY <2>3 DEF S
  <2> QED
    BY <2>3, <2>4, <2>5, <2>6
<1>13. id \in Chunks /\ ch[id] = <<>>
  <2>1. id \in 1 .. end /\ id \in Chunks
    BY <1>1, <1>4, <1>9 DEF Chunks
  <2>2. ASSUME ch[id] # <<>> PROVE FALSE
    <3>1. ch[id][1] = id /\ 1 \in 1 .. Len(ch[id])
      BY <1>2, <2>1, <2>2
    <3> QED
      BY <1>1, <1>3, <2>1, <3>1
  <2> QED
    BY <2>1, <2>2
<1>14. own # <<>> /\ own[1] = id
  <2>1. 1 \in 1 .. n /\ 1 \in 1 .. Len(fr)
    BY <1>1
  <2>2. own[1] = pool[1] /\ pool[1] = fr[1]
    BY <1>7, <1>12, <2>1
  <2> QED
    BY <1>12, <2>1, <2>2
<1>15. \A f \in Chunks : ch[f] \in Seq(1 .. end + m)
  <2> DEFINE S == 1 .. end
             T == 1 .. end + m
  <2>1. S \subseteq T
    BY <1>1
  <2>2. \A f \in Chunks : ch[f] \in Seq(S)
    BY <1>2
  <2> HIDE DEF S, T
  <2>3. \A f \in Chunks : ch[f] \in Seq(T)
    BY <2>1, <2>2, Wider
  <2> QED
    BY <2>3 DEF T
<1>16. ASSUME NEW f \in Chunks, NEW k \in 1 .. Len(ch[f]) PROVE ch[f][k] \in 1 .. end
  <2>1. ch[f] \in Seq(1 .. end)
    BY <1>2
  <2> QED
    BY <2>1, ElementOfSeq
<1>17. ASSUME NEW f \in Chunks, NEW j \in 1 .. Len(ch[f]), NEW k \in 1 .. Len(pool)
       PROVE  ch[f][j] # pool[k]
  <2>1. CASE k \in 1 .. Len(fr) /\ pool[k] = fr[k]
    BY <1>3, <2>1
  <2>2. CASE k \in Len(fr) + 1 .. Len(fr) + m /\ pool[k] = end + (k - Len(fr))
    <3>1. pool[k] > end
      BY <1>1, <2>2
    <3>2. ch[f][j] \in 1 .. end
      BY <1>16
    <3> QED
      BY <1>1, <3>1, <3>2
  <2> QED
    BY <1>8, <2>1, <2>2
<1> HIDE DEF id, own, fr2, page
<1>18. /\ ch2 \in [Chunks -> Seq(1 .. end + m)] /\ ch2[id] = own
       /\ \A f \in Chunks : f # id => ch2[f] = ch[f]
  BY <1>2, <1>12, <1>13, <1>15
<1> HIDE DEF ch2
<1>19. FreeOnce(fr2, end + m)
  <2>1. fr2[Len(fr2)] = end + m /\ Len(fr2) >= 1 /\ Len(fr2) \in Nat
    <3>1. Len(fr2) >= 1 /\ Len(fr2) \in Nat /\ n + Len(fr2) = Len(pool)
      BY <1>1, <1>7, <1>12
    <3>2. Len(fr2) \in 1 .. Len(fr2)
      BY <3>1
    <3> QED
      BY <1>11, <1>12, <3>1, <3>2
  <2>2. ASSUME NEW j \in 1 .. Len(fr2), NEW k \in 1 .. Len(fr2), fr2[j] = fr2[k] PROVE j = k
    <3>1. pool[n + j] = pool[n + k] /\ n + j \in 1 .. Len(pool) /\ n + k \in 1 .. Len(pool)
      BY <1>12, <2>2
    <3>2. n + j = n + k
      BY <1>10, <3>1
    <3> QED
      BY <2>1, <3>2
  <2> QED
    BY <1>1, <1>4, <1>12, <2>1, <2>2 DEF FreeOnce
<1>20. Chained(ch2, end + m)
  <2>1. ASSUME NEW f \in Chunks, ch2[f] # <<>> PROVE ch2[f][1] = f
    BY <1>2, <1>14, <1>18, <2>1
  <2>2. ASSUME NEW f \in Chunks, NEW g \in Chunks, NEW j \in 1 .. Len(ch2[f]),
               NEW k \in 1 .. Len(ch2[g]), ch2[f][j] = ch2[g][k]
        PROVE  f = g /\ j = k
    <3>0. \A x \in 1 .. n : own[x] = pool[x] /\ x \in 1 .. Len(pool)
      BY <1>1, <1>7, <1>12
    <3>1. CASE f = id /\ g = id
      <4>1. j \in 1 .. n /\ k \in 1 .. n /\ own[j] = own[k]
        BY <1>12, <1>18, <2>2, <3>1
      <4>2. pool[j] = pool[k] /\ j \in 1 .. Len(pool) /\ k \in 1 .. Len(pool)
        BY <3>0, <4>1
      <4> QED
        BY <1>10, <3>1, <4>2
    <3>2. CASE f = id /\ g # id
      <4>1. j \in 1 .. n /\ own[j] = ch[g][k] /\ k \in 1 .. Len(ch[g])
        BY <1>12, <1>18, <2>2, <3>2
      <4>2. pool[j] = ch[g][k] /\ j \in 1 .. Len(pool)
        BY <3>0, <4>1
      <4> QED
        BY <1>17, <4>1, <4>2
    <3>3. CASE f # id /\ g = id
      <4>1. k \in 1 .. n /\ own[k] = ch[f][j] /\ j \in 1 .. Len(ch[f])
        BY <1>12, <1>18, <2>2, <3>3
      <4>2. pool[k] = ch[f][j] /\ k \in 1 .. Len(pool)
        BY <3>0, <4>1
      <4> QED
        BY <1>17, <4>1, <4>2
    <3>4. CASE f # id /\ g # id
      BY <1>2, <1>18, <2>2, <3>4
    <3> QED
      BY <3>1, <3>2, <3>3, <3>4
  <2> QED
    BY <1>18, <2>1, <2>2 DEF Chained
<1>21. ASSUME NEW f \in Chunks, NEW j \in 1 .. Len(ch2[f]), NEW k \in 1 .. Len(fr2)
       PROVE  ch2[f][j] # fr2[k]
  <2>1. fr2[k] = pool[n + k] /\ n + k \in 1 .. Len(pool)
    BY <1>12
  <2>2. CASE f = id
    <3>1. j \in 1 .. n /\ ch2[f][j] = pool[j] /\ j \in 1 .. Len(pool)
      BY <1>1, <1>7, <1>12, <1>18, <2>2
    <3>2. j # n + k
      BY <1>1, <1>12, <3>1
    <3> QED
      BY <1>10, <2>1, <3>1, <3>2
  <2>3. CASE f # id
    BY <1>17, <1>18, <2>1, <2>3
  <2> QED
    BY <2>2, <2>3
<1>22. ASSUME NEW c \in 1 .. end + m
       PROVE  \/ \E k \in 1 .. Len(fr2) : fr2[k] = c
              \/ \E f \in Chunks : \E j \in 1 .. Len(ch2[f]) : ch2[f][j] = c
  <2>1. ASSUME NEW k \in 1 .. Len(pool), pool[k] = c
        PROVE  \/ \E k2 \in 1 .. Len(fr2) : fr2[k2] = c
               \/ \E f \in Chunks : \E j \in 1 .. Len(ch2[f]) : ch2[f][j] = c
    <3>1. CASE k <= n
      <4>1. k \in 1 .. Len(ch2[id]) /\ ch2[id][k] = c
        BY <1>12, <1>18, <2>1, <3>1
      <4> QED
        BY <1>13, <4>1
    <3>2. CASE ~(k <= n)
      <4>1. k - n \in 1 .. Len(fr2) /\ n + (k - n) = k
        BY <1>1, <1>7, <1>12, <3>2
      <4>2. fr2[k - n] = c
        BY <1>12, <2>1, <4>1
      <4> QED
        BY <4>1, <4>2
    <3> QED
      BY <3>1, <3>2
  <2>2. CASE \E k \in 1 .. Len(fr) : fr[k] = c
    <3>1. PICK k \in 1 .. Len(fr) : fr[k] = c
      BY <2>2
    <3>2. k \in 1 .. Len(pool) /\ pool[k] = c
      BY <1>1, <1>7, <3>1
    <3> QED
      BY <2>1, <3>2
  <2>3. CASE \E f \in Chunks : \E j \in 1 .. Len(ch[f]) : ch[f][j] = c
    <3>1. PICK f \in Chunks : \E j \in 1 .. Len(ch[f]) : ch[f][j] = c
      BY <2>3
    <3>2. f # id
      BY <1>13, <3>1
    <3> QED
      BY <1>18, <3>1, <3>2
  <2>4. CASE c > end
    <3>1. Len(fr) + (c - end) \in Len(fr) + 1 .. Len(fr) + m /\ Len(fr) + (c - end) \in 1 .. Len(pool)
      BY <1>1, <1>7, <2>4
    <3>2. pool[Len(fr) + (c - end)] = c
      BY <1>1, <1>7, <3>1
    <3> QED
      BY <2>1, <3>1, <3>2
  <2>5. c \in 1 .. end \/ c > end
    BY <1>1
  <2> QED
    BY <1>3, <2>2, <2>3, <2>4, <2>5
<1>23. Placed(fr2, ch2, end + m)
  BY <1>19, <1>20, <1>21, <1>22 DEF Placed
<1> QED
  BY <1>13, <1>14, <1>23 DEF id, own, fr2, ch2

-----------------------------------------------------------------------------
(* The invariant.                                                          *)

\* The elements of a schema.
Of(s) == {c \in Chunks : chain[c] # <<>> /\ rec[c].schema = s}

\* What is no element has no schema, and the counters are right.
Counted ==
  /\ DOMAIN rec = Chunks /\ \A c \in Chunks : "schema" \in DOMAIN rec[c]
  /\ \A c \in Chunks : chain[c] = <<>> => rec[c].schema = 0
  /\ DOMAIN cnt = Schemas /\ \A s \in Schemas : cnt[s] = Cardinality(Of(s))

Kept == Placed(free, chain, fileEnd) /\ Counted

\* InsertElement appends as many pages as it takes to leave a free chunk.
LEMMA PagesSuffice ==
  ASSUME NEW n \in Nat, Len(free) \in Nat, Len(free) >= 1
  PROVE  Pages(n) * ChunksPerPage \in Nat /\ n < Len(free) + Pages(n) * ChunksPerPage
<1> DEFINE C == ChunksPerPage
           d == n - Len(free)
           q == d \div C
<1>1. C \in Nat /\ C > 0
  BY SizesAssumption
<1> HIDE DEF C
<1>2. CASE n < Len(free)
  <2>1. Pages(n) = 0
    BY <1>2 DEF Pages
  <2> QED
    BY <1>1, <1>2, <2>1 DEF C
<1>3. CASE ~(n < Len(free))
  <2>1. d \in Nat /\ n = Len(free) + d /\ Pages(n) = q + 1
    BY <1>3 DEF Pages, C
  <2> HIDE DEF d
  <2>2. q \in Nat /\ d % C \in Nat /\ d % C < C /\ d = C * q + (d % C)
    BY <1>1, <2>1
  <2> HIDE DEF q
  <2>3. (q + 1) * C \in Nat /\ (q + 1) * C = C * q + C /\ C * q \in Nat
    BY <1>1, <2>2
  <2>4. d < (q + 1) * C
    BY <1>1, <2>2, <2>3
  <2>5. Pages(n) * ChunksPerPage = (q + 1) * C
    BY <2>1 DEF C
  <2> QED
    BY <2>1, <2>3, <2>4, <2>5
<1> QED
  BY <1>2, <1>3

\* Rewriting a chunk that is not free leaves the free list as it is.
LEMMA FreeWhole ==
  ASSUME FreeOnce(free, fileEnd), NEW c, \A k \in 1 .. Len(free) : free[k] # c
  PROVE  FreeFrom(c) = free
<1>1. free \in Seq(1 .. fileEnd) /\ Len(free) \in Nat
  BY DEF FreeOnce
<1>2. {k \in 1 .. Len(free) : \A j \in 1 .. k - 1 : free[j] # c} = 1 .. Len(free)
  BY <1>1
<1>3. Cardinality(1 .. Len(free)) = Len(free)
  BY <1>1, FS_Interval
<1>4. SubSeq(free, 1, Len(free)) = free
  BY <1>1, SubSeqFull
<1> QED
  BY <1>2, <1>3, <1>4 DEF FreeFrom

\* There are finitely many elements of a schema.
LEMMA OfFinite == \A s : IsFiniteSet(Of(s))
<1>1. IsFiniteSet(Chunks)
  BY SizesAssumption, FS_Interval DEF Chunks
<1>2. \A s : Of(s) \subseteq Chunks
  BY DEF Of
<1> QED
  BY <1>1, <1>2, FS_Subset

\* InsertElement keeps the chunks and the counters.
LEMMA InsertKeeps ==
  ASSUME Kept, NEW p, NEW s \in Schemas, NEW row, Insert(p, s, row)
  PROVE  Kept'
<1> DEFINE n == Size[s]
           m == Pages(n) * ChunksPerPage
           id == free[1]
<1>1. n \in Nat /\ n >= 1
  BY SizesAssumption
<1>2. FreeOnce(free, fileEnd)
  BY DEF Kept, Placed
<1>3. Len(free) \in Nat /\ Len(free) >= 1
  BY <1>2 DEF FreeOnce
<1>4. m \in Nat /\ n < Len(free) + m
  BY <1>1, <1>3, PagesSuffice
<1>5. /\ fileEnd + m <= MaxChunks
      /\ fileEnd' = fileEnd + m
      /\ free' = SubSeq(Pool(n), n + 1, Len(Pool(n)))
      /\ chain' = [chain EXCEPT ![id] = SubSeq(Pool(n), 1, n)]
      /\ DOMAIN rec' = Chunks
      /\ \A c \in Chunks : /\ "schema" \in DOMAIN rec[c] => "schema" \in DOMAIN rec'[c]
                           /\ rec'[c].schema = IF c = id THEN s
                                               ELSE IF "schema" \in DOMAIN rec[c] THEN rec[c].schema
                                               ELSE rec'[c].schema
      /\ cnt' = [cnt EXCEPT ![s] = @ + 1]
  BY DEF Insert, ZeroRec
<1>6. Pool(n) = free \o [k \in 1 .. m |-> fileEnd + k]
  BY DEF Pool
<1>7. /\ id \in Chunks /\ chain[id] = <<>>
      /\ SubSeq(Pool(n), 1, n) # <<>>
      /\ Placed(free', chain', fileEnd')
  <2>1. Placed(free, chain, fileEnd) /\ n \in Nat /\ n >= 1
    BY <1>1 DEF Kept
  <2> HIDE DEF n, m, id
  <2> QED
    BY <1>4, <1>5, <1>6, <2>1, Taken DEF id
<1>8. /\ chain \in [Chunks -> Seq(1 .. fileEnd)]
      /\ DOMAIN rec = Chunks /\ \A c \in Chunks : "schema" \in DOMAIN rec[c]
      /\ \A c \in Chunks : chain[c] = <<>> => rec[c].schema = 0
      /\ DOMAIN cnt = Schemas /\ \A t \in Schemas : cnt[t] = Cardinality(Of(t))
  BY DEF Kept, Placed, Chained, Counted
<1> HIDE DEF n, m, id
<1>9. /\ chain'[id] # <<>> /\ \A c \in Chunks : c # id => chain'[c] = chain[c]
      /\ rec'[id].schema = s /\ \A c \in Chunks : c # id => rec'[c].schema = rec[c].schema
  BY <1>5, <1>7, <1>8
<1>10. Of(s)' = Of(s) \cup {id} /\ id \notin Of(s)
  BY <1>7, <1>8, <1>9, SchemasAssumption DEF Of
<1>11. \A t \in Schemas : t # s => Of(t)' = Of(t)
  BY <1>7, <1>8, <1>9 DEF Of
<1>12. Cardinality(Of(s)') = Cardinality(Of(s)) + 1
  BY <1>10, OfFinite, FS_AddElement
<1>13. DOMAIN cnt' = Schemas /\ \A t \in Schemas : cnt'[t] = Cardinality(Of(t)')
  BY <1>5, <1>8, <1>11, <1>12
<1>14. \A c \in Chunks : chain'[c] = <<>> => rec'[c].schema = 0
  BY <1>8, <1>9
<1>15. DOMAIN rec' = Chunks /\ \A c \in Chunks : "schema" \in DOMAIN rec'[c]
  BY <1>5, <1>8
<1> QED
  BY <1>7, <1>13, <1>14, <1>15 DEF Kept, Counted

\* Remove keeps them, as long as it unlinks the element where it is linked.
LEMMA RemoveKeeps ==
  ASSUME Kept, NEW e \in Chunks, Remove(e), ~damaged'
  PROVE  Kept'
<1>1. /\ FreeOnce(free, fileEnd) /\ Chained(chain, fileEnd)
      /\ \A c \in Chunks : \A j \in 1 .. Len(chain[c]), k \in 1 .. Len(free) : chain[c][j] # free[k]
      /\ chain \in [Chunks -> Seq(1 .. fileEnd)]
      /\ DOMAIN rec = Chunks /\ \A c \in Chunks : "schema" \in DOMAIN rec[c]
      /\ \A c \in Chunks : chain[c] = <<>> => rec[c].schema = 0
      /\ DOMAIN cnt = Schemas /\ \A t \in Schemas : cnt[t] = Cardinality(Of(t))
  BY DEF Kept, Placed, Chained, Counted
<1>2. Linked(e) /\ fileEnd' = fileEnd /\ chain' = [chain EXCEPT ![e] = <<>>]
  BY DEF Remove
<1>3. ASSUME rec[e].parent # 0 PROVE FreeFrom(rec[e].prev) = free
  <2>1. free \in Seq(1 .. fileEnd)
    BY <1>1 DEF FreeOnce
  <2>2. CASE rec[e].prev = 0
    <3> DEFINE S == 1 .. fileEnd
    <3>1. free \in Seq(S) /\ 0 \notin S
      BY <2>1
    <3> HIDE DEF S
    <3>2. \A k \in 1 .. Len(free) : free[k] # 0
      BY <3>1, ElementOfSeq
    <3> QED
      BY <1>1, <2>2, <3>2, FreeWhole
  <2>3. CASE rec[e].prev \in Elements
    <3>1. rec[e].prev \in Chunks /\ chain[rec[e].prev] # <<>>
      BY <2>3 DEF Elements
    <3>2. chain[rec[e].prev][1] = rec[e].prev /\ 1 \in 1 .. Len(chain[rec[e].prev])
      BY <1>1, <3>1 DEF Chained
    <3>3. \A k \in 1 .. Len(free) : free[k] # rec[e].prev
      BY <1>1, <3>1, <3>2
    <3> QED
      BY <1>1, <3>3, FreeWhole
  <2> QED
    BY <1>2, <1>3, <2>2, <2>3 DEF Linked
<1>4. free' = chain[e] \o free
  BY <1>3 DEF Remove
<1>5. Placed(free', chain', fileEnd')
  BY <1>2, <1>4, Given DEF Kept
<1>6. /\ DOMAIN Unlinked(e) = Chunks
      /\ \A c \in Chunks : "schema" \in DOMAIN Unlinked(e)[c] /\ Unlinked(e)[c].schema = rec[c].schema
  BY <1>1 DEF Unlinked
<1>7. /\ DOMAIN rec' = Chunks /\ rec'[e] = ZeroRec
      /\ \A c \in Chunks : c # e => rec'[c] = Unlinked(e)[c]
  BY <1>6 DEF Remove
<1>8. /\ rec'[e].schema = 0 /\ "schema" \in DOMAIN rec'[e]
      /\ \A c \in Chunks : c # e => rec'[c].schema = rec[c].schema /\ "schema" \in DOMAIN rec'[c]
  BY <1>6, <1>7 DEF ZeroRec
<1>9. chain'[e] = <<>> /\ \A c \in Chunks : c # e => chain'[c] = chain[c]
  BY <1>1, <1>2
<1>10. \A t : Of(t)' = Of(t) \ {e}
  BY <1>8, <1>9 DEF Of
<1>11. cnt' = [cnt EXCEPT ![rec[e].schema] = @ - 1]
  BY DEF Remove
<1>12. ASSUME NEW t \in Schemas PROVE cnt'[t] = Cardinality(Of(t)')
  <2>1. CASE e \in Of(t)
    <3>1. rec[e].schema = t
      BY <2>1 DEF Of
    <3>2. Cardinality(Of(t) \ {e}) = Cardinality(Of(t)) - 1
      BY <2>1, OfFinite, FS_RemoveElement
    <3> QED
      BY <1>1, <1>10, <1>11, <3>1, <3>2
  <2>2. CASE e \notin Of(t)
    <3>1. rec[e].schema # t
      BY <1>1, <2>2, SchemasAssumption DEF Of
    <3>2. Of(t)' = Of(t)
      BY <1>10, <2>2
    <3> QED
      BY <1>1, <1>11, <3>1, <3>2
  <2> QED
    BY <2>1, <2>2
<1>13. DOMAIN cnt' = Schemas
  BY <1>1, <1>11
<1>14. \A c \in Chunks : chain'[c] = <<>> => rec'[c].schema = 0
  BY <1>1, <1>8, <1>9
<1> QED
  BY <1>5, <1>7, <1>8, <1>12, <1>13, <1>14 DEF Kept, Counted

\* UpdateElements writes rows only.
LEMMA UpdateKeeps ==
  ASSUME Kept, NEW u, Update(u)
  PROVE  Kept'
<1>1. /\ DOMAIN rec = Chunks /\ \A c \in Chunks : "schema" \in DOMAIN rec[c]
      /\ \A c \in Chunks : chain[c] = <<>> => rec[c].schema = 0
      /\ DOMAIN cnt = Schemas /\ \A t \in Schemas : cnt[t] = Cardinality(Of(t))
  BY DEF Kept, Counted
<1>2. UNCHANGED <<cnt, chain, free, fileEnd>>
  BY DEF Update
<1>3. DOMAIN rec' = Chunks
  BY DEF Update
<1>4. \A c \in Chunks : "schema" \in DOMAIN rec'[c] /\ rec'[c].schema = rec[c].schema
  BY <1>1 DEF Update
<1>5. \A t : Of(t)' = Of(t)
  BY <1>2, <1>4 DEF Of
<1> QED
  BY <1>1, <1>2, <1>3, <1>4, <1>5 DEF Kept, Counted

\* What leaves the tree alone keeps them.
LEMMA StutterKeeps == ASSUME Kept, UNCHANGED tree PROVE Kept'
<1>1. UNCHANGED <<cnt, rec, chain, free, fileEnd>>
  BY DEF tree
<1>2. \A s : Of(s)' = Of(s)
  BY <1>1 DEF Of
<1> QED
  BY <1>1, <1>2 DEF Kept, Counted

-----------------------------------------------------------------------------
IInv == ~damaged => Kept

\* The empty file.
LEMMA InitKept == Init => Kept
<1> SUFFICES ASSUME Init PROVE Kept
  OBVIOUS
<1> DEFINE C == ChunksPerPage
<1>1. C \in Nat /\ C >= 1 /\ C <= MaxChunks /\ MaxChunks \in Nat
  BY SizesAssumption
<1>2. /\ cnt = [s \in Schemas |-> 0] /\ rec = [c \in Chunks |-> ZeroRec]
      /\ chain = [c \in Chunks |-> <<>>] /\ fileEnd = C
      /\ free = [k \in 1 .. C |-> k]
  BY DEF Init
<1> HIDE DEF C
<1>3. /\ free \in Seq(1 .. C) /\ Len(free) = C /\ \A k \in 1 .. C : free[k] = k
  <2>1. free \in [1 .. C -> 1 .. C]
    BY <1>2
  <2> QED
    BY <1>1, <1>2, <2>1
<1>4. FreeOnce(free, fileEnd)
  BY <1>1, <1>2, <1>3 DEF FreeOnce
<1>5. \A c \in Chunks : chain[c] = <<>> /\ Len(chain[c]) = 0
  BY <1>2
<1>6. chain \in [Chunks -> Seq(1 .. fileEnd)]
  BY <1>2
<1>7. Chained(chain, fileEnd)
  BY <1>5, <1>6 DEF Chained
<1>8. Placed(free, chain, fileEnd)
  <2>1. \A c \in Chunks : \A j \in 1 .. Len(chain[c]) : FALSE
    BY <1>5
  <2>2. \A c \in 1 .. fileEnd : c \in 1 .. Len(free) /\ free[c] = c
    BY <1>2, <1>3
  <2>3. \A c \in 1 .. fileEnd : \E k \in 1 .. Len(free) : free[k] = c
    BY <2>2
  <2> QED
    BY <1>4, <1>7, <2>1, <2>3 DEF Placed
<1>9. \A s \in Schemas : Of(s) = {}
  BY <1>5 DEF Of
<1>10. Counted
  BY <1>2, <1>5, <1>9, FS_EmptySet DEF Counted, ZeroRec
<1> QED
  BY <1>8, <1>10 DEF Kept

\* Every step keeps the invariant.
LEMMA NextKept == IInv /\ [Next]_vars => IInv'
<1> SUFFICES ASSUME IInv, [Next]_vars, ~damaged' PROVE Kept'
  BY DEF IInv
<1>1. ASSUME NEW p, NEW s \in Schemas, NEW row, Insert(p, s, row) PROVE Kept'
  <2>1. ~damaged
    BY <1>1 DEF Insert, Ready
  <2> QED
    BY <1>1, <2>1, InsertKeeps DEF IInv
<1>2. ASSUME NEW e \in Chunks, Delete(e) PROVE Kept'
  <2>1. Remove(e) /\ ~damaged
    BY <1>2 DEF Delete, Ready
  <2> QED
    BY <2>1, RemoveKeeps DEF IInv
<1>3. ASSUME NEW e \in Chunks, DeleteFails(e) PROVE Kept'
  BY <1>3 DEF DeleteFails
<1>4. ASSUME NEW q, DeleteBegin(q) PROVE Kept'
  BY <1>4, StutterKeeps DEF DeleteBegin, Ready, IInv
<1>5. CASE DeleteRemove
  <2>1. it \in Chunks /\ Remove(it)
    BY <1>5 DEF DeleteRemove, Elements
  <2>2. ~damaged
    BY <2>1 DEF Remove
  <2> QED
    BY <2>1, <2>2, RemoveKeeps DEF IInv
<1>6. CASE DeleteSkip
  BY <1>6, StutterKeeps DEF DeleteSkip, IInv
<1>7. CASE DeleteReturn
  BY <1>7, StutterKeeps DEF DeleteReturn, IInv
<1>8. CASE DeleteThrow
  BY <1>8 DEF DeleteThrow
<1>9. ASSUME NEW u \in Updates, Update(u) PROVE Kept'
  BY <1>9, UpdateKeeps DEF Update, Ready, IInv
<1>10. CASE UNCHANGED vars
  BY <1>10, StutterKeeps DEF vars, IInv
<1> QED
  BY <1>1, <1>2, <1>3, <1>4, <1>5, <1>6, <1>7, <1>8, <1>9, <1>10 DEF Next, DeleteStep

\* The invariant holds in every behaviour.
LEMMA Always == Spec => []IInv
<1>1. Init => IInv
  BY InitKept DEF IInv
<1> QED
  BY <1>1, NextKept, PTL DEF Spec

-----------------------------------------------------------------------------
(* What follows from it.                                                   *)

\* A chunk is free or in one element, once, and the last free one is the last
\* of the file.
LEMMA PlacedIsAccounted == IInv => ChunksAccounted
<1> SUFFICES ASSUME Placed(free, chain, fileEnd)
             PROVE  ChunksAccounted
  BY DEF IInv, Kept, ChunksAccounted
<1>1. /\ free \in Seq(1 .. fileEnd) /\ Len(free) \in Nat /\ Len(free) >= 1
      /\ fileEnd \in Nat /\ free[Len(free)] = fileEnd
      /\ \A j, k \in 1 .. Len(free) : free[j] = free[k] => j = k
  BY SizesAssumption DEF Placed, FreeOnce
<1>2. /\ chain \in [Chunks -> Seq(1 .. fileEnd)]
      /\ \A e, f \in Chunks : \A j \in 1 .. Len(chain[e]), k \in 1 .. Len(chain[f]) :
           chain[e][j] = chain[f][k] => e = f /\ j = k
  BY DEF Placed, Chained
<1>3. /\ \A e \in Chunks : \A j \in 1 .. Len(chain[e]), k \in 1 .. Len(free) : chain[e][j] # free[k]
      /\ \A c \in 1 .. fileEnd :
           \/ \E k \in 1 .. Len(free) : free[k] = c
           \/ \E e \in Chunks : \E j \in 1 .. Len(chain[e]) : chain[e][j] = c
  BY DEF Placed
<1>4. \A e \in Elements : e \in Chunks
  BY DEF Elements
<1>5. ASSUME NEW e \in Chunks, NEW j \in 1 .. Len(chain[e]) PROVE e \in Elements
  <2>1. chain[e] # <<>>
    OBVIOUS
  <2> QED
    BY <2>1 DEF Elements
<1>6. ASSUME NEW c \in 1 .. fileEnd
      PROVE  (\A k \in 1 .. Len(free) : free[k] # c) <=>
               (\E e \in Elements : \E k \in 1 .. Len(chain[e]) : chain[e][k] = c)
  BY <1>3, <1>4, <1>5
<1>7. Len(free) + Cardinality({c \in 1 .. fileEnd : \A k \in 1 .. Len(free) : free[k] # c}) = fileEnd
  <2> DEFINE F == {free[k] : k \in 1 .. Len(free)}
             all == 1 .. fileEnd
             rest == {c \in 1 .. fileEnd : \A k \in 1 .. Len(free) : free[k] # c}
             bij == [k \in 1 .. Len(free) |-> free[k]]
  <2>1. F \subseteq all
    <3>1. free \in Seq(all)
      BY <1>1
    <3> HIDE DEF all
    <3> QED
      BY <3>1, ElementOfSeq
  <2>2. rest = all \ F
    OBVIOUS
  <2>3. IsFiniteSet(all) /\ Cardinality(all) = fileEnd
    BY <1>1, FS_Interval
  <2>4. IsFiniteSet(1 .. Len(free)) /\ Cardinality(1 .. Len(free)) = Len(free)
    BY <1>1, FS_Interval
  <2>5. bij \in Bijection(1 .. Len(free), F)
    BY <1>1 DEF Bijection, Injection, Surjection, IsInjective
  <2>6. IsFiniteSet(F) /\ Cardinality(F) = Len(free)
    BY <2>4, <2>5, FS_Bijection DEF ExistsBijection
  <2>7. all \cap F = F
    BY <2>1
  <2> HIDE DEF F, all
  <2>8. Cardinality(all \ F) = Cardinality(all) - Cardinality(all \cap F)
    BY <2>3, FS_Difference
  <2>9. Cardinality(all \ F) = fileEnd - Len(free)
    BY <2>3, <2>6, <2>7, <2>8
  <2> HIDE DEF rest
  <2>10. Len(free) + Cardinality(rest) = fileEnd
    BY <1>1, <2>2, <2>9
  <2> QED
    BY <2>10 DEF rest
<1>8. free # <<>>
  BY <1>1
<1> QED
  BY <1>1, <1>2, <1>4, <1>6, <1>7, <1>8 DEF ChunksAccounted

\* Every chunk of the file is free or in one element, once, whatever the sizes
\* of elements and pages, up to the call that damages the file.
THEOREM ChunksKept == Spec => []ChunksAccounted
BY Always, PlacedIsAccounted, PTL

\* cnt_elements_, by which DeleteSchema decides, is the number of the schema's
\* elements, for all schemas, up to the call that damages the file.
THEOREM CountsKept == Spec => []SchemaCounts
<1>1. IInv => SchemaCounts
  BY DEF IInv, Kept, Counted, SchemaCounts, Of, Elements
<1> QED
  BY <1>1, Always, PTL

-----------------------------------------------------------------------------
(* The order of the scan.                                                  *)

\* The place pos[x] of an element in the order of the iterator and the place
\* lo[x] of the first element that is visited at or below it.  What lies at
\* or below x has the places lo[x] .. pos[x], so places of two elements are
\* nested or apart.
Scanned(pos, lo) ==
  /\ count \in Nat
  /\ \A x \in Elements : pos[x] \in 1 .. count /\ lo[x] \in 1 .. pos[x]
  /\ \A x, y \in Elements : pos[x] = pos[y] => x = y
  /\ \A k \in 1 .. count : \E x \in Elements : pos[x] = k
  /\ \A x \in Elements :
       IF rec[x].parent = 0
       THEN x = first /\ pos[x] = count /\ lo[x] = 1 /\ rec[x].brother = 0
       ELSE /\ rec[x].parent \in Elements
            /\ pos[x] < pos[rec[x].parent] /\ lo[rec[x].parent] <= lo[x]
            /\ IF rec[x].brother = 0 THEN pos[rec[x].parent] = pos[x] + 1
               ELSE /\ rec[x].brother \in Elements /\ rec[rec[x].brother].parent = rec[x].parent
                    /\ lo[rec[x].brother] = pos[x] + 1
  /\ \A x \in Elements :
       IF rec[x].child = 0 THEN lo[x] = pos[x]
       ELSE /\ rec[x].child \in Elements /\ rec[rec[x].child].parent = x
            /\ lo[rec[x].child] = lo[x]
  /\ IF count = 0 THEN first = 0 ELSE first \in Elements /\ rec[first].parent = 0
  /\ \A x, y \in Elements : pos[x] < pos[y] =>
       \/ pos[x] < lo[y]
       \/ lo[y] <= lo[x] /\ rec[x].parent # 0 /\ pos[rec[x].parent] <= pos[y]

\* Records are read with all their fields, whatever the links lead to.
Shaped ==
  \A c \in Chunks :
    DOMAIN rec[c] = {"schema", "parent", "child", "prev", "brother", "row"}

\* The tree grows by id, the first child of p.
Grown(id, p, s, row) ==
  /\ id \notin Elements /\ Elements' = Elements \cup {id}
  /\ count' = count + 1 /\ first' = IF p = 0 THEN id ELSE first
  /\ IF p = 0 THEN count = 0 ELSE p \in Elements
  /\ rec'[id].parent = p /\ rec'[id].child = 0
  /\ rec'[id].schema = s /\ rec'[id].row = row
  /\ rec'[id].brother = IF p = 0 THEN 0 ELSE rec[p].child
  /\ \A x \in Elements :
       /\ rec'[x].parent = rec[x].parent /\ rec'[x].brother = rec[x].brother
       /\ rec'[x].schema = rec[x].schema /\ rec'[x].row = rec[x].row
       /\ rec'[x].child = IF x = p THEN id ELSE rec[x].child

\* What InsertElement changes of the tree.
LEMMA InsertTree ==
  ASSUME Kept, Shaped, NEW p, NEW s \in Schemas, NEW row, Insert(p, s, row), ~damaged'
  PROVE  \E id \in Chunks : Grown(id, p, s, row)
<1> DEFINE n == Size[s]
           m == Pages(n) * ChunksPerPage
           id == free[1]
<1>1. n \in Nat /\ n >= 1
  BY SizesAssumption
<1>2. FreeOnce(free, fileEnd)
  BY DEF Kept, Placed
<1>3. Len(free) \in Nat /\ Len(free) >= 1
  BY <1>2 DEF FreeOnce
<1>4. m \in Nat /\ n < Len(free) + m
  BY <1>1, <1>3, PagesSuffice
<1>5. /\ fileEnd + m <= MaxChunks
      /\ chain' = [chain EXCEPT ![id] = SubSeq(Pool(n), 1, n)]
      /\ Pool(n) = free \o [k \in 1 .. m |-> fileEnd + k]
      /\ count' = count + 1 /\ first' = IF p = 0 THEN id ELSE first
      /\ IF p = 0 THEN count = 0 ELSE p \in Elements
  BY DEF Insert, Pool
<1>6. /\ id \in Chunks /\ chain[id] = <<>> /\ SubSeq(Pool(n), 1, n) # <<>>
      /\ chain \in [Chunks -> Seq(1 .. fileEnd)]
  <2>1. Placed(free, chain, fileEnd) /\ n \in Nat /\ n >= 1
    BY <1>1 DEF Kept
  <2>2. chain \in [Chunks -> Seq(1 .. fileEnd)]
    BY <2>1 DEF Placed, Chained
  <2> HIDE DEF n, m, id
  <2> QED
    BY <1>4, <1>5, <2>1, <2>2, Taken DEF id
<1>7. /\ rec'[id] = [ZeroRec EXCEPT !.schema = s, !.parent = p, !.row = row,
                                    !.brother = IF p = 0 THEN 0 ELSE rec[p].child]
      /\ \A c \in Chunks : c # id =>
           rec'[c] = IF c = p THEN [rec[c] EXCEPT !.child = id]
                     ELSE IF p # 0 /\ c = rec[p].child THEN [rec[c] EXCEPT !.prev = id]
                     ELSE rec[c]
  BY <1>6 DEF Insert
<1> HIDE DEF n, m, id
<1>8. id \notin Elements /\ Elements' = Elements \cup {id}
  BY <1>5, <1>6 DEF Elements
<1>9. /\ rec'[id].parent = p /\ rec'[id].child = 0
      /\ rec'[id].schema = s /\ rec'[id].row = row
      /\ rec'[id].brother = IF p = 0 THEN 0 ELSE rec[p].child
  BY <1>7 DEF ZeroRec
<1>10. ASSUME NEW x \in Elements
       PROVE  /\ rec'[x].parent = rec[x].parent /\ rec'[x].brother = rec[x].brother
              /\ rec'[x].schema = rec[x].schema /\ rec'[x].row = rec[x].row
              /\ rec'[x].child = IF x = p THEN id ELSE rec[x].child
  <2>1. x \in Chunks /\ x # id
    BY <1>8 DEF Elements
  <2> QED
    BY <1>7, <2>1 DEF Shaped
<1>11. Grown(id, p, s, row)
  BY <1>5, <1>8, <1>9, <1>10 DEF Grown
<1> QED
  BY <1>6, <1>11

\* What Remove changes of the tree: the links to the element skip it.
LEMMA RemoveTree ==
  ASSUME Kept, Shaped, NEW pos, NEW lo, Scanned(pos, lo), NEW e \in Elements, Remove(e), ~damaged'
  PROVE  /\ Elements' = Elements \ {e} /\ count' = count - 1 /\ ~damaged
         /\ first' = IF rec[e].parent = 0 THEN 0 ELSE first
         /\ \A x \in Elements \ {e} :
              /\ rec'[x].parent = rec[x].parent
              /\ rec'[x].schema = rec[x].schema /\ rec'[x].row = rec[x].row
              /\ rec'[x].child = IF rec[x].child = e THEN rec[e].brother ELSE rec[x].child
              /\ rec'[x].brother = IF rec[x].brother = e THEN rec[e].brother ELSE rec[x].brother
<1>1. /\ chain' = [chain EXCEPT ![e] = <<>>] /\ count' = count - 1 /\ ~damaged
      /\ first' = (IF rec[e].parent = 0 THEN 0 ELSE first) /\ Linked(e)
      /\ rec' = [Unlinked(e) EXCEPT ![e] = ZeroRec]
  BY DEF Remove
<1>2. /\ chain \in [Chunks -> Seq(1 .. fileEnd)] /\ DOMAIN rec = Chunks
      /\ \A x \in Elements : x \in Chunks
  BY DEF Kept, Placed, Chained, Counted, Elements
<1>3. Elements' = Elements \ {e}
  BY <1>1, <1>2 DEF Elements
<1>4. ASSUME NEW x \in Elements, x # e
      PROVE  /\ rec'[x].parent = rec[x].parent
             /\ rec'[x].schema = rec[x].schema /\ rec'[x].row = rec[x].row
             /\ rec'[x].child = IF rec[e].parent # 0 /\ rec[e].prev = 0 /\ x = rec[e].parent
                                THEN rec[e].brother ELSE rec[x].child
             /\ rec'[x].brother = IF rec[e].parent # 0 /\ rec[e].prev # 0 /\ x = rec[e].prev
                                  THEN rec[e].brother ELSE rec[x].brother
  <2>1. rec'[x] = Unlinked(e)[x] /\ x \in Chunks
    BY <1>1, <1>2, <1>4 DEF Unlinked
  <2>2. DOMAIN rec[x] = {"schema", "parent", "child", "prev", "brother", "row"}
    BY <2>1 DEF Shaped
  <2> QED
    BY <1>2, <2>1, <2>2 DEF Unlinked
<1>5. 0 \notin Elements
  BY DEF Elements, Chunks
<1>6. \A x \in Elements : rec[x].child = e => rec[e].parent = x /\ lo[x] = lo[e]
  BY <1>5 DEF Scanned
<1>7. \A x \in Elements : rec[x].brother = e =>
        rec[e].parent = rec[x].parent /\ rec[x].parent # 0 /\ lo[e] = pos[x] + 1
        /\ lo[rec[x].parent] <= lo[x]
  BY <1>5 DEF Scanned
<1>8. \A x \in Elements : pos[x] \in Int /\ lo[x] \in Int /\ lo[x] <= pos[x]
  BY DEF Scanned
<1>9. ASSUME NEW x \in Elements, NEW y \in Elements, rec[x].child = e, rec[y].brother = e
      PROVE  FALSE
  <2>1. rec[y].parent = x /\ lo[e] = pos[y] + 1 /\ lo[x] <= lo[y] /\ lo[x] = lo[e]
    BY <1>6, <1>7, <1>9
  <2> QED
    BY <1>8, <2>1
<1>10. ASSUME NEW x \in Elements, NEW y \in Elements, rec[x].brother = e, rec[y].brother = e
       PROVE  x = y
  <2>1. pos[x] = pos[y]
    BY <1>7, <1>8, <1>10
  <2> QED
    BY <2>1 DEF Scanned
<1>11. rec[e].parent # 0 => rec[e].parent \in Elements
  BY DEF Scanned
<1>12. ASSUME NEW x \in Elements, x # e
       PROVE  /\ (rec[e].parent # 0 /\ rec[e].prev = 0 /\ x = rec[e].parent) <=> rec[x].child = e
              /\ (rec[e].parent # 0 /\ rec[e].prev # 0 /\ x = rec[e].prev) <=> rec[x].brother = e
  <2>1. CASE rec[e].parent = 0
    BY <1>5, <1>6, <1>7, <2>1
  <2>2. CASE rec[e].parent # 0 /\ rec[e].prev = 0
    <3>1. rec[rec[e].parent].child = e
      BY <1>1, <1>5, <2>2 DEF Linked
    <3> QED
      BY <1>6, <1>9, <1>11, <2>2, <3>1
  <2>3. CASE rec[e].parent # 0 /\ rec[e].prev # 0
    <3>1. rec[e].prev \in Elements /\ rec[rec[e].prev].brother = e
      BY <1>1, <2>3 DEF Linked
    <3> QED
      BY <1>9, <1>10, <2>3, <3>1
  <2> QED
    BY <2>1, <2>2, <2>3
<1> QED
  BY <1>1, <1>3, <1>4, <1>12

\* What a new first child of p does to the order: it comes first of what lies
\* below p, and what came behind moves up.
LEMMA ScanChild ==
  ASSUME NEW pos, NEW lo, Scanned(pos, lo), NEW p \in Elements, NEW id, id \notin Elements, id # 0,
         Elements' = Elements \cup {id}, count' = count + 1, first' = first,
         rec'[id].parent = p, rec'[id].child = 0, rec'[id].brother = rec[p].child,
         \A x \in Elements :
           /\ rec'[x].parent = rec[x].parent /\ rec'[x].brother = rec[x].brother
           /\ rec'[x].child = IF x = p THEN id ELSE rec[x].child
  PROVE  \E pos2, lo2 : Scanned(pos2, lo2)'
<1>1. PICK pos2 : pos2 = [x \in Elements \cup {id} |->
                            IF x = id THEN lo[p] ELSE IF pos[x] >= lo[p] THEN pos[x] + 1 ELSE pos[x]]
  OBVIOUS
<1>2. PICK lo2 : lo2 = [x \in Elements \cup {id} |->
                          IF x # id /\ (lo[x] > lo[p] \/ (lo[x] = lo[p] /\ pos[x] < pos[p]))
                          THEN lo[x] + 1 ELSE IF x = id THEN lo[p] ELSE lo[x]]
  OBVIOUS
<1>3. /\ count \in Nat
      /\ \A x \in Elements : pos[x] \in Int /\ lo[x] \in Int
      /\ \A x \in Elements : 1 <= lo[x] /\ lo[x] <= pos[x] /\ pos[x] <= count
  BY DEF Scanned
<1>4. /\ pos2[id] = lo[p] /\ lo2[id] = lo[p]
      /\ \A x \in Elements : pos2[x] = IF pos[x] >= lo[p] THEN pos[x] + 1 ELSE pos[x]
      /\ \A x \in Elements : lo2[x] = IF lo[x] > lo[p] \/ (lo[x] = lo[p] /\ pos[x] < pos[p])
                                      THEN lo[x] + 1 ELSE lo[x]
  BY <1>1, <1>2
<1>0. 0 \notin Elements
  BY DEF Elements, Chunks
<1>5. \A x, y \in Elements : pos[x] = pos[y] => x = y
  BY DEF Scanned
<1>6. \A x, y \in Elements : pos[x] < pos[y] =>
        \/ pos[x] < lo[y]
        \/ lo[y] <= lo[x] /\ rec[x].parent # 0 /\ pos[rec[x].parent] <= pos[y]
  BY DEF Scanned
<1>7. \A x \in Elements :
        IF rec[x].parent = 0
        THEN x = first /\ pos[x] = count /\ lo[x] = 1 /\ rec[x].brother = 0
        ELSE /\ rec[x].parent \in Elements
             /\ pos[x] < pos[rec[x].parent] /\ lo[rec[x].parent] <= lo[x]
             /\ IF rec[x].brother = 0 THEN pos[rec[x].parent] = pos[x] + 1
                ELSE /\ rec[x].brother \in Elements /\ rec[rec[x].brother].parent = rec[x].parent
                     /\ lo[rec[x].brother] = pos[x] + 1
  BY DEF Scanned
<1>8. \A x \in Elements :
        IF rec[x].child = 0 THEN lo[x] = pos[x]
        ELSE /\ rec[x].child \in Elements /\ rec[rec[x].child].parent = x
             /\ lo[rec[x].child] = lo[x]
  BY DEF Scanned
<1>9. count' \in Nat
  BY <1>3
<1>10. \A x \in Elements' : pos2[x] \in 1 .. count' /\ lo2[x] \in 1 .. pos2[x]
  BY <1>3, <1>4
<1>11. \A x, y \in Elements' : pos2[x] = pos2[y] => x = y
  BY <1>3, <1>4, <1>5
<1>12. ASSUME NEW k \in 1 .. count' PROVE \E x \in Elements' : pos2[x] = k
  <2>1. CASE k = lo[p]
    BY <1>4, <2>1
  <2>2. CASE k < lo[p]
    <3>1. k \in 1 .. count
      BY <1>3, <2>2
    <3>2. PICK x \in Elements : pos[x] = k
      BY <3>1 DEF Scanned
    <3> QED
      BY <1>3, <1>4, <2>2, <3>2
  <2>3. CASE k > lo[p]
    <3>1. k - 1 \in 1 .. count /\ k - 1 >= lo[p]
      BY <1>3, <2>3
    <3>2. PICK x \in Elements : pos[x] = k - 1
      BY <3>1 DEF Scanned
    <3> QED
      BY <1>3, <1>4, <3>1, <3>2
  <2> QED
    BY <1>3, <2>1, <2>2, <2>3
\* The places at and below two elements, one of them p, are nested or apart.
<1>13. \A x \in Elements : pos[x] >= lo[p] \/ pos[x] < lo[p]
  BY <1>3
<1>14. ASSUME NEW x \in Elements', NEW y \in Elements', pos2[x] < pos2[y]
       PROVE  \/ pos2[x] < lo2[y]
              \/ lo2[y] <= lo2[x] /\ rec'[x].parent # 0 /\ pos2[rec'[x].parent] <= pos2[y]
  <2>1. CASE x \in Elements /\ y \in Elements
    <3>1. pos[x] < pos[y]
      BY <1>3, <1>4, <1>14, <2>1
    <3>2. CASE pos[x] < lo[y]
      BY <1>3, <1>4, <2>1, <3>1, <3>2
    <3>3. CASE lo[y] <= lo[x] /\ rec[x].parent # 0 /\ pos[rec[x].parent] <= pos[y]
      <4>1. rec'[x].parent = rec[x].parent /\ rec[x].parent \in Elements
        BY <1>7, <2>1, <3>3
      <4>2. pos2[rec[x].parent] <= pos2[y]
        BY <1>3, <1>4, <2>1, <3>3, <4>1
      <4>3. lo2[y] <= lo2[x] \/ pos2[x] < lo2[y]
        BY <1>3, <1>4, <2>1, <3>1, <3>3
      <4> QED
        BY <3>3, <4>1, <4>2, <4>3
    <3> QED
      BY <1>6, <2>1, <3>1, <3>2, <3>3
  <2>2. CASE x = id /\ y \in Elements
    <3>1. pos[y] >= lo[p]
      BY <1>3, <1>4, <1>14, <2>2
    <3>2. CASE y = p
      BY <1>0, <1>3, <1>4, <2>2, <3>2
    <3>3. CASE y # p /\ pos[y] < pos[p]
      BY <1>3, <1>4, <1>6, <2>2, <3>1, <3>3
    <3>4. CASE y # p /\ pos[p] < pos[y]
      BY <1>0, <1>3, <1>4, <1>6, <2>2, <3>1, <3>4
    <3> QED
      BY <1>3, <1>5, <2>2, <3>2, <3>3, <3>4
  <2>3. CASE x \in Elements /\ y = id
    BY <1>3, <1>4, <1>14, <2>3
  <2> QED
    BY <1>3, <1>4, <1>14, <2>1, <2>2, <2>3
<1>15. ASSUME NEW x \in Elements'
       PROVE  IF rec'[x].parent = 0
              THEN x = first' /\ pos2[x] = count' /\ lo2[x] = 1 /\ rec'[x].brother = 0
              ELSE /\ rec'[x].parent \in Elements'
                   /\ pos2[x] < pos2[rec'[x].parent] /\ lo2[rec'[x].parent] <= lo2[x]
                   /\ IF rec'[x].brother = 0 THEN pos2[rec'[x].parent] = pos2[x] + 1
                      ELSE /\ rec'[x].brother \in Elements'
                           /\ rec'[rec'[x].brother].parent = rec'[x].parent
                           /\ lo2[rec'[x].brother] = pos2[x] + 1
  <2>1. CASE x \in Elements /\ rec[x].parent = 0
    <3>1. x = first /\ pos[x] = count /\ lo[x] = 1 /\ rec[x].brother = 0
      BY <1>7, <2>1
    <3>2. lo[p] >= 1 /\ pos[p] <= count
      BY <1>3
    <3> QED
      BY <1>3, <1>4, <2>1, <3>1, <3>2
  <2>2. CASE x \in Elements /\ rec[x].parent # 0
    <3> DEFINE q == rec[x].parent
               b == rec[x].brother
    <3>1. /\ q \in Elements /\ pos[x] < pos[q] /\ lo[q] <= lo[x]
          /\ IF b = 0 THEN pos[q] = pos[x] + 1
             ELSE b \in Elements /\ rec[b].parent = q /\ lo[b] = pos[x] + 1
      BY <1>7, <2>2
    <3>2. rec'[x].parent = q /\ rec'[x].brother = b
      BY <2>2
    <3> HIDE DEF q, b
    <3>3. pos2[x] < pos2[q]
      BY <1>3, <1>4, <2>2, <3>1
    <3>4. lo2[q] <= lo2[x]
      BY <1>3, <1>4, <2>2, <3>1
    <3>5. CASE b = 0
      <4>1. ~(pos[x] < lo[p] /\ lo[p] <= pos[q])
        BY <1>3, <1>5, <1>6, <2>2, <3>1, <3>5
      <4>2. pos2[q] = pos2[x] + 1
        BY <1>3, <1>4, <2>2, <3>1, <3>5, <4>1
      <4> QED
        BY <2>2, <3>1, <3>2, <3>3, <3>4, <3>5, <4>2
    <3>6. CASE b # 0
      <4>1. b \in Elements /\ rec'[b].parent = q /\ lo[b] = pos[x] + 1
        BY <3>1, <3>6
      <4>2. lo2[b] = pos2[x] + 1
        <5>1. CASE lo[b] # lo[p]
          BY <1>3, <1>4, <2>2, <4>1, <5>1
        <5>2. CASE lo[b] = lo[p] /\ pos[b] < pos[p]
          \* p lies within the parent of b, which contains x, before p.
          <6>1. pos[q] <= pos[p] /\ lo[p] <= lo[b]
            BY <1>3, <1>6, <3>1, <4>1, <5>2
          <6>2. lo[q] <= pos[x] /\ pos[x] < lo[p]
            BY <1>3, <2>2, <3>1, <4>1, <5>2
          <6>3. q # p
            BY <1>3, <2>2, <6>2
          <6>4. pos[q] < pos[p]
            BY <1>3, <1>5, <3>1, <6>1, <6>3
          <6>5. pos[q] < lo[p] \/ lo[p] <= lo[q]
            BY <1>6, <3>1, <6>4
          <6>6. pos[b] < pos[q] /\ lo[b] <= pos[b]
            BY <1>3, <1>7, <2>2, <3>1, <4>1
          <6> QED
            BY <1>3, <2>2, <3>1, <4>1, <5>2, <6>2, <6>5, <6>6
        <5>3. CASE lo[b] = lo[p] /\ pos[b] >= pos[p]
          BY <1>3, <1>4, <2>2, <4>1, <5>3
        <5> QED
          BY <1>3, <4>1, <5>1, <5>2, <5>3
      <4> QED
        BY <2>2, <3>1, <3>2, <3>3, <3>4, <3>6, <4>1, <4>2
    <3> QED
      BY <3>5, <3>6
  <2>3. CASE x = id
    <3>0. p # 0
      BY <1>0
    <3>1. pos2[p] = pos[p] + 1 /\ lo2[p] = lo[p]
      BY <1>3, <1>4
    <3>2. CASE rec[p].child = 0
      BY <1>3, <1>4, <1>8, <2>3, <3>0, <3>1, <3>2
    <3>3. CASE rec[p].child # 0
      <4>1. rec[p].child \in Elements /\ rec[rec[p].child].parent = p /\ lo[rec[p].child] = lo[p]
        BY <1>8, <3>3
      <4>2. pos[rec[p].child] < pos[p]
        BY <1>7, <3>0, <4>1
      <4>3. lo2[rec[p].child] = lo[p] + 1
        BY <1>3, <1>4, <4>1, <4>2
      <4> QED
        BY <1>3, <1>4, <2>3, <3>0, <3>1, <3>3, <4>1, <4>3
    <3> QED
      BY <3>2, <3>3
  <2> QED
    BY <2>1, <2>2, <2>3
<1>16. ASSUME NEW x \in Elements'
       PROVE  IF rec'[x].child = 0 THEN lo2[x] = pos2[x]
              ELSE /\ rec'[x].child \in Elements' /\ rec'[rec'[x].child].parent = x
                   /\ lo2[rec'[x].child] = lo2[x]
  <2>1. CASE x = id
    BY <1>4, <2>1
  <2>2. CASE x = p
    BY <1>3, <1>4, <2>2
  <2>3. CASE x \in Elements /\ x # p /\ rec[x].child = 0
    <3>1. lo[x] = pos[x] /\ rec'[x].child = 0
      BY <1>8, <2>3
    <3>2. pos[x] # pos[p]
      BY <1>5, <2>3
    <3>3. ~(lo[x] = lo[p] /\ pos[x] > pos[p])
      BY <1>3, <3>1
    <3> QED
      BY <1>3, <1>4, <2>3, <3>1, <3>2, <3>3
  <2>4. CASE x \in Elements /\ x # p /\ rec[x].child # 0
    <3> DEFINE c == rec[x].child
    <3>1. c \in Elements /\ rec[c].parent = x /\ lo[c] = lo[x] /\ rec'[x].child = c /\ rec'[c].parent = x
      BY <1>8, <2>4
    <3> HIDE DEF c
    <3>2. lo2[c] = lo2[x]
      <4>1. pos[c] < pos[x]
        BY <1>0, <1>7, <2>4, <3>1
      <4>2. ~(lo[c] = lo[p] /\ pos[c] < pos[p] /\ pos[p] <= pos[x])
        <5>1. SUFFICES ASSUME lo[c] = lo[p], pos[c] < pos[p], pos[p] <= pos[x] PROVE FALSE
          OBVIOUS
        <5>2. pos[x] <= pos[p]
          BY <1>3, <1>6, <3>1, <5>1
        <5>3. pos[x] = pos[p]
          BY <1>3, <2>4, <5>1, <5>2
        <5> QED
          BY <1>5, <2>4, <5>3
      <4> QED
        BY <1>3, <1>4, <2>4, <3>1, <4>1, <4>2
    <3> QED
      BY <2>4, <3>1, <3>2
  <2> QED
    BY <2>1, <2>2, <2>3, <2>4
<1>17. count' # 0 /\ first' \in Elements' /\ rec'[first'].parent = 0
  <2>1. count # 0
    BY <1>3
  <2>2. first \in Elements /\ rec[first].parent = 0
    BY <2>1 DEF Scanned
  <2> QED
    BY <1>3, <2>2
<1>18. Scanned(pos2, lo2)'
  BY <1>9, <1>10, <1>11, <1>12, <1>14, <1>15, <1>16, <1>17 DEF Scanned
<1> QED
  BY <1>18

\* The first element is the whole order.
LEMMA ScanRoot ==
  ASSUME NEW pos, NEW lo, Scanned(pos, lo), count = 0, NEW id, id # 0,
         Elements' = Elements \cup {id}, count' = count + 1, first' = id,
         rec'[id].parent = 0, rec'[id].child = 0, rec'[id].brother = 0
  PROVE  \E pos2, lo2 : Scanned(pos2, lo2)'
<1>1. Elements = {}
  BY DEF Scanned
<1>2. PICK pos2 : pos2 = [x \in {id} |-> 1]
  OBVIOUS
<1> HIDE DEF Elements
<1>3. Elements' = {id} /\ count' = 1 /\ pos2[id] = 1
  BY <1>1, <1>2
<1>4. Scanned(pos2, pos2)'
  BY <1>3 DEF Scanned
<1> QED
  BY <1>4

\* What the removal of a leaf does to the order: what came behind moves down.
LEMMA ScanLess ==
  ASSUME NEW pos, NEW lo, Scanned(pos, lo), NEW e \in Elements, rec[e].child = 0,
         Elements' = Elements \ {e}, count' = count - 1,
         first' = IF rec[e].parent = 0 THEN 0 ELSE first,
         \A x \in Elements \ {e} :
           /\ rec'[x].parent = rec[x].parent
           /\ rec'[x].child = IF rec[x].child = e THEN rec[e].brother ELSE rec[x].child
           /\ rec'[x].brother = IF rec[x].brother = e THEN rec[e].brother ELSE rec[x].brother
  PROVE  \E pos2, lo2 :
           /\ Scanned(pos2, lo2)'
           /\ \A x \in Elements' : pos2[x] = IF pos[x] > pos[e] THEN pos[x] - 1 ELSE pos[x]
<1>1. PICK pos2 : pos2 = [x \in Elements \ {e} |-> IF pos[x] > pos[e] THEN pos[x] - 1 ELSE pos[x]]
  OBVIOUS
<1>2. PICK lo2 : lo2 = [x \in Elements \ {e} |-> IF lo[x] > pos[e] THEN lo[x] - 1 ELSE lo[x]]
  OBVIOUS
<1>3. /\ count \in Nat
      /\ \A x \in Elements : pos[x] \in Int /\ lo[x] \in Int
      /\ \A x \in Elements : 1 <= lo[x] /\ lo[x] <= pos[x] /\ pos[x] <= count
      /\ lo[e] = pos[e]
  BY DEF Scanned
<1>0. 0 \notin Elements
  BY DEF Elements, Chunks
<1> HIDE DEF Elements
<1>4. /\ \A x \in Elements' : x \in Elements /\ x # e
      /\ \A x \in Elements' : pos2[x] = IF pos[x] > pos[e] THEN pos[x] - 1 ELSE pos[x]
      /\ \A x \in Elements' : lo2[x] = IF lo[x] > pos[e] THEN lo[x] - 1 ELSE lo[x]
  BY <1>1, <1>2
<1>5. \A x, y \in Elements : pos[x] = pos[y] => x = y
  BY DEF Scanned
<1>6. \A x, y \in Elements : pos[x] < pos[y] =>
        \/ pos[x] < lo[y]
        \/ lo[y] <= lo[x] /\ rec[x].parent # 0 /\ pos[rec[x].parent] <= pos[y]
  BY DEF Scanned
<1>7. \A x \in Elements :
        IF rec[x].parent = 0
        THEN x = first /\ pos[x] = count /\ lo[x] = 1 /\ rec[x].brother = 0
        ELSE /\ rec[x].parent \in Elements
             /\ pos[x] < pos[rec[x].parent] /\ lo[rec[x].parent] <= lo[x]
             /\ IF rec[x].brother = 0 THEN pos[rec[x].parent] = pos[x] + 1
                ELSE /\ rec[x].brother \in Elements /\ rec[rec[x].brother].parent = rec[x].parent
                     /\ lo[rec[x].brother] = pos[x] + 1
  BY DEF Scanned
<1>8. \A x \in Elements :
        IF rec[x].child = 0 THEN lo[x] = pos[x]
        ELSE /\ rec[x].child \in Elements /\ rec[rec[x].child].parent = x
             /\ lo[rec[x].child] = lo[x]
  BY DEF Scanned
<1>9. \A x \in Elements' : pos[x] # pos[e] /\ rec[x].parent # e
  <2>1. \A x \in Elements : rec[x].parent = e => lo[e] <= lo[x] /\ pos[x] < pos[e]
    BY <1>0, <1>7
  <2> QED
    BY <1>3, <1>4, <1>5, <2>1
<1>10. count \in Nat \ {0} /\ count' \in Nat /\ pos[e] \in 1 .. count
  BY <1>3
<1>11. \A x \in Elements' : pos2[x] \in 1 .. count' /\ lo2[x] \in 1 .. pos2[x]
  BY <1>3, <1>4, <1>9
<1>12. \A x, y \in Elements' : pos2[x] = pos2[y] => x = y
  BY <1>3, <1>4, <1>5, <1>9
<1>13. ASSUME NEW k \in 1 .. count' PROVE \E x \in Elements' : pos2[x] = k
  <2>1. CASE k < pos[e]
    <3>1. PICK x \in Elements : pos[x] = k
      BY <1>3, <1>10 DEF Scanned
    <3> QED
      BY <1>3, <1>4, <2>1, <3>1
  <2>2. CASE k >= pos[e]
    <3>1. PICK j \in 1 .. count : j = k + 1
      BY <1>10
    <3>2. PICK x \in Elements : pos[x] = j
      BY DEF Scanned
    <3>3. x # e /\ pos[x] > pos[e]
      BY <1>3, <2>2, <3>1, <3>2
    <3> QED
      BY <1>3, <1>4, <3>1, <3>2, <3>3
  <2> QED
    BY <1>3, <2>1, <2>2
<1>14. ASSUME NEW x \in Elements', NEW y \in Elements', pos2[x] < pos2[y]
       PROVE  \/ pos2[x] < lo2[y]
              \/ lo2[y] <= lo2[x] /\ rec'[x].parent # 0 /\ pos2[rec'[x].parent] <= pos2[y]
  <2>1. pos[x] < pos[y]
    BY <1>3, <1>4, <1>9, <1>14
  <2>2. CASE pos[x] < lo[y]
    BY <1>3, <1>4, <1>9, <2>1, <2>2
  <2>3. CASE lo[y] <= lo[x] /\ rec[x].parent # 0 /\ pos[rec[x].parent] <= pos[y]
    <3>1. rec'[x].parent = rec[x].parent /\ rec[x].parent \in Elements'
      BY <1>4, <1>7, <1>9, <2>3
    <3>2. pos2[rec[x].parent] <= pos2[y] /\ lo2[y] <= lo2[x]
      BY <1>3, <1>4, <1>9, <2>3, <3>1
    <3> QED
      BY <2>3, <3>1, <3>2
  <2> QED
    BY <1>4, <1>6, <2>1, <2>2, <2>3
<1>15. ASSUME NEW x \in Elements'
       PROVE  IF rec'[x].parent = 0
              THEN x = first' /\ pos2[x] = count' /\ lo2[x] = 1 /\ rec'[x].brother = 0
              ELSE /\ rec'[x].parent \in Elements'
                   /\ pos2[x] < pos2[rec'[x].parent] /\ lo2[rec'[x].parent] <= lo2[x]
                   /\ IF rec'[x].brother = 0 THEN pos2[rec'[x].parent] = pos2[x] + 1
                      ELSE /\ rec'[x].brother \in Elements'
                           /\ rec'[rec'[x].brother].parent = rec'[x].parent
                           /\ lo2[rec'[x].brother] = pos2[x] + 1
  <2>0. x \in Elements /\ x # e /\ rec'[x].parent = rec[x].parent /\ pos[x] # pos[e]
    BY <1>4, <1>9
  <2>1. CASE rec[x].parent = 0
    <3>1. x = first /\ pos[x] = count /\ lo[x] = 1 /\ rec[x].brother = 0
      BY <1>7, <2>0, <2>1
    <3>2. rec[e].parent # 0
      BY <1>7, <2>0, <3>1
    <3>3. pos[x] > pos[e] /\ ~(lo[x] > pos[e])
      BY <1>3, <2>0, <3>1
    <3> QED
      BY <1>0, <1>3, <1>4, <2>0, <2>1, <3>1, <3>2, <3>3
  <2>2. CASE rec[x].parent # 0
    <3> DEFINE q == rec[x].parent
               b == rec[x].brother
    <3>1. /\ q \in Elements' /\ q \in Elements /\ pos[x] < pos[q] /\ lo[q] <= lo[x]
          /\ IF b = 0 THEN pos[q] = pos[x] + 1
             ELSE b \in Elements /\ rec[b].parent = q /\ lo[b] = pos[x] + 1
      BY <1>7, <1>9, <2>0, <2>2
    <3>2. rec'[x].parent = q /\ rec'[x].brother = (IF b = e THEN rec[e].brother ELSE b)
      BY <2>0
    <3>3. pos[q] # pos[e]
      BY <1>9, <3>1
    <3> HIDE DEF q, b
    <3>4. pos2[x] < pos2[q] /\ lo2[q] <= lo2[x]
      BY <1>3, <1>4, <2>0, <3>1, <3>3
    <3>5. CASE b = 0
      <4>1. pos2[q] = pos2[x] + 1
        BY <1>3, <1>4, <2>0, <3>1, <3>3, <3>5
      <4> QED
        BY <1>0, <2>2, <3>1, <3>2, <3>4, <3>5, <4>1
    <3>6. CASE b # 0 /\ b # e
      <4>1. b \in Elements' /\ b \in Elements /\ rec'[b].parent = q /\ lo[b] = pos[x] + 1
        BY <3>1, <3>6
      <4>2. lo2[b] = pos2[x] + 1
        BY <1>3, <1>4, <2>0, <4>1
      <4> QED
        BY <2>2, <3>1, <3>2, <3>4, <3>6, <4>1, <4>2
    <3>7. CASE b = e
      <4>1. rec[e].parent = q /\ pos[e] = pos[x] + 1 /\ q # 0
        BY <1>0, <1>3, <3>1, <3>7
      <4>2. pos2[x] = pos[x]
        BY <1>3, <1>4, <2>0, <4>1
      <4>3. CASE rec[e].brother = 0
        <5>1. pos[q] = pos[e] + 1
          BY <1>7, <4>1, <4>3
        <5>2. pos2[q] = pos[q] - 1
          BY <1>3, <1>4, <3>1, <5>1
        <5> QED
          BY <1>3, <2>0, <3>1, <3>2, <3>4, <3>7, <4>1, <4>2, <4>3, <5>1, <5>2
      <4>4. CASE rec[e].brother # 0
        <5>1. rec[e].brother \in Elements /\ rec[rec[e].brother].parent = q /\ lo[rec[e].brother] = pos[e] + 1
          BY <1>7, <4>1, <4>4
        <5>2. rec[e].brother # e
          BY <1>3, <5>1
        <5>3. rec[e].brother \in Elements' /\ rec'[rec[e].brother].parent = q
          BY <5>1, <5>2
        <5>4. lo2[rec[e].brother] = pos2[x] + 1
          BY <1>3, <1>4, <2>0, <4>1, <4>2, <5>1, <5>3
        <5> QED
          BY <3>1, <3>2, <3>4, <3>7, <4>1, <4>4, <5>3, <5>4
      <4> QED
        BY <4>3, <4>4
    <3> QED
      BY <3>5, <3>6, <3>7
  <2> QED
    BY <2>1, <2>2
<1>16. ASSUME NEW x \in Elements'
       PROVE  IF rec'[x].child = 0 THEN lo2[x] = pos2[x]
              ELSE /\ rec'[x].child \in Elements' /\ rec'[rec'[x].child].parent = x
                   /\ lo2[rec'[x].child] = lo2[x]
  <2>0. x \in Elements /\ x # e /\ pos[x] # pos[e]
        /\ rec'[x].child = IF rec[x].child = e THEN rec[e].brother ELSE rec[x].child
    BY <1>4, <1>9
  <2>1. CASE rec[x].child = 0
    BY <1>0, <1>3, <1>4, <1>8, <2>0, <2>1
  <2>2. CASE rec[x].child # 0 /\ rec[x].child # e
    <3> DEFINE c == rec[x].child
    <3>1. c \in Elements /\ c # e /\ rec[c].parent = x /\ lo[c] = lo[x] /\ rec'[x].child = c /\ c # 0
      BY <1>8, <2>0, <2>2
    <3> HIDE DEF c
    <3>2. c \in Elements' /\ rec'[c].parent = x
      BY <3>1
    <3>3. lo2[c] = lo2[x]
      BY <1>4, <2>0, <3>1, <3>2
    <3> QED
      BY <3>1, <3>2, <3>3
  <2>3. CASE rec[x].child = e
    <3>1. rec[e].parent = x /\ lo[e] = lo[x] /\ x # 0 /\ rec'[x].child = rec[e].brother
      BY <1>0, <1>8, <2>0, <2>3
    <3>2. lo2[x] = lo[x]
      BY <1>3, <1>4, <3>1
    <3>3. CASE rec[e].brother = 0
      <4>1. pos[x] = pos[e] + 1
        BY <1>7, <3>1, <3>3
      <4> QED
        BY <1>3, <1>4, <2>0, <3>1, <3>2, <3>3, <4>1
    <3>4. CASE rec[e].brother # 0
      <4>1. rec[e].brother \in Elements /\ rec[rec[e].brother].parent = x /\ lo[rec[e].brother] = pos[e] + 1
        BY <1>7, <3>1, <3>4
      <4>2. rec[e].brother # e
        BY <1>3, <4>1
      <4>3. rec[e].brother \in Elements' /\ rec'[rec[e].brother].parent = x
        BY <4>1, <4>2
      <4>4. lo2[rec[e].brother] = lo2[x]
        BY <1>3, <1>4, <3>1, <3>2, <4>1, <4>3
      <4> QED
        BY <3>1, <3>4, <4>3, <4>4
    <3> QED
      BY <3>3, <3>4
  <2> QED
    BY <2>1, <2>2, <2>3
<1>17. IF count' = 0 THEN first' = 0 ELSE first' \in Elements' /\ rec'[first'].parent = 0
  <2>1. first \in Elements /\ rec[first].parent = 0
    BY <1>10 DEF Scanned
  <2>2. CASE rec[e].parent = 0
    <3>1. pos[e] = count /\ lo[e] = 1
      BY <1>7, <2>2
    <3> QED
      BY <1>3, <2>2, <3>1
  <2>3. CASE rec[e].parent # 0
    <3>1. first # e /\ pos[first] # pos[e]
      BY <1>5, <2>1, <2>3
    <3>2. count # 1
      BY <1>3, <2>1, <3>1
    <3> QED
      BY <1>10, <2>1, <2>3, <3>1, <3>2
  <2> QED
    BY <2>2, <2>3
<1>18. Scanned(pos2, lo2)'
  BY <1>10, <1>11, <1>12, <1>13, <1>14, <1>15, <1>16, <1>17 DEF Scanned
<1> QED
  BY <1>4, <1>18

-----------------------------------------------------------------------------
(* The iterator and the walks.                                             *)

\* There are count elements.
LEMMA ScanCount ==
  ASSUME NEW pos, NEW lo, Scanned(pos, lo)
  PROVE  /\ IsFiniteSet(Elements) /\ Cardinality(Elements) = count
         /\ count \in Nat /\ MaxChunks \in Nat /\ count <= MaxChunks
<1>1. IsFiniteSet(Chunks) /\ Cardinality(Chunks) = MaxChunks /\ MaxChunks \in Nat
  BY SizesAssumption, FS_Interval DEF Chunks
<1>2. /\ IsFiniteSet(Elements) /\ Cardinality(Elements) <= MaxChunks
      /\ Cardinality(Elements) \in Nat
  <2>1. Elements \subseteq Chunks
    BY DEF Elements
  <2> QED
    BY <1>1, <2>1, FS_Subset, FS_CardinalityType
<1>3. count = Cardinality(Elements)
  <2> DEFINE S == 1 .. count
             B == Elements
             f == [x \in B |-> pos[x]]
  <2>1. IsFiniteSet(S) /\ Cardinality(S) = count
    BY FS_Interval DEF Scanned
  <2>2. \A x \in B : pos[x] \in S
    BY DEF Scanned
  <2>3. /\ \A x, y \in B : pos[x] = pos[y] => x = y
        /\ \A k \in S : \E x \in B : pos[x] = k
    BY DEF Scanned
  <2>4. IsFiniteSet(B)
    BY <1>2
  <2> HIDE DEF S, B
  <2>5. f \in Bijection(B, S)
    BY <2>2, <2>3 DEF Bijection, Injection, Surjection, IsInjective
  <2>6. Cardinality(S) = Cardinality(B)
    BY <2>4, <2>5, FS_Bijection DEF ExistsBijection
  <2> QED
    BY <2>1, <2>6 DEF B
<1> QED
  BY <1>1, <1>2, <1>3

\* The walk down from x: where each step stays in S, it is a walk in S.
LEMMA DownWalk ==
  ASSUME NEW S, NEW x \in S, NEW step, step = [d \in S |-> IF rec[d].child = 0 THEN d ELSE rec[d].child],
         \A d \in S : step[d] \in S
  PROVE  \E f : IsWalk(f, MaxChunks, S, x, step) /\ Down(x) = f[MaxChunks]
<1> DEFINE N == MaxChunks
           at[k \in 0 .. N] ==
             IF k = 0 THEN x
             ELSE LET d == at[k - 1] IN IF rec[d].child = 0 THEN d ELSE rec[d].child
<1>1. N \in Nat
  BY SizesAssumption
<1>2. \A d \in S : step[d] = IF rec[d].child = 0 THEN d ELSE rec[d].child
  OBVIOUS
<1>3. Down(x) = at[N]
  BY DEF Down
<1> HIDE DEF N
<1>4. PICK f : IsWalk(f, N, S, x, step)
  <2>1. step \in Steps(S)
    BY DEF Steps
  <2> QED
    BY <1>1, <2>1, Iterate
<1>5. f \in [0 .. N -> S] /\ f[0] = x /\ \A k \in 1 .. N : f[k] = step[f[k - 1]]
  BY <1>4 DEF IsWalk
<1>6. ASSUME NEW k \in 0 .. N
      PROVE  f[k] = IF k = 0 THEN x
                    ELSE LET d == f[k - 1] IN IF rec[d].child = 0 THEN d ELSE rec[d].child
  <2>1. CASE k = 0
    BY <1>5, <2>1
  <2>2. CASE k # 0
    <3>1. k \in 1 .. N /\ f[k - 1] \in S
      BY <1>1, <1>5, <2>2
    <3> QED
      BY <1>2, <1>5, <2>2, <3>1
  <2> QED
    BY <2>1, <2>2
<1>7. f = [k \in 0 .. N |-> IF k = 0 THEN x
             ELSE LET d == f[k - 1] IN IF rec[d].child = 0 THEN d ELSE rec[d].child]
  BY <1>5, <1>6
<1>8. \E g : g = [k \in 0 .. N |-> IF k = 0 THEN x
                   ELSE LET d == g[k - 1] IN IF rec[d].child = 0 THEN d ELSE rec[d].child]
  BY <1>7, Zenon
<1>9. at = [k \in 0 .. N |-> IF k = 0 THEN x
              ELSE LET d == at[k - 1] IN IF rec[d].child = 0 THEN d ELSE rec[d].child]
  BY <1>8, Zenon
<1> HIDE DEF at
<1> DEFINE T == {k \in 0 .. N : at[k] = f[k]}
<1>10. 0 \in T
  BY <1>1, <1>5, <1>9
<1>11. ASSUME NEW k \in 0 .. N - 1, k \in T PROVE k + 1 \in T
  <2>1. PICK j : j = k + 1
    OBVIOUS
  <2>2. j \in 0 .. N /\ j # 0 /\ j - 1 = k
    BY <1>1, <2>1
  <2>3. at[k] = f[k]
    BY <1>11
  <2>4. at[j] = LET d == at[j - 1] IN IF rec[d].child = 0 THEN d ELSE rec[d].child
    BY <1>9, <2>2
  <2>5. f[j] = LET d == f[j - 1] IN IF rec[d].child = 0 THEN d ELSE rec[d].child
    BY <1>6, <2>2
  <2>6. at[j] = f[j]
    BY <2>2, <2>3, <2>4, <2>5
  <2> QED
    BY <2>1, <2>2, <2>6
<1> HIDE DEF T
<1>12. N \in T
  <2>1. \A k \in 0 .. N : k \in T
    BY <1>1, <1>10, <1>11, UpTo
  <2> QED
    BY <1>1, <2>1
<1>13. at[N] = f[N]
  BY <1>12 DEF T
<1> QED
  BY <1>3, <1>4, <1>13 DEF N

\* The walk down from x ends at the first element visited at or below x.
LEMMA DownIs ==
  ASSUME NEW pos, NEW lo, Scanned(pos, lo), NEW x \in Elements
  PROVE  Down(x) \in Elements /\ pos[Down(x)] = lo[x]
<1> DEFINE N == MaxChunks
           E == Elements
<1>1. N \in Nat /\ count \in Nat /\ count <= N
  BY ScanCount
<1>2. /\ \A y \in E : pos[y] \in Int /\ lo[y] \in Int
      /\ \A y \in E : 1 <= lo[y] /\ lo[y] <= pos[y] /\ pos[y] <= count
  BY DEF Scanned
<1> PICK step : step = [d \in E |-> IF rec[d].child = 0 THEN d ELSE rec[d].child]
  OBVIOUS
<1>3. \A y \in E : step[y] = (IF rec[y].child = 0 THEN y ELSE rec[y].child) /\ step[y] \in E
  BY DEF Scanned
<1>4. \A y \in E : /\ lo[step[y]] = lo[y]
                   /\ pos[step[y]] < pos[y] \/ (step[y] = y /\ pos[y] = lo[y])
  <2>1. 0 \notin E
    BY DEF Elements, Chunks
  <2> QED
    BY <1>2, <1>3, <2>1 DEF Scanned
<1> HIDE DEF N, E
<1>5. PICK f : IsWalk(f, N, E, x, step) /\ Down(x) = f[N]
  <2>1. x \in E
    BY DEF E
  <2>2. \A d \in E : step[d] \in E
    BY <1>3
  <2> QED
    BY <2>1, <2>2, DownWalk DEF N
<1>6. f \in [0 .. N -> E] /\ f[0] = x /\ \A k \in 1 .. N : f[k] = step[f[k - 1]]
  BY <1>5 DEF IsWalk
<1>7. x \in E
  BY DEF E
<1> DEFINE T == {k \in 0 .. N : /\ f[k] \in E /\ lo[f[k]] = lo[x]
                                /\ pos[f[k]] + k <= pos[x] \/ pos[f[k]] = lo[x]}
<1>8. 0 \in T
  BY <1>1, <1>2, <1>6, <1>7
<1>9. ASSUME NEW k \in 0 .. N - 1, k \in T PROVE k + 1 \in T
  <2>1. PICK j : j = k + 1
    OBVIOUS
  <2>2. j \in 1 .. N /\ j - 1 = k /\ k \in Nat
    BY <1>1, <2>1
  <2>3. /\ f[k] \in E /\ lo[f[k]] = lo[x]
        /\ pos[f[k]] + k <= pos[x] \/ pos[f[k]] = lo[x]
    BY <1>9
  <2>4. f[j] = step[f[k]]
    BY <1>6, <2>2
  <2>5. f[j] \in E /\ lo[f[j]] = lo[x]
    BY <1>3, <1>4, <2>3, <2>4
  <2>6. pos[f[j]] + j <= pos[x] \/ pos[f[j]] = lo[x]
    BY <1>2, <1>4, <1>7, <2>1, <2>2, <2>3, <2>4, <2>5
  <2> QED
    BY <2>1, <2>2, <2>5, <2>6
<1> HIDE DEF T
<1>10. N \in T
  <2>1. N \in Nat
    BY <1>1
  <2>2. \A n \in 0 .. N - 1 : n \in T => n + 1 \in T
    BY <1>9
  <2>3. \A n \in 0 .. N : n \in T
    BY <1>8, <2>1, <2>2, UpTo
  <2> QED
    BY <2>1, <2>3
<1>11. f[N] \in E /\ pos[f[N]] = lo[x]
  BY <1>1, <1>2, <1>7, <1>10 DEF T
<1> QED
  BY <1>5, <1>11 DEF E

\* The element after x is the one at the next place, and 0 after the root.
LEMMA AfterIs ==
  ASSUME NEW pos, NEW lo, Scanned(pos, lo), NEW x \in Elements
  PROVE  IF pos[x] = count THEN After(x) = 0
         ELSE After(x) \in Elements /\ pos[After(x)] = pos[x] + 1
<1>0. 0 \notin Elements
  BY DEF Elements, Chunks
<1>1. /\ count \in Nat
      /\ \A y \in Elements : pos[y] \in Int /\ lo[y] \in Int
      /\ \A y \in Elements : 1 <= lo[y] /\ lo[y] <= pos[y] /\ pos[y] <= count
  BY DEF Scanned
<1>2. IF rec[x].parent = 0
      THEN x = first /\ pos[x] = count /\ lo[x] = 1 /\ rec[x].brother = 0
      ELSE /\ rec[x].parent \in Elements
           /\ pos[x] < pos[rec[x].parent] /\ lo[rec[x].parent] <= lo[x]
           /\ IF rec[x].brother = 0 THEN pos[rec[x].parent] = pos[x] + 1
              ELSE /\ rec[x].brother \in Elements /\ rec[rec[x].brother].parent = rec[x].parent
                   /\ lo[rec[x].brother] = pos[x] + 1
  BY DEF Scanned
<1>3. CASE rec[x].parent = 0
  BY <1>2, <1>3 DEF After
<1>4. CASE rec[x].parent # 0 /\ rec[x].brother = 0
  BY <1>1, <1>2, <1>4 DEF After
<1>5. CASE rec[x].parent # 0 /\ rec[x].brother # 0
  <2>1. rec[x].brother \in Elements /\ lo[rec[x].brother] = pos[x] + 1 /\ rec[x].parent \in Elements
        /\ pos[x] < pos[rec[x].parent]
    BY <1>2, <1>5
  <2>2. Down(rec[x].brother) \in Elements /\ pos[Down(rec[x].brother)] = lo[rec[x].brother]
    BY <2>1, DownIs
  <2> QED
    BY <1>1, <1>5, <2>1, <2>2 DEF After
<1> QED
  BY <1>3, <1>4, <1>5

\* It begins at the first place.
LEMMA BeginIs ==
  ASSUME NEW pos, NEW lo, Scanned(pos, lo)
  PROVE  IF count = 0 THEN Begin = 0 ELSE Begin \in Elements /\ pos[Begin] = 1
<1>1. 0 \notin Elements
  BY DEF Elements, Chunks
<1>2. CASE count = 0
  BY <1>2 DEF Begin, Scanned
<1>3. CASE count # 0
  <2>1. first \in Elements /\ rec[first].parent = 0
    BY <1>3 DEF Scanned
  <2>2. lo[first] = 1
    BY <2>1 DEF Scanned
  <2>3. Down(first) \in Elements /\ pos[Down(first)] = lo[first]
    BY <2>1, DownIs
  <2> QED
    BY <1>1, <1>3, <2>1, <2>2, <2>3 DEF Begin
<1> QED
  BY <1>2, <1>3

\* The loop of GetElements meets the elements in the order of their places, and
\* 0 behind the last.
LEMMA OrderIs ==
  ASSUME NEW pos, NEW lo, Scanned(pos, lo)
  PROVE  /\ \A k \in 1 .. count : Order[k] \in Elements /\ pos[Order[k]] = k
         /\ Order[count + 1] = 0
<1> DEFINE M == count + 1
           E == Elements
           w == [k \in 1 .. M |-> IF k = M THEN 0 ELSE CHOOSE x \in E : pos[x] = k]
           at[k \in 1 .. M] ==
             IF k = 1 THEN Begin ELSE LET e == at[k - 1] IN IF e = 0 THEN 0 ELSE After(e)
<1>0. 0 \notin E /\ count \in Nat
  BY DEF Scanned, Elements, Chunks
<1>1. /\ \A y \in E : pos[y] \in 1 .. count
      /\ \A x, y \in E : pos[x] = pos[y] => x = y
      /\ \A k \in 1 .. count : \E x \in E : pos[x] = k
  BY DEF Scanned
<1>2. \A x \in E : IF pos[x] = count THEN After(x) = 0
                   ELSE After(x) \in E /\ pos[After(x)] = pos[x] + 1
  BY AfterIs
<1>3. IF count = 0 THEN Begin = 0 ELSE Begin \in E /\ pos[Begin] = 1
  BY BeginIs
<1> HIDE DEF E
<1>4. M \in Nat /\ M >= 1 /\ M \notin 1 .. count /\ \A k \in 1 .. M : k = M \/ k \in 1 .. count
  BY <1>0
<1>5. /\ w[M] = 0 /\ DOMAIN w = 1 .. M /\ \A k \in 1 .. count : w[k] \in E /\ pos[w[k]] = k
  <2>1. \A k \in 1 .. count : k \in 1 .. M /\ k # M
    BY <1>4, <1>0
  <2> QED
    BY <1>1, <1>4, <2>1
<1>6. w = [k \in 1 .. M |-> w[k]]
  OBVIOUS
<1> HIDE DEF w, M
<1>7. ASSUME NEW k \in 1 .. M
      PROVE  w[k] = IF k = 1 THEN Begin
                    ELSE LET e == w[k - 1] IN IF e = 0 THEN 0 ELSE After(e)
  <2>1. CASE k = 1
    <3>1. CASE count = 0
      BY <1>3, <1>5, <2>1, <3>1 DEF M
    <3>2. CASE count # 0
      <4>1. 1 \in 1 .. count
        BY <1>0, <3>2
      <4> QED
        BY <1>1, <1>3, <1>5, <2>1, <3>2, <4>1
    <3> QED
      BY <3>1, <3>2
  <2>2. CASE k # 1
    <3>1. PICK j : j = k - 1
      OBVIOUS
    <3>2. j \in 1 .. count /\ k = j + 1
      BY <1>4, <2>2, <3>1, <1>0 DEF M
    <3>3. w[j] \in E /\ pos[w[j]] = j /\ w[j] # 0
      BY <1>0, <1>5, <3>2
    <3>4. CASE j = count
      BY <1>2, <1>5, <2>2, <3>1, <3>2, <3>3, <3>4 DEF M
    <3>5. CASE j # count
      <4>1. k \in 1 .. count
        BY <1>0, <3>2, <3>5
      <4>2. w[k] \in E /\ pos[w[k]] = k /\ After(w[j]) \in E /\ pos[After(w[j])] = k
        BY <1>2, <1>5, <3>2, <3>3, <3>5, <4>1
      <4> QED
        BY <1>1, <2>2, <3>1, <3>3, <4>2
    <3> QED
      BY <3>4, <3>5
  <2> QED
    BY <2>1, <2>2
<1>8. \E g : g = [k \in 1 .. M |-> IF k = 1 THEN Begin
                   ELSE LET e == g[k - 1] IN IF e = 0 THEN 0 ELSE After(e)]
  <2>1. w = [k \in 1 .. M |-> IF k = 1 THEN Begin
               ELSE LET e == w[k - 1] IN IF e = 0 THEN 0 ELSE After(e)]
    BY <1>6, <1>7
  <2> QED
    BY <2>1
<1>9. at = [k \in 1 .. M |-> IF k = 1 THEN Begin
              ELSE LET e == at[k - 1] IN IF e = 0 THEN 0 ELSE After(e)]
  BY <1>8, Zenon
<1>10. Order = at
  BY DEF Order, M
<1> HIDE DEF at
<1> DEFINE T == {k \in 0 .. count : at[k + 1] = w[k + 1]}
<1>11. 0 \in T
  <2>1. 0 \in 0 .. count /\ 0 + 1 = 1 /\ 1 \in 1 .. M
    BY <1>0, <1>4
  <2> QED
    BY <1>7, <1>9, <2>1
<1>12. ASSUME NEW k \in 0 .. count - 1, k \in T PROVE k + 1 \in T
  <2>1. PICK j : j = k + 1
    OBVIOUS
  <2>2. j \in 0 .. count /\ j + 1 \in 1 .. M /\ (j + 1) - 1 = j /\ j + 1 # 1
    BY <1>0, <2>1 DEF M
  <2>3. at[j] = w[j]
    BY <1>12, <2>1
  <2>6. PICK m : m = j + 1
    OBVIOUS
  <2>7. m \in 1 .. M /\ m # 1 /\ m - 1 = j
    BY <2>2, <2>6
  <2>4. /\ at[m] = (IF at[j] = 0 THEN 0 ELSE After(at[j]))
        /\ w[m] = (IF w[j] = 0 THEN 0 ELSE After(w[j]))
    <3>1. at[m] = LET e == at[m - 1] IN IF e = 0 THEN 0 ELSE After(e)
      BY <1>9, <2>7
    <3>2. w[m] = LET e == w[m - 1] IN IF e = 0 THEN 0 ELSE After(e)
      BY <1>7, <2>7
    <3> QED
      BY <2>7, <3>1, <3>2
  <2>5. at[j + 1] = w[j + 1]
    BY <2>3, <2>4, <2>6
  <2> QED
    BY <2>1, <2>2, <2>5
<1> HIDE DEF T
<1>13. \A k \in 0 .. count : k \in T
  BY <1>0, <1>11, <1>12, UpTo
<1>14. ASSUME NEW k \in 1 .. M PROVE Order[k] = w[k]
  <2>1. PICK j \in 0 .. count : k = j + 1
    BY <1>0 DEF M
  <2> QED
    BY <1>10, <1>13, <2>1 DEF T
<1>15. \A k \in 1 .. count : k \in 1 .. M
  BY <1>0 DEF M
<1>16. M \in 1 .. M
  BY <1>4
<1> QED
  BY <1>5, <1>14, <1>15, <1>16 DEF E, M

\* A leaf is the parent of nothing, and a child comes before its parent.
LEMMA Leafless ==
  ASSUME NEW pos, NEW lo, Scanned(pos, lo), NEW x \in Elements, rec[x].child = 0
  PROVE  \A y \in Elements : rec[y].parent # x
<1> SUFFICES ASSUME NEW y \in Elements, rec[y].parent = x PROVE FALSE
  OBVIOUS
<1>1. /\ pos[x] \in Int /\ lo[x] \in Int /\ pos[y] \in Int /\ lo[y] \in Int
      /\ lo[y] <= pos[y] /\ x # 0
  BY DEF Scanned, Elements, Chunks
<1>2. pos[y] < pos[x] /\ lo[x] <= lo[y]
  BY <1>1 DEF Scanned
<1>3. lo[x] = pos[x]
  BY DEF Scanned
<1> QED
  BY <1>1, <1>2, <1>3

-----------------------------------------------------------------------------
(* What DeleteElements must keep.                                          *)

\* Above(e) is e and what lies above it.
LEMMA AboveIs ==
  ASSUME NEW pos, NEW lo, Scanned(pos, lo), NEW e \in Elements
  PROVE  /\ Above(e) \subseteq Elements /\ e \in Above(e)
         /\ \A y \in Above(e) : rec[y].parent = 0 \/ rec[y].parent \in Above(e)
         /\ \A x \in Above(e) : x = e \/ \E y \in Above(e) : rec[y].parent = x
<1> DEFINE N == count
           E == Elements
           par(es) == {rec[x].parent : x \in es \ {0}}
           at[k \in 0 .. N] ==
             IF k = 0 THEN {e} ELSE LET es == at[k - 1] IN es \cup {rec[x].parent : x \in es \ {0}}
<1>1. N \in Nat /\ 0 \notin E
  BY DEF Scanned, Elements, Chunks
<1>2. \A y \in E : pos[y] \in Int /\ 1 <= pos[y] /\ pos[y] <= N
  BY DEF Scanned
<1>3. \A y \in E : rec[y].parent = 0 \/ (rec[y].parent \in E /\ pos[y] < pos[rec[y].parent])
  BY DEF Scanned
<1>4. Above(e) = at[N] \ {0}
  BY DEF Above
<1>5. e \in E
  OBVIOUS
<1> HIDE DEF N, E
<1> DEFINE S == SUBSET (E \cup {0})
<1> PICK step : step = [es \in S |-> es \cup {rec[x].parent : x \in es \ {0}}]
  OBVIOUS
<1>6. \A es \in S : step[es] = es \cup {rec[x].parent : x \in es \ {0}}
  OBVIOUS
<1>7. \A es \in S : step[es] \in S
  BY <1>3, <1>6
<1>8. {e} \in S
  BY <1>5
<1> HIDE DEF S
<1>9. PICK f : f \in [0 .. N -> S] /\ f[0] = {e} /\ \A k \in 1 .. N : f[k] = step[f[k - 1]]
  <2>1. step \in Steps(S)
    BY <1>7 DEF Steps
  <2>2. \E f : IsWalk(f, N, S, {e}, step)
    BY <1>1, <1>8, <2>1, Iterate
  <2> QED
    BY <2>2 DEF IsWalk
<1>10. ASSUME NEW k \in 0 .. N
       PROVE  f[k] = IF k = 0 THEN {e}
                     ELSE LET es == f[k - 1] IN es \cup {rec[x].parent : x \in es \ {0}}
  <2>1. CASE k = 0
    BY <1>9, <2>1
  <2>2. CASE k # 0
    <3>1. k \in 1 .. N /\ f[k - 1] \in S
      BY <1>1, <1>9, <2>2
    <3>2. step[f[k - 1]] = f[k - 1] \cup {rec[x].parent : x \in f[k - 1] \ {0}}
      BY <1>6, <3>1, Zenon
    <3>3. f[k] = f[k - 1] \cup {rec[x].parent : x \in f[k - 1] \ {0}}
      BY <1>9, <3>1, <3>2, Zenon
    <3> QED
      BY <2>2, <3>3, Zenon
  <2> QED
    BY <2>1, <2>2
<1>11. f = [k \in 0 .. N |-> f[k]]
  BY <1>9
<1>12. f = [k \in 0 .. N |-> IF k = 0 THEN {e}
              ELSE LET es == f[k - 1] IN es \cup {rec[x].parent : x \in es \ {0}}]
  BY <1>10, <1>11, Zenon
<1>13. \E g : g = [k \in 0 .. N |-> IF k = 0 THEN {e}
              ELSE LET es == g[k - 1] IN es \cup {rec[x].parent : x \in es \ {0}}]
  BY <1>12, Zenon
<1>14. at = [k \in 0 .. N |-> IF k = 0 THEN {e}
              ELSE LET es == at[k - 1] IN es \cup {rec[x].parent : x \in es \ {0}}]
  BY <1>13, Zenon
<1> HIDE DEF at
<1>15. at[0] = {e}
  BY <1>1, <1>14
<1>16. ASSUME NEW k \in 0 .. N - 1
       PROVE  \E j : j = k + 1 /\ j \in 0 .. N /\ at[j] = at[k] \cup par(at[k])
  <2>1. PICK j : j = k + 1
    OBVIOUS
  <2>2. j \in 0 .. N /\ j # 0 /\ j - 1 = k
    BY <1>1, <2>1
  <2>3. at[j] = LET es == at[j - 1] IN es \cup {rec[x].parent : x \in es \ {0}}
    BY <1>14, <2>2, Zenon
  <2>4. at[j] = at[k] \cup par(at[k])
    BY <2>2, <2>3
  <2> QED
    BY <2>1, <2>2, <2>4
<1> DEFINE T == {k \in 0 .. N :
                   /\ at[k] \subseteq E \cup {0} /\ e \in at[k]
                   /\ \A y \in at[k] \ {0} : rec[y].parent \in at[k] \cup {0} \/ pos[y] >= k + 1
                   /\ \A x \in at[k] \ {0} : x = e \/ \E y \in at[k] \ {0} : rec[y].parent = x}
<1>17. 0 \in T
  BY <1>1, <1>2, <1>5, <1>15
<1>18. ASSUME NEW k \in 0 .. N - 1, k \in T PROVE k + 1 \in T
  <2>1. PICK j : j = k + 1 /\ j \in 0 .. N /\ at[j] = at[k] \cup par(at[k])
    BY <1>16
  <2>2. /\ at[k] \subseteq E \cup {0} /\ e \in at[k]
        /\ \A y \in at[k] \ {0} : rec[y].parent \in at[k] \cup {0} \/ pos[y] >= k + 1
        /\ \A x \in at[k] \ {0} : x = e \/ \E y \in at[k] \ {0} : rec[y].parent = x
    BY <1>18
  <2>3. \A x \in at[j] : x \in at[k] \/ \E y \in at[k] \ {0} : rec[y].parent = x
    BY <2>1
  <2>4. \A y \in at[k] : y # 0 => y \in E /\ y \in at[j] /\ rec[y].parent \in at[j]
    BY <2>1, <2>2
  <2>5. at[j] \subseteq E \cup {0} /\ e \in at[j]
    <3>1. e \in at[j]
      BY <1>1, <1>5, <2>2, <2>4
    <3>2. ASSUME NEW x \in at[j] PROVE x \in E \cup {0}
      BY <1>3, <2>2, <2>3, <2>4
    <3> QED
      BY <3>1, <3>2
  <2>6. ASSUME NEW y \in at[j] \ {0} PROVE rec[y].parent \in at[j] \cup {0} \/ pos[y] >= j + 1
    <3>1. CASE y \in at[k]
      BY <2>4, <3>1
    <3>2. CASE y \notin at[k]
      <4>1. PICK z \in at[k] \ {0} : rec[z].parent = y
        BY <2>3, <3>2
      <4>2. z \in E /\ y \in E /\ pos[z] >= k + 1 /\ pos[z] < pos[y]
        BY <1>3, <2>2, <2>4, <3>2, <4>1
      <4> QED
        BY <1>1, <1>2, <2>1, <4>2
    <3> QED
      BY <3>1, <3>2
  <2>7. ASSUME NEW x \in at[j] \ {0} PROVE x = e \/ \E y \in at[j] \ {0} : rec[y].parent = x
    BY <2>2, <2>3, <2>4
  <2> QED
    BY <2>1, <2>5, <2>6, <2>7
<1>19. N \in T
  <2>1. \A n \in 0 .. N - 1 : n \in T => n + 1 \in T
    BY <1>18
  <2> HIDE DEF T
  <2>2. \A n \in 0 .. N : n \in T
    BY <1>1, <1>17, <2>1, UpTo
  <2> QED
    BY <1>1, <2>2
<1>20. /\ at[N] \subseteq E \cup {0} /\ e \in at[N]
       /\ \A y \in at[N] \ {0} : rec[y].parent \in at[N] \cup {0} \/ pos[y] >= N + 1
       /\ \A x \in at[N] \ {0} : x = e \/ \E y \in at[N] \ {0} : rec[y].parent = x
  BY <1>19
<1>21. \A y \in at[N] \ {0} : y \in E /\ ~(pos[y] >= N + 1)
  BY <1>1, <1>2, <1>20
<1> QED
  BY <1>1, <1>4, <1>5, <1>20, <1>21 DEF E

\* What survives is what is not selected and what lies above it.
LEMMA SurvivorsAre ==
  ASSUME NEW pos, NEW lo, Scanned(pos, lo), NEW q
  PROVE  /\ Survivors(q) \subseteq Elements
         /\ \A x \in Elements \ Survivors(q) :
              Selected(x, q) /\ \A y \in Elements : rec[y].parent = x => y \notin Survivors(q)
         /\ \A x \in Survivors(q) : ~Selected(x, q) \/ \E y \in Survivors(q) : rec[y].parent = x
<1>1. 0 \notin Elements
  BY DEF Elements, Chunks
<1> HIDE DEF Elements
<1>2. \A x : x \in Survivors(q) <=> \E e \in Elements : ~Selected(e, q) /\ x \in Above(e)
  BY DEF Survivors
<1>3. \A e \in Elements :
         /\ Above(e) \subseteq Elements /\ e \in Above(e)
         /\ \A y \in Above(e) : rec[y].parent = 0 \/ rec[y].parent \in Above(e)
         /\ \A x \in Above(e) : x = e \/ \E y \in Above(e) : rec[y].parent = x
  BY AboveIs
<1>4. Survivors(q) \subseteq Elements
  BY <1>2, <1>3
<1>5. ASSUME NEW x \in Elements, x \notin Survivors(q)
      PROVE  Selected(x, q) /\ \A y \in Elements : rec[y].parent = x => y \notin Survivors(q)
  BY <1>1, <1>2, <1>3, <1>5
<1>6. ASSUME NEW x \in Survivors(q)
      PROVE  ~Selected(x, q) \/ \E y \in Survivors(q) : rec[y].parent = x
  BY <1>2, <1>3
<1> QED
  BY <1>4, <1>5, <1>6

-----------------------------------------------------------------------------
(* Links down and links up.                                                *)

\* Every element but the root is the first child of its parent or the next
\* brother of an element visited before it.
LEMMA LinkedFrom ==
  ASSUME NEW pos, NEW lo, Scanned(pos, lo), NEW x \in Elements, rec[x].parent # 0
  PROVE  /\ rec[x].parent \in Elements
         /\ \/ rec[rec[x].parent].child = x
            \/ \E a \in Elements : /\ rec[a].brother = x /\ rec[a].parent = rec[x].parent
                                   /\ pos[a] < lo[x]
<1> DEFINE E == Elements
           p == rec[x].parent
           par(y) == rec[y].parent
<1>1. /\ \A y \in E : /\ pos[y] \in Int /\ lo[y] \in Int /\ 1 <= lo[y]
                      /\ lo[y] <= pos[y] /\ pos[y] <= count
      /\ \A y, z \in E : pos[y] = pos[z] => y = z
      /\ \A k \in 1 .. count : \E y \in E : pos[y] = k
      /\ count \in Nat /\ 0 \notin E
  BY DEF Scanned, Elements, Chunks
<1>2. \A y \in E :
        IF par(y) = 0
        THEN pos[y] = count
        ELSE /\ par(y) \in E
             /\ pos[y] < pos[par(y)] /\ lo[par(y)] <= lo[y]
             /\ IF rec[y].brother = 0 THEN pos[par(y)] = pos[y] + 1
                ELSE /\ rec[y].brother \in E /\ par(rec[y].brother) = par(y)
                     /\ lo[rec[y].brother] = pos[y] + 1
  BY DEF Scanned
<1>3. \A y \in E :
        IF rec[y].child = 0 THEN lo[y] = pos[y]
        ELSE rec[y].child \in E /\ par(rec[y].child) = y /\ lo[rec[y].child] = lo[y]
  BY DEF Scanned
<1>4. \A y, z \in E : pos[y] < pos[z] =>
        pos[y] < lo[z] \/ (lo[z] <= lo[y] /\ par(y) # 0 /\ pos[par(y)] <= pos[z])
  BY DEF Scanned
<1>5. x \in E /\ p \in E /\ pos[x] < pos[p] /\ lo[p] <= lo[x] /\ p # 0 /\ par(x) = p
  BY <1>2
<1> HIDE DEF E, p, par
\* Elements that begin at the same place and have the same parent are the same.
<1>6. ASSUME NEW y \in E, NEW z \in E, lo[y] = lo[z], par(y) = par(z), par(y) \in E,
             pos[y] < pos[par(y)], pos[z] < pos[par(z)]
      PROVE  y = z
  <2>1. ~(pos[y] < pos[z])
    BY <1>1, <1>4, <1>6
  <2>2. ~(pos[z] < pos[y])
    BY <1>1, <1>4, <1>6
  <2> QED
    BY <1>1, <2>1, <2>2
<1>7. CASE lo[x] = lo[p]
  <2>1. rec[p].child # 0
    BY <1>1, <1>3, <1>5, <1>7
  <2>2. PICK c : c = rec[p].child
    OBVIOUS
  <2>3. c \in E /\ par(c) = p /\ lo[c] = lo[p]
    BY <1>3, <1>5, <2>1, <2>2
  <2>4. pos[c] < pos[p]
    BY <1>1, <1>2, <1>5, <2>3
  <2>5. c = x
    BY <1>5, <1>6, <1>7, <2>3, <2>4
  <2> QED
    BY <1>5, <2>2, <2>5 DEF E, p
<1>8. CASE lo[x] # lo[p]
  <2>1. lo[x] - 1 \in 1 .. count /\ lo[p] <= lo[x] - 1
    BY <1>1, <1>5, <1>8
  <2>2. PICK a \in E : pos[a] = lo[x] - 1
    BY <1>1, <2>1
  <2>3. pos[a] < lo[x] /\ pos[a] < pos[x] /\ pos[a] < pos[p] /\ lo[p] <= pos[a] /\ lo[a] <= pos[a]
    BY <1>1, <1>5, <2>1, <2>2
  <2>4. par(a) # 0 /\ pos[par(a)] <= pos[p] /\ lo[p] <= lo[a]
    BY <1>1, <1>4, <1>5, <2>3
  <2>5. PICK q : q = par(a)
    OBVIOUS
  <2>6. q \in E /\ pos[a] < pos[q] /\ lo[q] <= lo[a]
    BY <1>2, <2>4, <2>5
  <2>7. lo[q] < lo[x] /\ q # x
    BY <1>1, <1>5, <2>3, <2>6
  \* The parent of a ends behind x.
  <2>8. pos[x] < pos[q]
    <3>1. ~(pos[q] < pos[x])
      <4>1. ~(pos[q] < lo[x])
        BY <1>1, <1>5, <2>2, <2>6
      <4> QED
        BY <1>1, <1>4, <1>5, <2>6, <2>7, <4>1
    <3> QED
      BY <1>1, <1>5, <2>6, <2>7, <3>1
  <2>9. PICK b : b = rec[a].brother
    OBVIOUS
  <2>10. b # 0
    BY <1>1, <1>2, <1>5, <2>2, <2>4, <2>5, <2>6, <2>8, <2>9
  <2>11. b \in E /\ par(b) = q /\ lo[b] = lo[x]
    BY <1>1, <1>2, <1>5, <2>2, <2>4, <2>5, <2>9, <2>10
  <2>12. pos[b] < pos[q]
    BY <1>1, <1>2, <2>6, <2>11
  <2>13. b = x
    <3>1. ~(pos[b] < pos[x])
      BY <1>1, <1>4, <1>5, <2>6, <2>8, <2>11
    <3>2. ~(pos[x] < pos[b])
      <4>1. SUFFICES ASSUME pos[x] < pos[b] PROVE FALSE
        OBVIOUS
      <4>2. pos[p] <= pos[b]
        BY <1>1, <1>4, <1>5, <2>11, <4>1
      <4>3. p # b
        BY <1>1, <1>5, <2>1, <2>11
      <4>4. pos[p] < pos[b]
        BY <1>1, <1>5, <2>11, <4>2, <4>3
      <4>5. lo[p] < lo[b]
        BY <1>1, <1>5, <1>8, <2>11
      <4>6. ~(pos[p] < lo[b])
        BY <1>1, <1>5, <2>11
      <4> QED
        BY <1>1, <1>4, <1>5, <2>11, <4>4, <4>5, <4>6
    <3> QED
      BY <1>1, <1>5, <2>11, <3>1, <3>2
  <2>14. par(a) = p
    BY <1>5, <2>5, <2>11, <2>13
  <2> QED
    BY <1>5, <2>3, <2>9, <2>13, <2>14 DEF E, p, par
<1> QED
  BY <1>7, <1>8

\* Along the brother links from c: elements with the parent of c, up to the last.
LEMMA BrothersFrom ==
  ASSUME NEW pos, NEW lo, Scanned(pos, lo), NEW c \in Elements \cup {0}
  PROVE  /\ Brothers(c) \subseteq Elements
         /\ IF c = 0 THEN Brothers(c) = {} ELSE c \in Brothers(c)
         /\ \A b \in Brothers(c) : /\ rec[b].parent = rec[c].parent
                                   /\ rec[b].brother \in Brothers(c) \cup {0}
<1> DEFINE N == MaxChunks
           E == Elements
           S == E \cup {0}
           at[k \in 0 .. N] ==
             IF k = 0 THEN c ELSE LET b == at[k - 1] IN IF b = 0 THEN 0 ELSE rec[b].brother
<1>1. N \in Nat /\ count \in Nat /\ count <= N /\ 0 \notin E
  <2>1. 0 \notin Elements
    BY DEF Elements, Chunks
  <2> QED
    BY <2>1, ScanCount
<1>2. \A y \in E : pos[y] \in Int /\ 1 <= pos[y] /\ pos[y] <= count
  BY DEF Scanned
<1>3. \A y \in E :
        \/ rec[y].brother = 0
        \/ /\ rec[y].brother \in E /\ rec[rec[y].brother].parent = rec[y].parent
           /\ pos[y] < pos[rec[y].brother]
  BY DEF Scanned
<1>4. Brothers(c) = {at[k] : k \in 0 .. N} \ {0}
  BY DEF Brothers
<1>5. c \in S
  OBVIOUS
<1> PICK step : step = [b \in S |-> IF b = 0 THEN 0 ELSE rec[b].brother]
  OBVIOUS
<1>6. \A b \in S : step[b] = (IF b = 0 THEN 0 ELSE rec[b].brother) /\ step[b] \in S
  BY <1>3
<1> HIDE DEF N, E, S
<1>7. PICK f : f \in [0 .. N -> S] /\ f[0] = c /\ \A k \in 1 .. N : f[k] = step[f[k - 1]]
  <2>1. step \in Steps(S)
    BY <1>6 DEF Steps, S
  <2>2. \E f : IsWalk(f, N, S, c, step)
    BY <1>1, <1>5, <2>1, Iterate
  <2> QED
    BY <2>2 DEF IsWalk
<1>8. ASSUME NEW k \in 0 .. N
      PROVE  f[k] = IF k = 0 THEN c
                    ELSE LET b == f[k - 1] IN IF b = 0 THEN 0 ELSE rec[b].brother
  <2>1. CASE k = 0
    BY <1>7, <2>1
  <2>2. CASE k # 0
    <3>1. k \in 1 .. N /\ f[k - 1] \in S
      BY <1>1, <1>7, <2>2
    <3> QED
      BY <1>6, <1>7, <2>2, <3>1
  <2> QED
    BY <2>1, <2>2
<1>9. f = [k \in 0 .. N |-> IF k = 0 THEN c
             ELSE LET b == f[k - 1] IN IF b = 0 THEN 0 ELSE rec[b].brother]
  BY <1>7, <1>8
<1>10. \E g : g = [k \in 0 .. N |-> IF k = 0 THEN c
              ELSE LET b == g[k - 1] IN IF b = 0 THEN 0 ELSE rec[b].brother]
  BY <1>9, Zenon
<1>11. at = [k \in 0 .. N |-> IF k = 0 THEN c
              ELSE LET b == at[k - 1] IN IF b = 0 THEN 0 ELSE rec[b].brother]
  BY <1>10, Zenon
<1> HIDE DEF at
<1>12. at[0] = c
  BY <1>1, <1>11
<1>13. ASSUME NEW k \in 0 .. N - 1
       PROVE  \E j : j = k + 1 /\ j \in 0 .. N /\ at[j] = IF at[k] = 0 THEN 0 ELSE rec[at[k]].brother
  <2>1. PICK j : j = k + 1
    OBVIOUS
  <2>2. j \in 0 .. N /\ j # 0 /\ j - 1 = k
    BY <1>1, <2>1
  <2>3. at[j] = LET b == at[j - 1] IN IF b = 0 THEN 0 ELSE rec[b].brother
    BY <1>11, <2>2
  <2> QED
    BY <2>1, <2>2, <2>3
<1> DEFINE T == {k \in 0 .. N : at[k] # 0 => /\ at[k] \in E /\ rec[at[k]].parent = rec[c].parent
                                             /\ k < pos[at[k]]}
<1>14. 0 \in T
  <2>1. c # 0 => c \in E
    BY <1>5 DEF S
  <2> QED
    BY <1>1, <1>2, <1>12, <2>1
<1>15. ASSUME NEW k \in 0 .. N - 1, k \in T PROVE k + 1 \in T
  <2>1. PICK j : j = k + 1 /\ j \in 0 .. N /\ at[j] = IF at[k] = 0 THEN 0 ELSE rec[at[k]].brother
    BY <1>13
  <2>2. at[k] # 0 => at[k] \in E /\ rec[at[k]].parent = rec[c].parent /\ k < pos[at[k]]
    BY <1>15
  <2>3. at[j] # 0 => at[j] \in E /\ rec[at[j]].parent = rec[c].parent /\ j < pos[at[j]]
    <3>1. SUFFICES ASSUME at[j] # 0 PROVE at[j] \in E /\ rec[at[j]].parent = rec[c].parent /\ j < pos[at[j]]
      OBVIOUS
    <3>2. at[k] \in E /\ at[j] = rec[at[k]].brother /\ k < pos[at[k]] /\ rec[at[k]].parent = rec[c].parent
      BY <2>1, <2>2, <3>1
    <3>3. at[j] \in E /\ rec[at[j]].parent = rec[c].parent /\ pos[at[k]] < pos[at[j]]
      BY <1>3, <3>1, <3>2
    <3> QED
      BY <1>2, <2>1, <3>2, <3>3
  <2> QED
    BY <2>1, <2>3
<1>16. \A k \in 0 .. N : k \in T
  <2>1. \A n \in 0 .. N - 1 : n \in T => n + 1 \in T
    BY <1>15
  <2> HIDE DEF T
  <2> QED
    BY <1>1, <1>14, <2>1, UpTo
<1>17. \A b : b \in Brothers(c) <=> b # 0 /\ \E k \in 0 .. N : at[k] = b
  BY <1>4
<1>18. ASSUME NEW b \in Brothers(c)
       PROVE  /\ b \in E /\ rec[b].parent = rec[c].parent
              /\ rec[b].brother \in Brothers(c) \cup {0}
  <2>1. PICK k \in 0 .. N : at[k] = b
    BY <1>17
  <2>2. b # 0
    BY <1>17
  <2>3. b \in E /\ rec[b].parent = rec[c].parent /\ k < pos[b]
    BY <1>16, <2>1, <2>2
  <2>4. k \in 0 .. N - 1
    BY <1>1, <1>2, <2>3
  <2>5. \E j \in 0 .. N : at[j] = rec[b].brother
    BY <1>13, <2>1, <2>2, <2>4
  <2> QED
    BY <1>17, <2>3, <2>5
<1>19. c # 0 => c \in Brothers(c)
  BY <1>1, <1>12, <1>17
<1>20. ASSUME c = 0 PROVE Brothers(c) = {}
  <2> DEFINE Z == {k \in 0 .. N : at[k] = 0}
  <2>1. 0 \in Z
    BY <1>1, <1>12, <1>20
  <2>2. \A n \in 0 .. N - 1 : n \in Z => n + 1 \in Z
    BY <1>13
  <2>3. \A n \in 0 .. N : n \in Z
    <3> HIDE DEF Z
    <3> QED
      BY <1>1, <2>1, <2>2, UpTo
  <2> QED
    BY <1>17, <2>3
<1> QED
  BY <1>18, <1>19, <1>20 DEF E

\* The brothers linked from the child of p are the elements with the parent p,
\* and those linked from the root are the elements above which there is none.
LEMMA BrothersAre ==
  ASSUME NEW pos, NEW lo, Scanned(pos, lo)
  PROVE  /\ \A p \in Elements : Brothers(rec[p].child) = {x \in Elements : rec[x].parent = p}
         /\ Brothers(first) = {x \in Elements : rec[x].parent = 0}
<1>1. /\ \A y \in Elements : pos[y] \in Nat
      /\ \A y, z \in Elements : pos[y] = pos[z] => y = z
      /\ 0 \notin Elements
  BY DEF Scanned, Elements, Chunks
<1>2. \A p \in Elements : rec[p].child = 0 \/ (rec[p].child \in Elements /\ rec[rec[p].child].parent = p)
  BY DEF Scanned
<1>3. /\ first = 0 \/ (first \in Elements /\ rec[first].parent = 0)
      /\ \A x \in Elements : rec[x].parent = 0 => x = first
  BY DEF Scanned
<1>4. ASSUME NEW p \in Elements PROVE Brothers(rec[p].child) = {x \in Elements : rec[x].parent = p}
  <2> DEFINE B == Brothers(rec[p].child)
             K == {x \in Elements : rec[x].parent = p}
             U == {x \in K : x \notin B}
             V == {pos[x] : x \in U}
  <2>1. /\ B \subseteq Elements /\ (rec[p].child # 0 => rec[p].child \in B)
        /\ \A b \in B : rec[b].parent = rec[rec[p].child].parent /\ rec[b].brother \in B \cup {0}
    BY <1>2, BrothersFrom
  <2>2. CASE rec[p].child = 0
    <3>1. K = {}
      BY <2>2, Leafless
    <3>2. B = {}
      BY <2>2, BrothersFrom
    <3> QED
      BY <3>1, <3>2
  <2>3. CASE rec[p].child # 0
    <3>1. B \subseteq K
      BY <1>2, <2>1, <2>3
    <3>2. U = {}
      <4>1. SUFFICES ASSUME U # {} PROVE FALSE
        OBVIOUS
      <4>2. V # {} /\ V \subseteq Nat
        BY <1>1, <4>1
      <4>3. PICK m \in V : \A k \in V : m <= k
        <5> HIDE DEF V
        <5> QED
          BY <4>2, Least
      <4>4. PICK x \in U : m = pos[x]
        BY <4>3
      <4>5. x \in Elements /\ rec[x].parent = p /\ x \notin B /\ p # 0
        BY <1>1, <4>4
      <4>6. rec[p].child # x
        BY <2>1, <2>3, <4>5
      <4>7. PICK a \in Elements : rec[a].brother = x /\ rec[a].parent = p /\ pos[a] < lo[x]
        BY <4>5, <4>6, LinkedFrom
      <4>8. pos[a] < pos[x]
        BY <4>5, <4>7 DEF Scanned
      <4>9. a \notin U
        <5>1. a \in U => pos[a] \in V
          OBVIOUS
        <5> QED
          BY <1>1, <4>3, <4>4, <4>5, <4>8, <5>1
      <4>10. a \in B
        BY <4>7, <4>9
      <4> QED
        BY <1>1, <2>1, <4>5, <4>7, <4>10
    <3> QED
      BY <3>1, <3>2
  <2> QED
    BY <2>2, <2>3
<1>5. Brothers(first) = {x \in Elements : rec[x].parent = 0}
  <2>1. /\ Brothers(first) \subseteq Elements /\ (first # 0 => first \in Brothers(first))
        /\ \A b \in Brothers(first) : rec[b].parent = rec[first].parent
    BY <1>3, BrothersFrom
  <2>2. CASE first = 0
    BY <1>1, <1>3, <2>2, BrothersFrom
  <2>3. CASE first # 0
    BY <1>3, <2>1, <2>3
  <2> QED
    BY <2>2, <2>3
<1> QED
  BY <1>4, <1>5

\* What is reached from the root along child and brother links are the elements.
LEMMA LiveIs ==
  ASSUME NEW pos, NEW lo, Scanned(pos, lo)
  PROVE  Live = Elements
<1> DEFINE N == MaxChunks
           E == Elements
           S == SUBSET E
           at[k \in 0 .. N] ==
             IF k = 0 THEN {first} \ {0}
             ELSE LET es == at[k - 1]
                  IN (es \cup UNION {{rec[x].child, rec[x].brother} : x \in es}) \ {0}
<1>1. N \in Nat /\ count \in Nat /\ count <= N /\ IsFiniteSet(E) /\ Cardinality(E) = count
  BY ScanCount
<1>2. 0 \notin E
  BY DEF Elements, Chunks
<1>3. \A y \in E : {rec[y].child, rec[y].brother} \subseteq E \cup {0}
  BY DEF Scanned
<1>4. IF count = 0 THEN first = 0 ELSE first \in E
  BY DEF Scanned
<1>5. Live = at[N]
  BY DEF Live
<1>6. {first} \ {0} \in S
  BY <1>4
<1> PICK step : step = [es \in S |-> (es \cup UNION {{rec[x].child, rec[x].brother} : x \in es}) \ {0}]
  OBVIOUS
<1>7. \A es \in S : step[es] = (es \cup UNION {{rec[x].child, rec[x].brother} : x \in es}) \ {0}
  OBVIOUS
<1> HIDE DEF N, E
<1>8. \A es \in S : step[es] \in S
  BY <1>3, <1>7
<1> HIDE DEF S
<1>9. PICK f : f \in [0 .. N -> S] /\ f[0] = {first} \ {0} /\ \A k \in 1 .. N : f[k] = step[f[k - 1]]
  <2>1. step \in Steps(S)
    BY <1>8 DEF Steps
  <2>2. \E f : IsWalk(f, N, S, {first} \ {0}, step)
    BY <1>1, <1>6, <2>1, Iterate
  <2> QED
    BY <2>2 DEF IsWalk
<1>10. ASSUME NEW k \in 0 .. N
       PROVE  f[k] = IF k = 0 THEN {first} \ {0}
                     ELSE LET es == f[k - 1]
                          IN (es \cup UNION {{rec[x].child, rec[x].brother} : x \in es}) \ {0}
  <2>1. CASE k = 0
    BY <1>9, <2>1
  <2>2. CASE k # 0
    <3>1. k \in 1 .. N /\ f[k - 1] \in S
      BY <1>1, <1>9, <2>2
    <3>2. step[f[k - 1]]
            = (f[k - 1] \cup UNION {{rec[x].child, rec[x].brother} : x \in f[k - 1]}) \ {0}
      BY <1>7, <3>1, Zenon
    <3>3. f[k] = (f[k - 1] \cup UNION {{rec[x].child, rec[x].brother} : x \in f[k - 1]}) \ {0}
      BY <1>9, <3>1, <3>2, Zenon
    <3> QED
      BY <2>2, <3>3, Zenon
  <2> QED
    BY <2>1, <2>2
<1>11. f = [k \in 0 .. N |-> f[k]]
  BY <1>9
<1>12. f = [k \in 0 .. N |-> IF k = 0 THEN {first} \ {0}
              ELSE LET es == f[k - 1]
                   IN (es \cup UNION {{rec[x].child, rec[x].brother} : x \in es}) \ {0}]
  BY <1>10, <1>11, Zenon
<1>13. \E g : g = [k \in 0 .. N |-> IF k = 0 THEN {first} \ {0}
              ELSE LET es == g[k - 1]
                   IN (es \cup UNION {{rec[x].child, rec[x].brother} : x \in es}) \ {0}]
  BY <1>12, Zenon
<1>14. at = [k \in 0 .. N |-> IF k = 0 THEN {first} \ {0}
              ELSE LET es == at[k - 1]
                   IN (es \cup UNION {{rec[x].child, rec[x].brother} : x \in es}) \ {0}]
  BY <1>13, Zenon
<1> HIDE DEF at
<1> DEFINE next(es) == UNION {{rec[x].child, rec[x].brother} : x \in es}
           closed(es) == \A x \in es : rec[x].child \in es \cup {0} /\ rec[x].brother \in es \cup {0}
<1>15. at[0] = {first} \ {0}
  BY <1>1, <1>14
<1>16. ASSUME NEW k \in 0 .. N - 1
       PROVE  \E j : /\ j = k + 1 /\ j \in 0 .. N
                     /\ \A y : y \in at[j] <=> y # 0 /\ (y \in at[k] \/ \E x \in at[k] :
                                                           y = rec[x].child \/ y = rec[x].brother)
  <2>1. PICK j : j = k + 1
    OBVIOUS
  <2>2. j \in 0 .. N /\ j # 0 /\ j - 1 = k
    BY <1>1, <2>1
  <2>3. at[j] = LET es == at[j - 1]
                IN (es \cup UNION {{rec[x].child, rec[x].brother} : x \in es}) \ {0}
    BY <1>14, <2>2, Zenon
  <2>4. at[j] = (at[k] \cup next(at[k])) \ {0}
    BY <2>2, <2>3
  <2>5. \A y : y \in next(at[k]) <=> \E x \in at[k] : y = rec[x].child \/ y = rec[x].brother
    OBVIOUS
  <2> HIDE DEF next
  <2> QED
    BY <2>1, <2>2, <2>4, <2>5
<1> DEFINE T == {k \in 0 .. N : /\ at[k] \subseteq E /\ (first # 0 => first \in at[k])
                                /\ closed(at[k]) \/ k + 1 <= Cardinality(at[k])}
<1>17. 0 \in T
  <2>1. at[0] \subseteq E /\ (first # 0 => first \in at[0])
    BY <1>4, <1>15
  <2>2. CASE first = 0
    <3>1. at[0] = {}
      BY <1>15, <2>2
    <3> QED
      BY <1>1, <2>2, <3>1
  <2>3. CASE first # 0
    <3>1. Cardinality({first}) = 1
      BY FS_Singleton
    <3>2. at[0] = {first}
      BY <1>15, <2>3
    <3>3. 0 \in 0 .. N /\ 0 + 1 <= Cardinality(at[0])
      BY <1>1, <3>1, <3>2
    <3> QED
      BY <2>1, <3>3
  <2> QED
    BY <2>2, <2>3
<1>18. ASSUME NEW k \in 0 .. N - 1, k \in T PROVE k + 1 \in T
  <2>1. PICK j : /\ j = k + 1 /\ j \in 0 .. N
                 /\ \A y : y \in at[j] <=> y # 0 /\ (y \in at[k] \/ \E x \in at[k] :
                                                       y = rec[x].child \/ y = rec[x].brother)
    BY <1>16
  <2>2. /\ at[k] \subseteq E /\ (first # 0 => first \in at[k])
        /\ closed(at[k]) \/ k + 1 <= Cardinality(at[k])
    BY <1>18
  <2>3. at[k] \subseteq at[j]
    BY <1>2, <2>1, <2>2
  <2>4. at[j] \subseteq E /\ (first # 0 => first \in at[j])
    BY <1>3, <2>1, <2>2, <2>3
  <2>5. CASE closed(at[k])
    <3>1. at[j] = at[k]
      <4>1. ASSUME NEW y \in at[j] PROVE y \in at[k]
        <5>1. CASE y \in at[k]
          BY <5>1
        <5>2. ASSUME NEW x \in at[k], y = rec[x].child \/ y = rec[x].brother PROVE y \in at[k]
          <6>1. y # 0 /\ rec[x].child \in at[k] \cup {0} /\ rec[x].brother \in at[k] \cup {0}
            BY <2>1, <2>5
          <6> QED
            BY <5>2, <6>1
        <5> QED
          BY <2>1, <5>1, <5>2
      <4> QED
        BY <2>3, <4>1
    <3> QED
      BY <2>1, <2>4, <2>5, <3>1
  <2>6. CASE ~closed(at[k])
    <3>1. at[j] # at[k]
      BY <2>1, <2>6
    <3>2. IsFiniteSet(at[j]) /\ IsFiniteSet(at[k])
      BY <1>1, <2>2, <2>4, FS_Subset
    <3>3. Cardinality(at[k]) < Cardinality(at[j])
      <4>1. Cardinality(at[k]) \in Nat /\ Cardinality(at[j]) \in Nat
        BY <3>2, FS_CardinalityType
      <4>2. Cardinality(at[k]) <= Cardinality(at[j])
        BY <2>3, <3>2, FS_Subset
      <4>3. Cardinality(at[j]) # Cardinality(at[k])
        BY <2>3, <3>1, <3>2, FS_Subset
      <4> QED
        BY <4>1, <4>2, <4>3
    <3>4. Cardinality(at[k]) \in Nat /\ Cardinality(at[j]) \in Nat
      BY <3>2, FS_CardinalityType
    <3> QED
      BY <1>1, <2>1, <2>2, <2>4, <2>6, <3>3, <3>4
  <2> QED
    BY <2>5, <2>6
<1>19. N \in T
  <2>1. \A n \in 0 .. N - 1 : n \in T => n + 1 \in T
    BY <1>18
  <2> HIDE DEF T
  <2>2. \A n \in 0 .. N : n \in T
    BY <1>1, <1>17, <2>1, UpTo
  <2> QED
    BY <1>1, <2>2
<1>20. at[N] \subseteq E /\ (first # 0 => first \in at[N]) /\ closed(at[N])
  <2>1. /\ at[N] \subseteq E /\ (first # 0 => first \in at[N])
        /\ closed(at[N]) \/ N + 1 <= Cardinality(at[N])
    BY <1>19
  <2>2. Cardinality(at[N]) \in Nat /\ Cardinality(at[N]) <= count
    BY <1>1, <2>1, FS_Subset, FS_CardinalityType
  <2> QED
    BY <1>1, <2>1, <2>2
<1> DEFINE U == {x \in E : x \notin at[N]}
<1>21. U = {}
  <2>1. SUFFICES ASSUME U # {} PROVE FALSE
    OBVIOUS
  <2>2. \A y \in E : pos[y] \in 0 .. count /\ lo[y] \in Nat
    BY <1>1 DEF Scanned, E
  <2> DEFINE V == {lo[x] : x \in U}
  <2>3. V # {} /\ V \subseteq Nat
    BY <2>1, <2>2
  <2>4. PICK m \in V : \A k \in V : m <= k
    <3> HIDE DEF V
    <3> QED
      BY <2>3, Least
  <2> DEFINE W == {pos[x] : x \in {y \in U : lo[y] = m}}
  <2>5. W # {} /\ W \subseteq 0 .. count
    BY <2>2, <2>4
  <2>6. PICK n \in W : \A k \in W : k <= n
    <3> HIDE DEF W
    <3> QED
      BY <1>1, <2>5, Greatest
  <2>7. PICK x \in U : lo[x] = m /\ pos[x] = n
    BY <2>6
  <2>8. x \in E /\ x \notin at[N] /\ x # 0
    BY <1>2, <2>7
  <2>9. rec[x].parent # 0
    <3>1. rec[x].parent = 0 => x = first
      BY <2>8 DEF Scanned, E
    <3> QED
      BY <1>20, <2>8, <3>1
  <2>10. /\ rec[x].parent \in E
         /\ \/ rec[rec[x].parent].child = x
            \/ \E a \in E : rec[a].brother = x /\ rec[a].parent = rec[x].parent /\ pos[a] < lo[x]
    BY <2>8, <2>9, LinkedFrom DEF E
  <2>11. CASE rec[rec[x].parent].child = x
    <3>1. rec[x].parent \in U
      BY <1>20, <2>8, <2>10, <2>11
    <3>2. lo[rec[x].parent] = lo[x] /\ pos[x] < pos[rec[x].parent]
      BY <2>8, <2>9, <2>10, <2>11 DEF Scanned, E
    <3>3. pos[rec[x].parent] \in W
      BY <2>7, <3>1, <3>2
    <3> QED
      BY <2>2, <2>6, <2>7, <2>8, <2>10, <3>2, <3>3
  <2>12. ASSUME NEW a \in E, rec[a].brother = x, pos[a] < lo[x] PROVE FALSE
    <3>1. a \in U
      BY <1>20, <2>8, <2>12
    <3>2. lo[a] <= pos[a]
      BY <2>12 DEF Scanned, E
    <3>3. lo[a] \in V
      BY <3>1
    <3> QED
      BY <2>2, <2>4, <2>7, <2>8, <2>12, <3>2, <3>3
  <2> QED
    BY <2>10, <2>11, <2>12
<1> QED
  BY <1>5, <1>20, <1>21 DEF E

-----------------------------------------------------------------------------
(* The tree and the loop of DeleteElements.                                *)

\* The iterator stands at the place behind the i elements that were read and
\* stay; these are among those that must survive, which are what is not
\* selected and what lies above it.
Loop(pos) ==
  pc = "delete" =>
    /\ i \in Nat /\ i <= count
    /\ i < count => it \in Elements /\ pos[it] = i + 1
    /\ keep \subseteq Elements
    /\ \A x \in Elements : pos[x] <= i => x \in keep
    /\ \A x \in Elements \ keep :
         Selected(x, sel) /\ \A y \in Elements : rec[y].parent = x => y \notin keep
    /\ \A x \in keep : ~Selected(x, sel) \/ \E y \in keep : rec[y].parent = x

TreeInv == ~damaged => \E pos, lo : Scanned(pos, lo) /\ Loop(pos)

\* Where no link of an element changes, the places stay.
LEMMA ScanSame ==
  ASSUME NEW pos, NEW lo, Scanned(pos, lo), UNCHANGED <<first, count, chain>>,
         \A x \in Elements : /\ rec'[x].parent = rec[x].parent /\ rec'[x].child = rec[x].child
                             /\ rec'[x].brother = rec[x].brother
  PROVE  Elements' = Elements /\ Scanned(pos, lo)'
<1>1. Elements' = Elements
  BY DEF Elements
<1> HIDE DEF Elements
<1> DEFINE E == Elements
<1>2. /\ count' \in Nat
      /\ \A x \in E : pos[x] \in 1 .. count' /\ lo[x] \in 1 .. pos[x]
      /\ \A x, y \in E : pos[x] = pos[y] => x = y
      /\ \A k \in 1 .. count' : \E x \in E : pos[x] = k
  BY DEF Scanned
<1>3. \A x \in E :
       IF rec'[x].parent = 0
       THEN x = first' /\ pos[x] = count' /\ lo[x] = 1 /\ rec'[x].brother = 0
       ELSE /\ rec'[x].parent \in E
            /\ pos[x] < pos[rec'[x].parent] /\ lo[rec'[x].parent] <= lo[x]
            /\ IF rec'[x].brother = 0 THEN pos[rec'[x].parent] = pos[x] + 1
               ELSE /\ rec'[x].brother \in E /\ rec'[rec'[x].brother].parent = rec'[x].parent
                    /\ lo[rec'[x].brother] = pos[x] + 1
  BY DEF Scanned
<1>4. \A x \in E :
       IF rec'[x].child = 0 THEN lo[x] = pos[x]
       ELSE /\ rec'[x].child \in E /\ rec'[rec'[x].child].parent = x
            /\ lo[rec'[x].child] = lo[x]
  BY DEF Scanned
<1>5. IF count' = 0 THEN first' = 0 ELSE first' \in E /\ rec'[first'].parent = 0
  BY DEF Scanned
<1>6. \A x, y \in E : pos[x] < pos[y] =>
       \/ pos[x] < lo[y]
       \/ lo[y] <= lo[x] /\ rec'[x].parent # 0 /\ pos[rec'[x].parent] <= pos[y]
  BY DEF Scanned
<1> QED
  BY <1>1, <1>2, <1>3, <1>4, <1>5, <1>6 DEF Scanned

\* InsertElement.
LEMMA InsertScan ==
  ASSUME Kept, Shaped, NEW pos, NEW lo, Scanned(pos, lo),
         NEW p, NEW s \in Schemas, NEW row, Insert(p, s, row), ~damaged'
  PROVE  \E pos2, lo2 : Scanned(pos2, lo2)'
<1>1. PICK id \in Chunks : Grown(id, p, s, row)
  BY InsertTree
<1>2. id # 0
  BY DEF Chunks
<1>3. CASE p = 0
  <2>1. /\ count = 0 /\ first' = id /\ rec'[id].parent = 0 /\ rec'[id].brother = 0
        /\ count' = count + 1 /\ rec'[id].child = 0 /\ Elements' = Elements \cup {id}
    BY <1>1, <1>3 DEF Grown
  <2> QED
    BY <1>2, <2>1, ScanRoot
<1>4. CASE p # 0
  <2>1. /\ p \in Elements /\ first' = first /\ rec'[id].parent = p /\ rec'[id].brother = rec[p].child
        /\ count' = count + 1 /\ rec'[id].child = 0 /\ Elements' = Elements \cup {id}
        /\ id \notin Elements
    BY <1>1, <1>4 DEF Grown
  <2>2. \A x \in Elements :
             /\ rec'[x].parent = rec[x].parent /\ rec'[x].brother = rec[x].brother
             /\ rec'[x].child = IF x = p THEN id ELSE rec[x].child
    BY <1>1 DEF Grown
  <2> QED
    BY <1>2, <2>1, <2>2, ScanChild
<1> QED
  BY <1>3, <1>4

\* Remove of a leaf: the places behind it move up.
LEMMA RemoveScan ==
  ASSUME Kept, Shaped, NEW pos, NEW lo, Scanned(pos, lo),
         NEW e \in Elements, rec[e].child = 0, Remove(e), ~damaged'
  PROVE  \E pos2, lo2 :
           /\ Scanned(pos2, lo2)'
           /\ \A x \in Elements' : pos2[x] = IF pos[x] > pos[e] THEN pos[x] - 1 ELSE pos[x]
<1>1. /\ Elements' = Elements \ {e} /\ count' = count - 1
      /\ first' = IF rec[e].parent = 0 THEN 0 ELSE first
      /\ \A x \in Elements \ {e} :
              /\ rec'[x].parent = rec[x].parent
              /\ rec'[x].child = IF rec[x].child = e THEN rec[e].brother ELSE rec[x].child
              /\ rec'[x].brother = IF rec[x].brother = e THEN rec[e].brother ELSE rec[x].brother
  BY RemoveTree
<1> QED
  BY <1>1, ScanLess

\* DeleteElements begins.
LEMMA BeginLoop ==
  ASSUME NEW pos, NEW lo, Scanned(pos, lo), NEW q, DeleteBegin(q)
  PROVE  Scanned(pos, lo)' /\ Loop(pos)'
<1>1. UNCHANGED <<first, count, rec, chain>>
  BY DEF DeleteBegin, tree
<1>2. Elements' = Elements /\ Scanned(pos, lo)'
  BY <1>1, ScanSame
<1>3. i' = 0 /\ it' = Begin /\ sel' = q /\ keep' = Survivors(q)
  BY DEF DeleteBegin
<1>4. \A x : Selected(x, sel)' <=> Selected(x, q)
  BY <1>1, <1>3 DEF Selected, Check, Column
<1>5. count' \in Nat /\ count' = count /\ \A x \in Elements : pos[x] \in Nat /\ pos[x] >= 1
  BY <1>1 DEF Scanned
<1>6. i' < count' => it' \in Elements' /\ pos[it'] = i' + 1
  BY <1>2, <1>3, <1>5, BeginIs
<1>7. /\ keep' \subseteq Elements'
      /\ \A x \in Elements' \ keep' :
           Selected(x, sel)' /\ \A y \in Elements' : rec'[y].parent = x => y \notin keep'
      /\ \A x \in keep' : ~Selected(x, sel)' \/ \E y \in keep' : rec'[y].parent = x
  <2>1. /\ Survivors(q) \subseteq Elements
        /\ \A x \in Elements \ Survivors(q) :
             Selected(x, q) /\ \A y \in Elements : rec[y].parent = x => y \notin Survivors(q)
        /\ \A x \in Survivors(q) : ~Selected(x, q) \/ \E y \in Survivors(q) : rec[y].parent = x
    BY SurvivorsAre
  <2> QED
    BY <1>1, <1>2, <1>3, <1>4, <2>1, Zenon
<1>8. /\ i' \in Nat /\ i' <= count'
      /\ \A x \in Elements' : pos[x] <= i' => x \in keep'
  BY <1>2, <1>3, <1>5
<1> QED
  BY <1>2, <1>6, <1>7, <1>8 DEF Loop

\* DeleteElements reads an element that stays: it must, for it is not selected
\* or the first of those below it has stayed.
LEMMA SkipLoop ==
  ASSUME NEW pos, NEW lo, Scanned(pos, lo), Loop(pos), DeleteSkip
  PROVE  Scanned(pos, lo)' /\ Loop(pos)'
<1>1. UNCHANGED <<first, count, rec, chain, sel, keep>>
  BY DEF DeleteSkip, tree
<1>2. Elements' = Elements /\ Scanned(pos, lo)'
  BY <1>1, ScanSame
<1>3. i' = i + 1 /\ it' = After(it) /\ pc = "delete" /\ i < count /\ it \in Elements
  BY DEF DeleteSkip
<1>4. \A x : Selected(x, sel)' <=> Selected(x, sel)
  BY <1>1 DEF Selected, Check, Column
<1>5. /\ count \in Nat /\ 0 \notin Elements
      /\ \A x \in Elements : pos[x] \in Nat /\ pos[x] >= 1 /\ pos[x] <= count
      /\ \A x, y \in Elements : pos[x] = pos[y] => x = y
  BY DEF Scanned, Elements, Chunks
<1>6. /\ i \in Nat /\ pos[it] = i + 1
      /\ keep \subseteq Elements
      /\ \A x \in Elements : pos[x] <= i => x \in keep
      /\ \A x \in Elements \ keep :
           Selected(x, sel) /\ \A y \in Elements : rec[y].parent = x => y \notin keep
      /\ \A x \in keep : ~Selected(x, sel) \/ \E y \in keep : rec[y].parent = x
  BY <1>3 DEF Loop
<1>7. it \in keep
  <2>1. SUFFICES ASSUME it \notin keep PROVE FALSE
    OBVIOUS
  <2>2. Selected(it, sel) /\ \A y \in Elements : rec[y].parent = it => y \notin keep
    BY <1>3, <1>6, <2>1
  <2>3. rec[it].child # 0
    BY <2>2 DEF DeleteSkip, Removable
  <2>4. PICK c \in Elements : rec[c].parent = it
    BY <1>3, <2>3 DEF Scanned
  <2>5. pos[c] < pos[it]
    BY <1>3, <1>5, <2>4 DEF Scanned
  <2> QED
    BY <1>3, <1>5, <1>6, <2>2, <2>4, <2>5
<1>8. \A x \in Elements : pos[x] <= i' => x \in keep
  BY <1>3, <1>5, <1>6, <1>7
<1>9. i' \in Nat /\ i' <= count /\ (i' < count => it' \in Elements /\ pos[it'] = i' + 1)
  <2>1. IF pos[it] = count THEN After(it) = 0
        ELSE After(it) \in Elements /\ pos[After(it)] = pos[it] + 1
    BY <1>3, AfterIs
  <2> QED
    BY <1>3, <1>5, <1>6, <2>1
<1>10. /\ i' \in Nat /\ i' <= count'
       /\ (i' < count' => it' \in Elements' /\ pos[it'] = i' + 1)
       /\ keep' \subseteq Elements'
       /\ \A x \in Elements' : pos[x] <= i' => x \in keep'
  BY <1>1, <1>2, <1>6, <1>8, <1>9
<1>11. /\ \A x \in Elements' \ keep' :
            Selected(x, sel)' /\ \A y \in Elements' : rec'[y].parent = x => y \notin keep'
       /\ \A x \in keep' : ~Selected(x, sel)' \/ \E y \in keep' : rec'[y].parent = x
  BY <1>1, <1>2, <1>4, <1>6, Zenon
<1> QED
  BY <1>2, <1>10, <1>11 DEF Loop

\* DeleteElements removes a leaf: nothing that must survive, for nothing is
\* below it, and the element after it moves to its place.
LEMMA RemoveLoop ==
  ASSUME Kept, Shaped, NEW pos, NEW lo, Scanned(pos, lo), Loop(pos), DeleteRemove, ~damaged'
  PROVE  \E pos2, lo2 : Scanned(pos2, lo2)' /\ Loop(pos2)'
<1>1. /\ pc = "delete" /\ i < count /\ it \in Elements /\ rec[it].child = 0
      /\ Selected(it, sel) /\ Remove(it)
      /\ it' = After(it) /\ UNCHANGED <<pc, i, sel, keep>>
  BY DEF DeleteRemove, Removable
<1>2. PICK pos2, lo2 :
        /\ Scanned(pos2, lo2)'
        /\ \A x \in Elements' : pos2[x] = IF pos[x] > pos[it] THEN pos[x] - 1 ELSE pos[x]
  BY <1>1, RemoveScan
<1>3. /\ Elements' = Elements \ {it} /\ count' = count - 1
      /\ \A x \in Elements \ {it} : /\ rec'[x].parent = rec[x].parent
                                    /\ rec'[x].schema = rec[x].schema /\ rec'[x].row = rec[x].row
  BY <1>1, RemoveTree
<1>4. /\ count \in Nat
      /\ \A x \in Elements : pos[x] \in Nat /\ pos[x] >= 1 /\ pos[x] <= count
      /\ \A x, y \in Elements : pos[x] = pos[y] => x = y
  BY DEF Scanned
<1>5. /\ i \in Nat /\ pos[it] = i + 1
      /\ keep \subseteq Elements
      /\ \A x \in Elements : pos[x] <= i => x \in keep
      /\ \A x \in Elements \ keep :
           Selected(x, sel) /\ \A y \in Elements : rec[y].parent = x => y \notin keep
      /\ \A x \in keep : ~Selected(x, sel) \/ \E y \in keep : rec[y].parent = x
  BY <1>1 DEF Loop
<1>6. it \notin keep
  <2>1. \A y \in Elements : rec[y].parent # it
    BY <1>1, Leafless
  <2> QED
    BY <1>1, <1>5, <2>1
<1>7. \A x \in Elements' : Selected(x, sel)' <=> Selected(x, sel)
  <2>1. SUFFICES ASSUME NEW x \in Elements' PROVE Selected(x, sel)' <=> Selected(x, sel)
    OBVIOUS
  <2>2. rec'[x].schema = rec[x].schema /\ rec'[x].row = rec[x].row /\ sel' = sel
    BY <1>1, <1>3
  <2> QED
    BY <2>2 DEF Selected
<1>8. i' \in Nat /\ i' <= count' /\ (i' < count' => it' \in Elements' /\ pos2[it'] = i' + 1)
  <2>1. IF pos[it] = count THEN After(it) = 0
        ELSE After(it) \in Elements /\ pos[After(it)] = pos[it] + 1
    BY <1>1, AfterIs
  <2>2. CASE pos[it] = count
    BY <1>1, <1>3, <1>4, <1>5, <2>2
  <2>3. CASE pos[it] # count
    <3>1. After(it) \in Elements' /\ pos2[After(it)] = pos[After(it)] - 1
      BY <1>1, <1>2, <1>3, <1>4, <1>5, <2>1, <2>3
    <3> QED
      BY <1>1, <1>3, <1>4, <1>5, <2>1, <2>3, <3>1
  <2> QED
    BY <2>2, <2>3
<1>9. \A x \in Elements' : pos2[x] <= i' => x \in keep'
  <2>1. SUFFICES ASSUME NEW x \in Elements', pos2[x] <= i PROVE x \in keep
    BY <1>1
  <2>2. x \in Elements /\ pos2[x] = IF pos[x] > pos[it] THEN pos[x] - 1 ELSE pos[x]
    BY <1>2, <1>3
  <2>3. pos[x] <= i
    BY <1>4, <1>5, <2>1, <2>2
  <2> QED
    BY <1>5, <2>2, <2>3
<1>10. keep' \subseteq Elements'
  BY <1>1, <1>3, <1>5, <1>6
<1>11. ASSUME NEW x \in Elements' \ keep'
       PROVE  Selected(x, sel)' /\ \A y \in Elements' : rec'[y].parent = x => y \notin keep'
  <2>1. Selected(x, sel) /\ \A y \in Elements : rec[y].parent = x => y \notin keep
    BY <1>1, <1>3, <1>5
  <2> QED
    BY <1>1, <1>3, <1>7, <2>1
<1>12. ASSUME NEW x \in keep'
       PROVE  ~Selected(x, sel)' \/ \E y \in keep' : rec'[y].parent = x
  <2>1. x \in keep /\ x \in Elements'
    BY <1>1, <1>10
  <2>2. ~Selected(x, sel) \/ \E y \in keep : rec[y].parent = x
    BY <1>5, <2>1
  <2>3. \A y \in keep : y \in keep' /\ rec'[y].parent = rec[y].parent
    BY <1>1, <1>3, <1>10
  <2> QED
    BY <1>7, <2>1, <2>2, <2>3
<1>13. Loop(pos2)'
  BY <1>8, <1>9, <1>10, <1>11, <1>12 DEF Loop
<1> QED
  BY <1>2, <1>13

\* Every step keeps the order of the scan and the state of the loop.
LEMMA NextTree ==
  ASSUME IInv, Shaped, TreeInv, [Next]_vars
  PROVE  TreeInv'
<1> SUFFICES ASSUME ~damaged' PROVE \E pos2, lo2 : Scanned(pos2, lo2)' /\ Loop(pos2)'
  BY DEF TreeInv
<1>0. ~damaged => Kept /\ \E pos, lo : Scanned(pos, lo) /\ Loop(pos)
  BY DEF IInv, TreeInv
<1>1. ASSUME NEW p, NEW s \in Schemas, NEW row, Insert(p, s, row)
      PROVE  \E pos2, lo2 : Scanned(pos2, lo2)' /\ Loop(pos2)'
  <2>1. ~damaged /\ pc' # "delete"
    BY <1>1 DEF Insert, Ready, loop
  <2>2. PICK pos, lo : Scanned(pos, lo)
    BY <1>0, <2>1
  <2>3. PICK pos2, lo2 : Scanned(pos2, lo2)'
    BY <1>0, <1>1, <2>1, <2>2, InsertScan
  <2> QED
    BY <2>1, <2>3 DEF Loop
<1>2. ASSUME NEW e \in Chunks, Delete(e)
      PROVE  \E pos2, lo2 : Scanned(pos2, lo2)' /\ Loop(pos2)'
  <2>1. ~damaged /\ pc' # "delete" /\ Remove(e) /\ Sought(e)
    BY <1>2 DEF Delete, Ready, loop
  <2>2. PICK pos, lo : Scanned(pos, lo)
    BY <1>0, <2>1
  <2>3. e \in Elements /\ rec[e].child = 0
    BY <2>1, <2>2, OrderIs DEF Sought
  <2>4. PICK pos2, lo2 : Scanned(pos2, lo2)'
    BY <1>0, <2>1, <2>2, <2>3, RemoveScan
  <2> QED
    BY <2>1, <2>4 DEF Loop
<1>3. ASSUME NEW e \in Chunks, DeleteFails(e) PROVE FALSE
  BY <1>3 DEF DeleteFails
<1>4. ASSUME NEW q, DeleteBegin(q)
      PROVE  \E pos2, lo2 : Scanned(pos2, lo2)' /\ Loop(pos2)'
  <2>1. ~damaged
    BY <1>4 DEF DeleteBegin, Ready
  <2>2. PICK pos, lo : Scanned(pos, lo)
    BY <1>0, <2>1
  <2> QED
    BY <1>4, <2>2, BeginLoop
<1>5. CASE DeleteRemove
  <2>1. ~damaged
    BY <1>5 DEF DeleteRemove, Remove
  <2>2. PICK pos, lo : Scanned(pos, lo) /\ Loop(pos)
    BY <1>0, <2>1
  <2> QED
    BY <1>0, <1>5, <2>1, <2>2, RemoveLoop
<1>6. CASE DeleteSkip
  <2>1. ~damaged
    BY <1>6 DEF DeleteSkip
  <2>2. PICK pos, lo : Scanned(pos, lo) /\ Loop(pos)
    BY <1>0, <2>1
  <2> QED
    BY <1>6, <2>2, SkipLoop
<1>7. CASE DeleteReturn
  <2>1. ~damaged /\ pc' # "delete" /\ UNCHANGED <<first, count, rec, chain>>
    BY <1>7 DEF DeleteReturn, LoopEnds, tree
  <2>2. PICK pos, lo : Scanned(pos, lo)
    BY <1>0, <2>1
  <2>3. Scanned(pos, lo)'
    BY <2>1, <2>2, ScanSame
  <2> QED
    BY <2>1, <2>3 DEF Loop
<1>8. CASE DeleteThrow
  BY <1>8 DEF DeleteThrow
<1>9. ASSUME NEW u \in Updates, Update(u)
      PROVE  \E pos2, lo2 : Scanned(pos2, lo2)' /\ Loop(pos2)'
  <2>1. ~damaged /\ pc' # "delete" /\ UNCHANGED <<first, count, chain>>
    BY <1>9 DEF Update, Ready, loop
  <2>2. PICK pos, lo : Scanned(pos, lo)
    BY <1>0, <2>1
  <2>3. \A x \in Elements : /\ rec'[x].parent = rec[x].parent /\ rec'[x].child = rec[x].child
                            /\ rec'[x].brother = rec[x].brother
    BY <1>9 DEF Update, Shaped, Elements
  <2>4. Scanned(pos, lo)'
    BY <2>1, <2>2, <2>3, ScanSame
  <2> QED
    BY <2>1, <2>4 DEF Loop
<1>10. CASE UNCHANGED vars
  <2>1. ~damaged /\ UNCHANGED <<first, count, rec, chain, pc, it, i, sel, keep>>
    BY <1>10 DEF vars, tree, loop
  <2>2. PICK pos, lo : Scanned(pos, lo) /\ Loop(pos)
    BY <1>0, <2>1
  <2>3. Scanned(pos, lo)' /\ Elements' = Elements
    BY <2>1, <2>2, ScanSame
  <2>4. \A x : Selected(x, sel)' <=> Selected(x, sel)
    BY <2>1 DEF Selected
  <2>5. Loop(pos)'
    BY <2>1, <2>2, <2>3, <2>4, Zenon DEF Loop
  <2> QED
    BY <2>3, <2>5
<1> QED
  BY <1>1, <1>2, <1>3, <1>4, <1>5, <1>6, <1>7, <1>8, <1>9, <1>10 DEF Next, DeleteStep

-----------------------------------------------------------------------------
(* Types.                                                                  *)

\* The types, the fields of what is read, and the schemas of the elements; they
\* hold whatever has been damaged.
Typed ==
  /\ TypeOK /\ Shaped /\ Counted
  /\ chain \in [Chunks -> Seq(Chunks)]
  /\ \A c \in Chunks : chain[c] # <<>> => rec[c].schema \in Schemas

\* Where all links are of chunks, the walk down stays among them.
LEMMA DownTyped ==
  ASSUME \A c \in Chunks : rec[c].child \in Ptr, NEW c \in Chunks
  PROVE  Down(c) \in Chunks
<1>1. Ptr = Chunks \cup {0} /\ MaxChunks \in Nat
  BY SizesAssumption DEF Ptr, Chunks
<1> PICK step : step = [d \in Chunks |-> IF rec[d].child = 0 THEN d ELSE rec[d].child]
  OBVIOUS
<1>2. \A d \in Chunks : step[d] \in Chunks
  BY <1>1
<1>3. PICK f : IsWalk(f, MaxChunks, Chunks, c, step) /\ Down(c) = f[MaxChunks]
  BY <1>2, DownWalk
<1> QED
  BY <1>1, <1>3 DEF IsWalk

LEMMA BeginTyped ==
  ASSUME \A c \in Chunks : rec[c].child \in Ptr, first \in Ptr
  PROVE  Begin \in Ptr
<1>1. Ptr = Chunks \cup {0}
  BY SizesAssumption DEF Ptr, Chunks
<1> QED
  BY <1>1, DownTyped DEF Begin

LEMMA AfterTyped ==
  ASSUME \A c \in Chunks : {rec[c].parent, rec[c].child, rec[c].brother} \subseteq Ptr, NEW e \in Chunks
  PROVE  After(e) \in Ptr
<1>1. Ptr = Chunks \cup {0}
  BY SizesAssumption DEF Ptr, Chunks
<1>2. \A c \in Chunks : rec[c].child \in Ptr
  OBVIOUS
<1>3. rec[e].brother # 0 => Down(rec[e].brother) \in Chunks
  BY <1>1, <1>2, DownTyped
<1> QED
  BY <1>1, <1>3 DEF After

\* Rewriting a chunk leaves a part of the free list.
LEMMA FreeTyped ==
  ASSUME NEW S, free \in Seq(S), NEW c
  PROVE  FreeFrom(c) \in Seq(S)
<1> DEFINE upto == {k \in 1 .. Len(free) : \A j \in 1 .. k - 1 : free[j] # c}
<1>1. Len(free) \in Nat
  OBVIOUS
<1>2. Cardinality(upto) \in 0 .. Len(free)
  <2>1. IsFiniteSet(1 .. Len(free)) /\ Cardinality(1 .. Len(free)) = Len(free)
    <3>1. \A n \in Nat : IsFiniteSet(1 .. n) /\ Cardinality(1 .. n) = n
      BY FS_Interval
    <3> QED
      BY <1>1, <3>1
  <2>2. upto \subseteq 1 .. Len(free)
    OBVIOUS
  <2> HIDE DEF upto
  <2>3. Cardinality(upto) \in Nat /\ Cardinality(upto) <= Len(free)
    BY <1>1, <2>1, <2>2, FS_Subset, FS_CardinalityType
  <2> QED
    BY <1>1, <2>3
<1>3. FreeFrom(c) = SubSeq(free, 1, Cardinality(upto))
  BY DEF FreeFrom
<1> HIDE DEF upto
<1> QED
  BY <1>2, <1>3, Cut

\* Remove of any element keeps the counters and the types.
LEMMA RemoveTyped ==
  ASSUME Typed, NEW e \in Elements, Remove(e), count >= 1
  PROVE  /\ first' \in Ptr /\ count' \in Nat /\ cnt' \in [Schemas -> Nat]
         /\ \A c \in Chunks : Box(rec[c])'
         /\ free' \in Seq(Chunks) /\ fileEnd' \in Ptr /\ damaged' \in BOOLEAN
         /\ Shaped' /\ Counted' /\ chain' \in [Chunks -> Seq(Chunks)]
         /\ \A c \in Chunks : chain'[c] # <<>> => rec'[c].schema \in Schemas
<1>1. /\ first \in Ptr /\ count \in Nat /\ cnt \in [Schemas -> Nat] /\ fileEnd \in Ptr
      /\ \A c \in Chunks : Box(rec[c])
      /\ free \in Seq(Chunks) /\ damaged \in BOOLEAN
  BY DEF Typed, TypeOK
<1>2. /\ chain \in [Chunks -> Seq(Chunks)] /\ DOMAIN rec = Chunks
      /\ \A c \in Chunks : chain[c] # <<>> => rec[c].schema \in Schemas
      /\ \A c \in Chunks : chain[c] = <<>> => rec[c].schema = 0
      /\ \A t \in Schemas : cnt[t] = Cardinality(Of(t))
      /\ \A c \in Chunks : DOMAIN rec[c] = {"schema", "parent", "child", "prev", "brother", "row"}
  BY DEF Typed, Counted, Shaped
<1>3. e \in Chunks /\ chain[e] # <<>> /\ rec[e].schema \in Schemas
  BY <1>2 DEF Elements
<1>4. /\ \A c \in Chunks : {rec[c].parent, rec[c].child, rec[c].prev, rec[c].brother} \subseteq Ptr
      /\ \A c \in Chunks : \/ rec[c].schema \in Schemas /\ rec[c].row \in Rows(rec[c].schema)
                           \/ rec[c].schema = 0 /\ rec[c].row = <<>>
  BY <1>1 DEF Box
<1>5. 0 \in Ptr
  BY SizesAssumption DEF Ptr
<1>6. /\ DOMAIN Unlinked(e) = Chunks
      /\ \A c \in Chunks :
           /\ DOMAIN Unlinked(e)[c] = DOMAIN rec[c]
           /\ Unlinked(e)[c].schema = rec[c].schema /\ Unlinked(e)[c].row = rec[c].row
           /\ Unlinked(e)[c].parent = rec[c].parent /\ Unlinked(e)[c].prev = rec[c].prev
           /\ Unlinked(e)[c].child \in {rec[c].child, rec[e].brother}
           /\ Unlinked(e)[c].brother \in {rec[c].brother, rec[e].brother}
  <2>1. CASE rec[e].parent = 0
    BY <1>2, <2>1 DEF Unlinked
  <2>2. CASE rec[e].parent # 0 /\ rec[e].prev = 0
    BY <1>2, <2>2 DEF Unlinked
  <2>3. CASE rec[e].parent # 0 /\ rec[e].prev # 0
    BY <1>2, <2>3 DEF Unlinked
  <2> QED
    BY <2>1, <2>2, <2>3
<1>7. rec' = [Unlinked(e) EXCEPT ![e] = ZeroRec]
  BY DEF Remove
<1>8. DOMAIN rec' = Chunks /\ rec'[e] = ZeroRec /\ \A c \in Chunks : c # e => rec'[c] = Unlinked(e)[c]
  BY <1>3, <1>6, <1>7
<1>9. Shaped'
  <2>1. DOMAIN ZeroRec = {"schema", "parent", "child", "prev", "brother", "row"}
    BY DEF ZeroRec
  <2> QED
    BY <1>2, <1>6, <1>8, <2>1 DEF Shaped
<1>10. \A c \in Chunks : Box(rec[c])'
  <2>1. /\ \A c \in Chunks : {rec'[c].parent, rec'[c].child, rec'[c].prev, rec'[c].brother} \subseteq Ptr
        /\ \A c \in Chunks : \/ rec'[c].schema \in Schemas /\ rec'[c].row \in Rows(rec'[c].schema)
                             \/ rec'[c].schema = 0 /\ rec'[c].row = <<>>
    <3>1. ASSUME NEW c \in Chunks, c # e
          PROVE  /\ {rec'[c].parent, rec'[c].child, rec'[c].prev, rec'[c].brother} \subseteq Ptr
                 /\ rec'[c].schema = rec[c].schema /\ rec'[c].row = rec[c].row
      BY <1>3, <1>4, <1>6, <1>8, <3>1
    <3>2. /\ {rec'[e].parent, rec'[e].child, rec'[e].prev, rec'[e].brother} \subseteq Ptr
          /\ rec'[e].schema = 0 /\ rec'[e].row = <<>>
      BY <1>5, <1>8 DEF ZeroRec
    <3> QED
      BY <1>4, <3>1, <3>2
  <2> QED
    BY <2>1 DEF Box
<1>11. chain' = [chain EXCEPT ![e] = <<>>]
  BY DEF Remove
<1>12. /\ chain' \in [Chunks -> Seq(Chunks)] /\ chain'[e] = <<>>
       /\ \A c \in Chunks : c # e => chain'[c] = chain[c]
  BY <1>2, <1>3, <1>11
<1>13. \A c \in Chunks : c # e => rec'[c].schema = rec[c].schema
  BY <1>6, <1>8
<1>14. rec'[e].schema = 0
  BY <1>8 DEF ZeroRec
<1>15. \A t : Of(t)' = Of(t) \ {e}
  BY <1>12, <1>13 DEF Of
<1>16. cnt' = [cnt EXCEPT ![rec[e].schema] = @ - 1]
  BY DEF Remove
<1>17. ASSUME NEW t \in Schemas PROVE cnt'[t] = Cardinality(Of(t)') /\ cnt'[t] \in Nat
  <2>0. IsFiniteSet(Of(t)')
    BY <1>15, OfFinite, FS_Subset
  <2>1. CASE e \in Of(t)
    <3>1. rec[e].schema = t
      BY <2>1 DEF Of
    <3>2. Cardinality(Of(t) \ {e}) = Cardinality(Of(t)) - 1
      BY <2>1, OfFinite, FS_RemoveElement
    <3>3. cnt'[t] = Cardinality(Of(t)')
      BY <1>1, <1>2, <1>15, <1>16, <3>1, <3>2
    <3> QED
      BY <2>0, <3>3, FS_CardinalityType
  <2>2. CASE e \notin Of(t)
    <3>1. rec[e].schema # t
      BY <1>3, <2>2 DEF Of
    <3>2. Of(t)' = Of(t)
      BY <1>15, <2>2
    <3> QED
      BY <1>1, <1>2, <1>16, <3>1, <3>2
  <2> QED
    BY <2>1, <2>2
<1>18. cnt' \in [Schemas -> Nat]
  BY <1>1, <1>16, <1>17
<1>19. free' \in Seq(Chunks)
  <2>1. chain[e] \in Seq(Chunks) /\ FreeFrom(rec[e].prev) \in Seq(Chunks)
    BY <1>1, <1>2, <1>3, FreeTyped
  <2> HIDE DEF Chunks
  <2> QED
    BY <1>1, <2>1, ConcatProperties DEF Remove
<1>20. first' \in Ptr /\ count' \in Nat /\ fileEnd' \in Ptr
  BY <1>1, <1>5 DEF Remove
<1>21. damaged' \in BOOLEAN
  BY <1>1 DEF Remove
<1>22. Counted'
  <2>1. \A c \in Chunks : "schema" \in DOMAIN rec'[c]
    BY <1>9 DEF Shaped
  <2>2. \A c \in Chunks : chain'[c] = <<>> => rec'[c].schema = 0
    BY <1>2, <1>12, <1>13, <1>14
  <2>3. DOMAIN cnt' = Schemas
    BY <1>18
  <2> QED
    BY <1>8, <1>17, <2>1, <2>2, <2>3 DEF Counted
<1>23. \A c \in Chunks : chain'[c] # <<>> => rec'[c].schema \in Schemas
  BY <1>2, <1>12, <1>13
<1> QED
  BY <1>9, <1>10, <1>12, <1>18, <1>19, <1>20, <1>21, <1>22, <1>23

\* InsertElement keeps the types.
LEMMA InsertTyped ==
  ASSUME Kept, Typed, NEW p \in 0 .. fileEnd, NEW s \in Schemas, NEW row \in Rows(s), Insert(p, s, row)
  PROVE  Typed'
<1> DEFINE id == free[1]
           n == Size[s]
           m == Pages(n) * ChunksPerPage
<1>1. /\ first \in Ptr /\ it \in Ptr /\ count \in Nat /\ i \in Nat /\ cnt \in [Schemas -> Nat]
      /\ fileEnd \in Ptr /\ \A c \in Chunks : Box(rec[c])
      /\ pc \in {"idle", "delete"} /\ sel \in Queries \cup {NoQuery} /\ keep \subseteq Chunks
  BY DEF Typed, TypeOK
<1>2. /\ DOMAIN rec = Chunks
      /\ \A c \in Chunks : DOMAIN rec[c] = {"schema", "parent", "child", "prev", "brother", "row"}
      /\ \A c \in Chunks : chain[c] # <<>> => rec[c].schema \in Schemas
  BY DEF Typed, Counted, Shaped
<1>3. Kept'
  BY InsertKeeps
<1>4. /\ fileEnd' \in 0 .. MaxChunks /\ free' \in Seq(1 .. fileEnd')
      /\ chain' \in [Chunks -> Seq(1 .. fileEnd')] /\ Counted'
  BY <1>3 DEF Kept, Placed, FreeOnce, Chained
<1>5. free' \in Seq(Chunks) /\ chain' \in [Chunks -> Seq(Chunks)]
  <2>1. 1 .. fileEnd' \subseteq Chunks
    BY <1>4, SizesAssumption DEF Chunks
  <2>2. free' \in Seq(Chunks)
    BY <1>4, <2>1, Wider
  <2>3. \A c \in Chunks : chain'[c] \in Seq(Chunks)
    BY <1>4, <2>1, Wider
  <2> QED
    BY <1>4, <2>2, <2>3
<1>6. id \in Chunks /\ id \in Ptr /\ p \in Ptr /\ 0 \in Ptr
  <2>1. /\ fileEnd \in 0 .. MaxChunks /\ free \in Seq(1 .. fileEnd) /\ Len(free) >= 1
    BY DEF Kept, Placed, FreeOnce
  <2>2. Len(free) \in Nat /\ 1 \in 1 .. Len(free)
    BY <2>1
  <2>3. id \in 1 .. fileEnd
    BY <2>1, <2>2, ElementOfSeq
  <2> QED
    BY <2>1, <2>3, SizesAssumption DEF Chunks, Ptr
<1>7. /\ rec' = [c \in Chunks |->
                  IF c = id THEN [ZeroRec EXCEPT !.schema = s, !.parent = p, !.row = row,
                                    !.brother = IF p = 0 THEN 0 ELSE rec[p].child]
                  ELSE IF c = p THEN [rec[c] EXCEPT !.child = id]
                  ELSE IF p # 0 /\ c = rec[p].child THEN [rec[c] EXCEPT !.prev = id]
                  ELSE rec[c]]
      /\ first' = (IF p = 0 THEN id ELSE first) /\ count' = count + 1
      /\ cnt' = [cnt EXCEPT ![s] = @ + 1] /\ UNCHANGED loop
      /\ damaged' = (p # 0 /\ p \notin Elements)
  BY DEF Insert
<1>8. \A c \in Chunks : chain'[c] # <<>> => c = id \/ chain[c] # <<>>
  BY DEF Insert, Kept, Placed, Chained
<1> HIDE DEF id, n, m
<1>9. \A c \in Chunks : {rec[c].parent, rec[c].child, rec[c].prev, rec[c].brother} \subseteq Ptr
  BY <1>1 DEF Box
<1>10. p # 0 => p \in Chunks
  BY <1>6, SizesAssumption DEF Ptr, Chunks
<1>11. /\ DOMAIN rec'[id] = {"schema", "parent", "child", "prev", "brother", "row"}
       /\ {rec'[id].parent, rec'[id].child, rec'[id].prev, rec'[id].brother} \subseteq Ptr
       /\ rec'[id].schema = s /\ rec'[id].row = row
  <2>1. rec'[id] = [ZeroRec EXCEPT !.schema = s, !.parent = p, !.row = row,
                                   !.brother = IF p = 0 THEN 0 ELSE rec[p].child]
    BY <1>6, <1>7
  <2>2. (IF p = 0 THEN 0 ELSE rec[p].child) \in Ptr
    BY <1>6, <1>9, <1>10
  <2> QED
    BY <1>6, <2>1, <2>2 DEF ZeroRec
<1>12. ASSUME NEW c \in Chunks, c # id
       PROVE  /\ DOMAIN rec'[c] = {"schema", "parent", "child", "prev", "brother", "row"}
              /\ {rec'[c].parent, rec'[c].child, rec'[c].prev, rec'[c].brother} \subseteq Ptr
              /\ rec'[c].schema = rec[c].schema /\ rec'[c].row = rec[c].row
  <2>1. rec'[c] = IF c = p THEN [rec[c] EXCEPT !.child = id]
                  ELSE IF p # 0 /\ c = rec[p].child THEN [rec[c] EXCEPT !.prev = id]
                  ELSE rec[c]
    BY <1>7, <1>12
  <2> QED
    BY <1>2, <1>6, <1>9, <2>1
<1>13. Shaped'
  BY <1>11, <1>12 DEF Shaped
<1>14. \A c \in Chunks : Box(rec[c])'
  BY <1>1, <1>11, <1>12 DEF Box
<1>15. \A c \in Chunks : chain'[c] # <<>> => rec'[c].schema \in Schemas
  BY <1>2, <1>8, <1>11, <1>12
<1>16. cnt' \in [Schemas -> Nat] /\ count' \in Nat /\ first' \in Ptr
  BY <1>1, <1>6, <1>7
<1>17. damaged' \in BOOLEAN
  BY <1>7
<1>18. fileEnd' \in Ptr
  BY <1>4 DEF Ptr
<1>19. UNCHANGED <<it, i, pc, sel, keep>>
  BY <1>7 DEF loop
<1>20. TypeOK'
  BY <1>1, <1>5, <1>14, <1>16, <1>17, <1>18, <1>19 DEF TypeOK
<1> QED
  BY <1>4, <1>5, <1>13, <1>15, <1>20 DEF Typed

\* UpdateElements writes values to rows.
LEMMA UpdateTyped ==
  ASSUME Kept, Typed, NEW u \in Updates, Update(u)
  PROVE  Typed'
<1>1. /\ DOMAIN rec = Chunks
      /\ \A c \in Chunks : DOMAIN rec[c] = {"schema", "parent", "child", "prev", "brother", "row"}
      /\ \A c \in Chunks : chain[c] # <<>> => rec[c].schema \in Schemas
      /\ \A c \in Chunks : Box(rec[c])
      /\ chain \in [Chunks -> Seq(Chunks)] /\ TypeOK
  BY DEF Typed, Counted, Shaped, TypeOK
<1>2. /\ rec' = [c \in Chunks |-> IF c \in Visited(u) /\ Hit(u, c)
                              THEN [rec[c] EXCEPT !.row = Written(u, rec[c].row)] ELSE rec[c]]
      /\ UNCHANGED <<first, count, cnt, chain, free, fileEnd, loop, damaged>>
  BY <1>1 DEF Update
<1>3. Counted'
  BY UpdateKeeps DEF Kept
<1>4. ASSUME NEW c \in Chunks
      PROVE  /\ DOMAIN rec'[c] = DOMAIN rec[c]
             /\ rec'[c].schema = rec[c].schema /\ rec'[c].parent = rec[c].parent
             /\ rec'[c].child = rec[c].child /\ rec'[c].prev = rec[c].prev
             /\ rec'[c].brother = rec[c].brother
             /\ rec'[c].row \in {rec[c].row, Written(u, rec[c].row)}
  BY <1>1, <1>2
<1>5. \A s : \A row \in Rows(s) : Written(u, row) \in Rows(s)
  BY UpdatesAssumption DEF Rows, Written
<1>6. Written(u, <<>>) = <<>>
  BY DEF Written
<1>7. \A c \in Chunks : Box(rec[c])'
  BY <1>1, <1>4, <1>5, <1>6 DEF Box
<1>8. Shaped'
  BY <1>1, <1>4 DEF Shaped
<1>9. UNCHANGED <<it, i, pc, sel, keep>>
  BY <1>2 DEF loop
<1>10. TypeOK'
  BY <1>1, <1>2, <1>7, <1>9 DEF TypeOK
<1> QED
  BY <1>1, <1>2, <1>3, <1>4, <1>8, <1>10 DEF Typed

\* What leaves the tree alone keeps them, when the loop keeps its own.
LEMMA LoopTyped ==
  ASSUME Typed, UNCHANGED tree, it' \in Ptr, i' \in Nat, pc' \in {"idle", "delete"},
         sel' \in Queries \cup {NoQuery}, keep' \subseteq Chunks, damaged' \in BOOLEAN
  PROVE  Typed'
<1>1. UNCHANGED <<first, count, cnt, rec, chain, free, fileEnd>>
  BY DEF tree
<1>2. \A s : Of(s)' = Of(s)
  BY <1>1 DEF Of
<1>3. Counted' /\ Shaped'
  BY <1>1, <1>2 DEF Typed, Counted, Shaped
<1>4. TypeOK'
  BY <1>1 DEF Typed, TypeOK, Box
<1> QED
  BY <1>1, <1>3, <1>4 DEF Typed

LEMMA InitTyped == Init => Typed
<1> SUFFICES ASSUME Init PROVE Typed
  OBVIOUS
<1>1. Counted
  BY InitKept DEF Kept
<1>2. 0 \in Ptr /\ ChunksPerPage \in Ptr
  BY SizesAssumption DEF Ptr
<1>3. Box(ZeroRec)
  BY <1>2 DEF Box, ZeroRec
<1>4. [k \in 1 .. ChunksPerPage |-> k] \in Seq(Chunks)
  BY SizesAssumption DEF Chunks
<1>5. Shaped
  BY DEF Init, Shaped, ZeroRec
<1>6. TypeOK
  <2>1. first \in Ptr /\ it \in Ptr /\ count \in Nat /\ i \in Nat /\ cnt \in [Schemas -> Nat]
    BY <1>2 DEF Init
  <2>2. \A c \in Chunks : Box(rec[c])
    BY <1>3 DEF Init
  <2>3. \A c \in Chunks : chain[c] \in Seq(Chunks)
    BY DEF Init
  <2>4. free \in Seq(Chunks)
    BY <1>4 DEF Init
  <2>5. /\ fileEnd \in Ptr /\ pc \in {"idle", "delete"} /\ sel \in Queries \cup {NoQuery}
        /\ keep \subseteq Chunks /\ damaged \in BOOLEAN
    BY <1>2 DEF Init
  <2> QED
    BY <2>1, <2>2, <2>3, <2>4, <2>5 DEF TypeOK
<1>7. chain \in [Chunks -> Seq(Chunks)] /\ \A c \in Chunks : chain[c] = <<>>
  BY DEF Init
<1> QED
  BY <1>1, <1>5, <1>6, <1>7 DEF Typed

\* Every step keeps the types.
LEMMA NextTyped ==
  ASSUME IInv, TreeInv, Typed, [Next]_vars
  PROVE  Typed'
<1>0. /\ ~damaged => Kept /\ \E pos, lo : Scanned(pos, lo)
      /\ \A c \in Chunks : {rec[c].parent, rec[c].child, rec[c].brother} \subseteq Ptr
      /\ first \in Ptr /\ it \in Ptr /\ count \in Nat /\ i \in Nat
      /\ pc \in {"idle", "delete"} /\ sel \in Queries \cup {NoQuery} /\ keep \subseteq Chunks
      /\ damaged \in BOOLEAN /\ 0 \in Ptr
  BY SizesAssumption DEF IInv, TreeInv, Typed, TypeOK, Box, Ptr
<1>1. ASSUME NEW p \in 0 .. fileEnd, NEW s \in Schemas, NEW row \in Rows(s), Insert(p, s, row)
      PROVE  Typed'
  <2>1. ~damaged
    BY <1>1 DEF Insert, Ready
  <2> QED
    BY <1>0, <1>1, <2>1, InsertTyped
<1>2. ASSUME NEW e \in Chunks, Delete(e) PROVE Typed'
  <2>1. ~damaged /\ UNCHANGED <<pc, it, i, sel, keep>> /\ Remove(e) /\ Sought(e)
    BY <1>2 DEF Delete, Ready, loop
  <2>2. PICK pos, lo : Scanned(pos, lo)
    BY <1>0, <2>1
  <2>3. e \in Elements /\ count >= 1
    BY <1>0, <2>1, <2>2, OrderIs DEF Sought
  <2>4. /\ first' \in Ptr /\ count' \in Nat /\ cnt' \in [Schemas -> Nat]
        /\ \A c \in Chunks : Box(rec[c])'
        /\ free' \in Seq(Chunks) /\ fileEnd' \in Ptr /\ damaged' \in BOOLEAN
        /\ Shaped' /\ Counted' /\ chain' \in [Chunks -> Seq(Chunks)]
        /\ \A c \in Chunks : chain'[c] # <<>> => rec'[c].schema \in Schemas
    BY <2>1, <2>3, RemoveTyped
  <2>5. TypeOK'
    BY <1>0, <2>1, <2>4 DEF TypeOK
  <2> QED
    BY <2>4, <2>5 DEF Typed
<1>3. ASSUME NEW e \in Chunks, DeleteFails(e) PROVE Typed'
  <2>1. UNCHANGED <<pc, it, i, sel, keep>> /\ damaged' = TRUE /\ UNCHANGED tree
    BY <1>3 DEF DeleteFails, loop
  <2> QED
    BY <1>0, <2>1, LoopTyped
<1>4. ASSUME NEW q \in Queries, DeleteBegin(q) PROVE Typed'
  <2>1. /\ ~damaged /\ pc' = "delete" /\ it' = Begin /\ i' = 0 /\ sel' = q /\ keep' = Survivors(q)
        /\ UNCHANGED <<tree, damaged>>
    BY <1>4 DEF DeleteBegin, Ready
  <2>2. PICK pos, lo : Scanned(pos, lo)
    BY <1>0, <2>1
  <2>3. Survivors(q) \subseteq Chunks
    BY <2>2, SurvivorsAre DEF Elements
  <2>4. Begin \in Ptr
    BY <1>0, BeginTyped
  <2> QED
    BY <1>0, <2>1, <2>3, <2>4, LoopTyped
<1>5. CASE DeleteRemove
  <2>1. /\ it \in Elements /\ i < count /\ Remove(it) /\ it' = After(it)
        /\ UNCHANGED <<pc, i, sel, keep>>
    BY <1>5 DEF DeleteRemove
  <2>2. count >= 1
    BY <1>0, <2>1
  <2>3. After(it) \in Ptr
    BY <1>0, <2>1, AfterTyped DEF Elements
  <2>4. /\ first' \in Ptr /\ count' \in Nat /\ cnt' \in [Schemas -> Nat]
        /\ \A c \in Chunks : Box(rec[c])'
        /\ free' \in Seq(Chunks) /\ fileEnd' \in Ptr /\ damaged' \in BOOLEAN
        /\ Shaped' /\ Counted' /\ chain' \in [Chunks -> Seq(Chunks)]
        /\ \A c \in Chunks : chain'[c] # <<>> => rec'[c].schema \in Schemas
    BY <2>1, <2>2, RemoveTyped
  <2>5. TypeOK'
    BY <1>0, <2>1, <2>3, <2>4 DEF TypeOK
  <2> QED
    BY <2>4, <2>5 DEF Typed
<1>6. CASE DeleteSkip
  <2>1. /\ it \in Elements /\ i' = i + 1 /\ it' = After(it) /\ UNCHANGED <<tree, pc, sel, keep, damaged>>
    BY <1>6 DEF DeleteSkip
  <2>2. After(it) \in Ptr
    BY <1>0, <2>1, AfterTyped DEF Elements
  <2> QED
    BY <1>0, <2>1, <2>2, LoopTyped
<1>7. CASE DeleteReturn
  BY <1>0, <1>7, LoopTyped DEF DeleteReturn, LoopEnds
<1>8. CASE DeleteThrow
  BY <1>0, <1>8, LoopTyped DEF DeleteThrow, LoopEnds
<1>9. ASSUME NEW u \in Updates, Update(u) PROVE Typed'
  <2>1. ~damaged
    BY <1>9 DEF Update, Ready
  <2> QED
    BY <1>0, <1>9, <2>1, UpdateTyped
<1>10. CASE UNCHANGED vars
  <2>1. UNCHANGED <<tree, pc, it, i, sel, keep, damaged>>
    BY <1>10 DEF vars, loop
  <2> QED
    BY <1>0, <2>1, LoopTyped
<1> QED
  BY <1>1, <1>2, <1>3, <1>4, <1>5, <1>6, <1>7, <1>8, <1>9, <1>10 DEF Next, DeleteStep

-----------------------------------------------------------------------------
(* What follows from it.                                                   *)

Whole == IInv /\ Typed /\ TreeInv

LEMMA InitTree == Init => TreeInv
<1> SUFFICES ASSUME Init PROVE \E pos, lo : Scanned(pos, lo) /\ Loop(pos)
  BY DEF TreeInv
<1>1. Elements = {} /\ count = 0 /\ first = 0 /\ pc = "idle"
  BY DEF Init, Elements
<1>2. \A pos, lo : Scanned(pos, lo) /\ Loop(pos)
  BY <1>1 DEF Scanned, Loop
<1> QED
  BY <1>2

\* The three parts hold in every behaviour.
LEMMA WholeAlways == Spec => []Whole
<1>1. Init => Whole
  BY InitKept, InitTyped, InitTree DEF Whole, IInv
<1>2. Whole /\ [Next]_vars => Whole'
  <2> SUFFICES ASSUME Whole, [Next]_vars PROVE Whole'
    OBVIOUS
  <2>1. IInv /\ Typed /\ TreeInv /\ Shaped
    BY DEF Whole, Typed
  <2>2. IInv' /\ Typed' /\ TreeInv'
    BY <2>1, NextKept, NextTyped, NextTree
  <2> QED
    BY <2>2 DEF Whole
<1> QED
  BY <1>1, <1>2, PTL DEF Spec

\* The types hold, also after the call that damages the file.
THEOREM TreeTypeOK == Spec => []TypeOK
<1>1. Whole => TypeOK
  BY DEF Whole, Typed
<1> QED
  BY <1>1, WholeAlways, PTL

\* The loop of GetElements, which trusts count and never looks for the end,
\* meets every element once, children before their parent, and ends above the
\* root.
THEOREM ScansComplete == Spec => []ScanComplete
<1>1. Whole => ScanComplete
  <2> SUFFICES ASSUME Whole, ~damaged PROVE ScanComplete
    BY DEF ScanComplete
  <2>1. PICK pos, lo : Scanned(pos, lo)
    BY DEF Whole, TreeInv
  <2>2. count = Cardinality(Elements) /\ count \in Nat
    BY <2>1, ScanCount
  <2>3. /\ \A k \in 1 .. count : Order[k] \in Elements /\ pos[Order[k]] = k
        /\ Order[count + 1] = 0
    BY <2>1, OrderIs
  <2>4. /\ \A x \in Elements : pos[x] \in 1 .. count
        /\ \A x, y \in Elements : pos[x] = pos[y] => x = y
        /\ \A x \in Elements : rec[x].parent = 0 \/ pos[x] < pos[rec[x].parent]
        /\ 0 \notin Elements
    BY <2>1 DEF Scanned, Elements, Chunks
  <2> DEFINE order == [k \in 1 .. count + 1 |-> Order[k]]
             K == 1 .. count
  <2>5. order[count + 1] = 0 /\ \A k \in K : order[k] = Order[k]
    BY <2>2, <2>3
  <2>6. \A j, k \in K : rec[order[j]].parent = order[k] => j < k
    BY <2>2, <2>3, <2>4, <2>5
  <2>7. \A x \in Elements : \E k \in K : order[k] = x
    BY <2>3, <2>4, <2>5
  <2>8. \A k \in K : order[k] \in Elements
    BY <2>3, <2>5
  <2> HIDE DEF K, order, Elements
  <2>9. {order[k] : k \in K} = Elements
    BY <2>7, <2>8, Zenon
  <2> QED
    BY <2>2, <2>5, <2>6, <2>9 DEF ScanComplete, K, order
<1> QED
  BY <1>1, WholeAlways, PTL

\* The links down and the links up describe one tree, and its nodes are the
\* elements.
THEOREM LinksKept == Spec => []LinksAgree
<1>1. Whole => LinksAgree
  <2> SUFFICES ASSUME Whole, ~damaged PROVE LinksAgree
    BY DEF LinksAgree
  <2>1. PICK pos, lo : Scanned(pos, lo)
    BY DEF Whole, TreeInv
  <2>2. Live = Elements
    BY <2>1, LiveIs
  <2>3. /\ \A p \in Elements : Brothers(rec[p].child) = {x \in Elements : rec[x].parent = p}
        /\ Brothers(first) = {x \in Elements : rec[x].parent = 0}
    BY <2>1, BrothersAre
  <2>4. \A x \in Elements : IF rec[x].parent = 0 THEN x = first ELSE rec[x].parent \in Elements
    BY <2>1 DEF Scanned
  <2> HIDE DEF Elements
  <2>5. ASSUME NEW e \in Elements
        PROVE  /\ \A b \in Brothers(rec[e].child) : rec[b].parent = e
               /\ IF rec[e].parent = 0 THEN Brothers(first) = {e}
                  ELSE rec[e].parent \in Elements /\ e \in Brothers(rec[rec[e].parent].child)
    <3>1. \A b \in Brothers(rec[e].child) : rec[b].parent = e
      BY <2>3
    <3>2. CASE rec[e].parent = 0
      BY <2>3, <2>4, <3>1, <3>2
    <3>3. CASE rec[e].parent # 0
      BY <2>3, <2>4, <3>1, <3>3
    <3> QED
      BY <3>2, <3>3
  <2> QED
    BY <2>2, <2>5 DEF LinksAgree
<1> QED
  BY <1>1, WholeAlways, PTL

\* GetElementByPath finds exactly the paths that go from the root through
\* parents to their children, and its answer is undefined for exactly those that
\* go on below an element without children.
THEOREM PathsFound == Spec => []PathsAgree
<1>1. Whole => PathsAgree
  <2> SUFFICES ASSUME Whole, ~damaged, NEW path \in Paths
               PROVE  /\ GetElementByPath(path) = "found" <=> Descends(path, Len(path))
                      /\ GetElementByPath(path) = "undefined" <=>
                           \E k \in 1 .. Len(path) - 1 :
                             Descends(path, k) /\ \A e \in Elements : rec[e].parent # path[k]
    BY DEF PathsAgree
  <2>1. PICK pos, lo : Scanned(pos, lo)
    BY DEF Whole, TreeInv
  <2>2. /\ \A p \in Elements : Brothers(rec[p].child) = {x \in Elements : rec[x].parent = p}
        /\ Brothers(first) = {x \in Elements : rec[x].parent = 0}
    BY <2>1, BrothersAre
  <2>3. PICK n \in 1 .. 3 : path \in [1 .. n -> Elements]
    BY DEF Paths
  <2>4. Len(path) = n /\ DOMAIN path = 1 .. n /\ \A k \in 1 .. n : path[k] \in Elements
    BY <2>3
  <2>5. first # 0
    <3>1. path[1] \in Elements /\ pos[path[1]] \in 1 .. count /\ count \in Nat
      BY <2>1, <2>4 DEF Scanned
    <3>2. count # 0
      BY <3>1
    <3> QED
      BY <2>1, <3>2 DEF Scanned, Elements, Chunks
  <2>6. \A p \in Elements : rec[p].child = 0 <=> \A x \in Elements : rec[x].parent # p
    <3>1. ASSUME NEW p \in Elements, rec[p].child = 0, NEW x \in Elements PROVE rec[x].parent # p
      BY <2>1, <3>1, Leafless
    <3>2. ASSUME NEW p \in Elements, rec[p].child # 0 PROVE \E x \in Elements : rec[x].parent = p
      BY <2>1, <3>2 DEF Scanned
    <3> QED
      BY <3>1, <3>2
  <2> HIDE DEF Elements
  <2>7. ASSUME NEW k \in 1 .. n
        PROVE  path[k] \in Brothers(Start(path, k))
                 <=> rec[path[k]].parent = (IF k = 1 THEN 0 ELSE path[k - 1])
    <3>1. path[k] \in Elements /\ (k # 1 => path[k - 1] \in Elements)
      BY <2>4
    <3> QED
      BY <2>2, <3>1 DEF Start
  <2>8. \A m \in 0 .. n : Found(path, m) <=> Descends(path, m)
    <3> SUFFICES ASSUME NEW m \in 0 .. n PROVE Found(path, m) <=> Descends(path, m)
      OBVIOUS
    <3>1. \A k \in 1 .. m : k \in 1 .. n
      OBVIOUS
    <3> QED
      BY <2>7, <3>1 DEF Found, Descends
  <2>9. ReadsAtZero(path) <=> \E k \in 1 .. n - 1 :
                                Descends(path, k) /\ \A x \in Elements : rec[x].parent # path[k]
    <3>1. ASSUME ReadsAtZero(path)
          PROVE  \E k \in 1 .. n - 1 :
                   Descends(path, k) /\ \A x \in Elements : rec[x].parent # path[k]
      <4>1. PICK k \in 1 .. n : Found(path, k - 1) /\ Start(path, k) = 0
        BY <2>4, <3>1 DEF ReadsAtZero
      <4>2. k # 1
        BY <2>5, <4>1 DEF Start
      <4>3. k - 1 \in 1 .. n - 1 /\ k - 1 \in 1 .. n /\ k - 1 \in 0 .. n
        BY <4>2
      <4>4. rec[path[k - 1]].child = 0 /\ path[k - 1] \in Elements
        BY <2>4, <4>1, <4>2, <4>3 DEF Start
      <4> QED
        BY <2>6, <2>8, <4>1, <4>3, <4>4
    <3>2. ASSUME NEW k \in 1 .. n - 1, Descends(path, k), \A x \in Elements : rec[x].parent # path[k]
          PROVE  ReadsAtZero(path)
      <4>1. k + 1 \in 1 .. n /\ k \in 1 .. n /\ k \in 0 .. n /\ (k + 1) - 1 = k /\ k + 1 # 1
        OBVIOUS
      <4>2. Found(path, k) /\ rec[path[k]].child = 0
        BY <2>4, <2>6, <2>8, <3>2, <4>1
      <4>3. Start(path, k + 1) = 0
        BY <4>1, <4>2 DEF Start
      <4> QED
        BY <2>4, <2>5, <4>1, <4>2, <4>3 DEF ReadsAtZero
    <3> QED
      BY <3>1, <3>2
  <2>10. Descends(path, n) => ~ReadsAtZero(path)
    <3> SUFFICES ASSUME Descends(path, n), ReadsAtZero(path) PROVE FALSE
      OBVIOUS
    <3>1. PICK k \in 1 .. n - 1 : \A x \in Elements : rec[x].parent # path[k]
      BY <2>9
    <3>2. k + 1 \in 1 .. n /\ (k + 1) - 1 = k /\ k + 1 # 1
      OBVIOUS
    <3>3. rec[path[k + 1]].parent = path[k] /\ path[k + 1] \in Elements
      BY <2>4, <3>2 DEF Descends
    <3> QED
      BY <3>1, <3>3
  <2>11. n \in 0 .. n
    OBVIOUS
  <2> QED
    BY <2>4, <2>8, <2>9, <2>10, <2>11 DEF GetElementByPath
<1> QED
  BY <1>1, WholeAlways, PTL

\* The iterator of DeleteElements, which removes what it stands on, never
\* stands on a freed element.
THEOREM IteratorStands == Spec => []IteratorLive
<1>1. Whole => IteratorLive
  BY DEF Whole, TreeInv, Loop, IteratorLive
<1> QED
  BY <1>1, WholeAlways, PTL

\* DeleteElements removes exactly the elements it selects, save those with a
\* descendant it does not select.
THEOREM DeletionsExact == Spec => DeletesExact
<1>1. Whole /\ [Next]_vars
        => [pc = "delete" /\ pc' = "idle" /\ ~damaged' => Live = keep]_vars
  <2> SUFFICES ASSUME Whole, Next, pc = "delete", pc' = "idle", ~damaged' PROVE Live = keep \/ UNCHANGED vars
    OBVIOUS
  <2>1. CASE DeleteReturn
    <3>1. ~damaged /\ i >= count
      BY <2>1 DEF DeleteReturn
    <3>2. PICK pos, lo : Scanned(pos, lo) /\ Loop(pos)
      BY <3>1 DEF Whole, TreeInv
    <3>3. count \in Nat /\ i \in Nat /\ \A x \in Elements : pos[x] \in Nat /\ pos[x] <= count
      BY <3>2 DEF Scanned, Loop
    <3>4. keep \subseteq Elements /\ \A x \in Elements : pos[x] <= i => x \in keep
      BY <3>2 DEF Loop
    <3>5. keep = Elements
      BY <3>1, <3>3, <3>4
    <3> QED
      BY <3>2, <3>5, LiveIs
  <2>2. ASSUME NEW p, NEW s, NEW row, Insert(p, s, row) PROVE FALSE
    BY <2>2 DEF Insert, Ready
  <2>3. ASSUME NEW e, Delete(e) \/ DeleteFails(e) PROVE FALSE
    BY <2>3 DEF Delete, DeleteFails, Ready
  <2>4. ASSUME NEW q, DeleteBegin(q) PROVE FALSE
    BY <2>4 DEF DeleteBegin, Ready
  <2>5. ASSUME NEW u, Update(u) PROVE FALSE
    BY <2>5 DEF Update, Ready
  <2>6. ~DeleteRemove /\ ~DeleteSkip /\ ~DeleteThrow
    BY DEF DeleteRemove, DeleteSkip, DeleteThrow
  <2> QED
    BY <2>1, <2>2, <2>3, <2>4, <2>5, <2>6 DEF Next, DeleteStep
<1> QED
  BY <1>1, WholeAlways, PTL DEF Spec, DeletesExact

-----------------------------------------------------------------------------
(* The calls implement those of ElementForest.                             *)

LiveForm == Whole => (~damaged => Live = Elements)

LEMMA LiveWhole == LiveForm
<1> SUFFICES ASSUME Whole, ~damaged PROVE Live = Elements
  BY DEF LiveForm
<1>1. PICK pos, lo : Scanned(pos, lo)
  BY DEF Whole, TreeInv
<1> QED
  BY <1>1, LiveIs

\* Where the tree is not changed, neither is what it shows.
LEMMA NodesSame ==
  ASSUME Live = Elements, Live' = Elements', Elements' = Elements,
         \A x \in Elements : /\ rec'[x].parent = rec[x].parent
                             /\ rec'[x].schema = rec[x].schema /\ rec'[x].row = rec[x].row
  PROVE  Nodes' = Nodes
<1> HIDE DEF Elements, Live
<1>1. /\ Nodes = [e \in Elements |-> [schema |-> rec[e].schema, parent |-> rec[e].parent,
                                      row |-> rec[e].row]]
      /\ Nodes' = [e \in Elements |-> [schema |-> rec'[e].schema, parent |-> rec'[e].parent,
                                       row |-> rec'[e].row]]
  BY DEF Nodes
<1> QED
  BY <1>1

\* InsertElement adds a node under an existing one, or the root of no tree.
LEMMA InsertForest ==
  ASSUME Live = Elements, Live' = Elements', count = 0 => Elements = {},
         NEW p, NEW s \in Schemas, NEW row \in Rows(s), NEW id \in Chunks, Grown(id, p, s, row)
  PROVE  Forest!Next
<1>1. /\ id \notin Elements /\ Elements' = Elements \cup {id}
      /\ IF p = 0 THEN Elements = {} ELSE p \in Elements
      /\ rec'[id].parent = p /\ rec'[id].schema = s /\ rec'[id].row = row
      /\ \A x \in Elements : /\ rec'[x].parent = rec[x].parent
                             /\ rec'[x].schema = rec[x].schema /\ rec'[x].row = rec[x].row
  BY DEF Grown
<1>2. p \in {0} \cup Chunks
  BY <1>1 DEF Elements
<1> HIDE DEF Elements, Live
<1>3. /\ Nodes = [e \in Elements |-> [schema |-> rec[e].schema, parent |-> rec[e].parent,
                                      row |-> rec[e].row]]
      /\ Nodes' = [e \in Elements \cup {id} |->
                     [schema |-> rec'[e].schema, parent |-> rec'[e].parent, row |-> rec'[e].row]]
  BY <1>1 DEF Nodes
<1>4. DOMAIN Nodes = Elements
  BY <1>3
<1>5. Nodes' = [y \in DOMAIN Nodes \cup {id} |->
                  IF y = id THEN [schema |-> s, parent |-> p, row |-> row] ELSE Nodes[y]]
  BY <1>1, <1>3, <1>4
<1>6. Forest!Insert(id, p, s, row)
  BY <1>1, <1>4, <1>5 DEF Forest!Insert
<1>7. row \in UNION {Rows(t) : t \in Schemas}
  OBVIOUS
<1> QED
  BY <1>2, <1>6, <1>7 DEF Forest!Next, Forest!Ids0

\* Remove of a leaf removes a node no other one is under.
LEMMA RemoveForest ==
  ASSUME Live = Elements, Live' = Elements', NEW e \in Elements,
         Elements' = Elements \ {e}, \A y \in Elements : rec[y].parent # e,
         \A x \in Elements \ {e} : /\ rec'[x].parent = rec[x].parent
                                   /\ rec'[x].schema = rec[x].schema /\ rec'[x].row = rec[x].row
  PROVE  Forest!Next
<1>1. e \in Chunks
  BY DEF Elements
<1> HIDE DEF Elements, Live
<1>2. /\ Nodes = [x \in Elements |-> [schema |-> rec[x].schema, parent |-> rec[x].parent,
                                      row |-> rec[x].row]]
      /\ Nodes' = [x \in Elements \ {e} |->
                     [schema |-> rec'[x].schema, parent |-> rec'[x].parent, row |-> rec'[x].row]]
  BY DEF Nodes
<1>3. DOMAIN Nodes = Elements /\ \A x \in Elements : Nodes[x].parent = rec[x].parent
  BY <1>2
<1>4. Nodes' = [y \in DOMAIN Nodes \ {e} |-> Nodes[y]]
  BY <1>2, <1>3
<1>5. Forest!Children(e) = {}
  BY <1>3 DEF Forest!Children
<1>6. Forest!Delete(e)
  BY <1>3, <1>4, <1>5 DEF Forest!Delete
<1> QED
  BY <1>1, <1>6 DEF Forest!Next

\* UpdateElements reads all elements where they are of one schema, and changes
\* those that satisfy its condition.
LEMMA UpdateForest ==
  ASSUME Live = Elements, Live' = Elements', Elements' = Elements,
         NEW pos, NEW lo, Scanned(pos, lo), Typed,
         \A s, t \in Schemas : s = t, NEW u \in Updates, Update(u)
  PROVE  Forest!Next
<1>1. /\ \A c \in Elements : rec[c].schema = u.schema /\ c \in Chunks
      /\ \A c \in Chunks : DOMAIN rec[c] = {"schema", "parent", "child", "prev", "brother", "row"}
      /\ HasField(u.schema, u.if)
  BY UpdatesAssumption DEF Typed, Shaped, Elements, Update
<1>2. /\ \A k \in 1 .. count : Order[k] \in Elements
      /\ \A x \in Elements : \E k \in 1 .. count : Order[k] = x
  <2>1. \A k \in 1 .. count : Order[k] \in Elements /\ pos[Order[k]] = k
    BY OrderIs
  <2>2. /\ \A x \in Elements : pos[x] \in 1 .. count
        /\ \A x, y \in Elements : pos[x] = pos[y] => x = y
    BY DEF Scanned
  <2> QED
    BY <2>1, <2>2
<1>3. Elements \subseteq Visited(u)
  <2>1. ASSUME NEW n \in 1 .. count, NEW m \in 1 .. n PROVE HasField(rec[Order[m]].schema, u.if)
    <3>1. m \in 1 .. count
      BY DEF Scanned
    <3> QED
      BY <1>1, <1>2, <3>1
  <2>2. SUFFICES ASSUME NEW x \in Elements PROVE x \in Visited(u)
    OBVIOUS
  <2>3. PICK k \in 1 .. count : Order[k] = x
    BY <1>2
  <2> QED
    BY <2>1, <2>3 DEF Visited
<1>4. ASSUME NEW x \in Elements
      PROVE  /\ rec'[x].parent = rec[x].parent /\ rec'[x].schema = rec[x].schema
             /\ rec'[x].row = RowAfter(u, rec[x].schema, rec[x].row)
  <2>1. rec'[x] = IF Hit(u, x) THEN [rec[x] EXCEPT !.row = Written(u, rec[x].row)] ELSE rec[x]
    BY <1>1, <1>3 DEF Update
  <2>2. RowAfter(u, rec[x].schema, rec[x].row)
          = IF Hit(u, x) THEN Written(u, rec[x].row) ELSE rec[x].row
    BY <1>1 DEF RowAfter, Hit
  <2> QED
    BY <1>1, <2>1, <2>2
<1> HIDE DEF Elements, Live
<1>5. /\ Nodes = [x \in Elements |-> [schema |-> rec[x].schema, parent |-> rec[x].parent,
                                      row |-> rec[x].row]]
      /\ Nodes' = [x \in Elements |->
                     [schema |-> rec'[x].schema, parent |-> rec'[x].parent, row |-> rec'[x].row]]
  BY DEF Nodes
<1>6. Nodes' = [y \in DOMAIN Nodes |->
                  [Nodes[y] EXCEPT !.row = RowAfter(u, Nodes[y].schema, Nodes[y].row)]]
  BY <1>4, <1>5
<1> QED
  BY <1>6 DEF Forest!Next, Forest!Update

\* A step that does not damage the file is one of ElementForest or none.
LEMMA NextForest ==
  ASSUME Updates = {} \/ \A s, t \in Schemas : s = t,
         Whole, Next, ~damaged', LiveForm, LiveForm', Whole'
  PROVE  Forest!Next \/ Nodes' = Nodes
<1>1. Live' = Elements' /\ Typed /\ Shaped
  BY DEF LiveForm, Whole, Typed
<1>2. ~damaged => /\ Live = Elements /\ Kept
                  /\ \E pos, lo : Scanned(pos, lo) /\ Loop(pos)
  BY DEF LiveForm, Whole, TreeInv, IInv
<1>3. ASSUME NEW p, NEW s \in Schemas, NEW row \in Rows(s), Insert(p, s, row) PROVE Forest!Next
  <2>1. ~damaged
    BY <1>3 DEF Insert, Ready
  <2>2. PICK id \in Chunks : Grown(id, p, s, row)
    BY <1>1, <1>2, <1>3, <2>1, InsertTree
  <2>3. count = 0 => Elements = {}
    <3>1. PICK pos, lo : Scanned(pos, lo)
      BY <1>2, <2>1
    <3>2. \A x \in Elements : pos[x] \in 1 .. count
      BY <3>1 DEF Scanned
    <3> QED
      BY <3>2
  <2> QED
    BY <1>1, <1>2, <2>1, <2>2, <2>3, InsertForest
<1>4. ASSUME NEW e, Remove(e), rec[e].child = 0, ~damaged => e \in Elements PROVE Forest!Next
  <2>1. ~damaged
    BY <1>4 DEF Remove
  <2>2. PICK pos, lo : Scanned(pos, lo)
    BY <1>2, <2>1
  <2>3. e \in Elements
    BY <1>4, <2>1
  <2>4. \A y \in Elements : rec[y].parent # e
    BY <1>4, <2>2, <2>3, Leafless
  <2>5. /\ Elements' = Elements \ {e}
        /\ \A x \in Elements \ {e} : /\ rec'[x].parent = rec[x].parent
                                     /\ rec'[x].schema = rec[x].schema /\ rec'[x].row = rec[x].row
    BY <1>1, <1>2, <1>4, <2>1, <2>2, <2>3, RemoveTree
  <2> QED
    BY <1>1, <1>2, <2>1, <2>3, <2>4, <2>5, RemoveForest
<1>5. ASSUME NEW e, Delete(e) PROVE Forest!Next
  <2>1. ~damaged /\ Remove(e) /\ Sought(e)
    BY <1>5 DEF Delete, Ready
  <2>2. PICK pos, lo : Scanned(pos, lo)
    BY <1>2, <2>1
  <2>3. e \in Elements /\ rec[e].child = 0
    BY <2>1, <2>2, OrderIs DEF Sought
  <2> QED
    BY <1>4, <2>1, <2>3
<1>6. CASE DeleteRemove
  BY <1>4, <1>6 DEF DeleteRemove, Removable
<1>7. ASSUME UNCHANGED <<rec, chain, damaged>> PROVE Nodes' = Nodes
  <2>1. Elements' = Elements
    BY <1>7 DEF Elements
  <2> QED
    BY <1>1, <1>2, <1>7, <2>1, NodesSame
<1>8. ASSUME NEW u \in Updates, Update(u) PROVE Forest!Next
  <2>1. ~damaged /\ chain' = chain
    BY <1>8 DEF Update, Ready
  <2>2. PICK pos, lo : Scanned(pos, lo)
    BY <1>2, <2>1
  <2>3. Elements' = Elements
    BY <2>1 DEF Elements
  <2> QED
    BY <1>1, <1>2, <1>8, <2>1, <2>2, <2>3, UpdateForest
<1>9. ASSUME NEW e, DeleteFails(e) PROVE FALSE
  BY <1>9 DEF DeleteFails
<1>10. ASSUME NEW q, DeleteBegin(q) PROVE Nodes' = Nodes
  BY <1>7, <1>10 DEF DeleteBegin, tree
<1>11. CASE DeleteSkip
  BY <1>7, <1>11 DEF DeleteSkip, tree
<1>12. CASE DeleteReturn
  BY <1>7, <1>12 DEF DeleteReturn, tree
<1>13. CASE DeleteThrow
  BY <1>13 DEF DeleteThrow
<1>14. CASE UNCHANGED vars
  BY <1>7, <1>14 DEF vars, tree
<1> QED
  BY <1>3, <1>5, <1>6, <1>8, <1>9, <1>10, <1>11, <1>12, <1>13, <1>14 DEF Next, DeleteStep

\* With one schema, or no updates, every call up to the one that damages the
\* file is one of ElementForest.  (With two schemas UpdateElements is not.)
THEOREM TreeImplementsForest ==
  ASSUME Updates = {} \/ \A s, t \in Schemas : s = t
  PROVE  Spec => ImplementsForest
<1>1. Init => Forest!Init
  <2> SUFFICES ASSUME Init PROVE Forest!Init
    OBVIOUS
  <2>1. Whole /\ ~damaged /\ Elements = {}
    BY InitKept, InitTyped, InitTree DEF Whole, IInv, Init, Elements
  <2>2. Live = {}
    BY <2>1, LiveWhole DEF LiveForm
  <2>3. Nodes = [x \in {} |-> 0]
    BY <2>2 DEF Nodes
  <2> QED
    BY <2>3 DEF Forest!Init
<1>2. Whole /\ Whole' /\ LiveForm' /\ [Next]_vars => [~damaged' => [Forest!Next]_Nodes]_vars
  <2> SUFFICES ASSUME Whole, Whole', LiveForm', Next, ~damaged' PROVE Forest!Next \/ Nodes' = Nodes
    OBVIOUS
  <2> QED
    BY LiveWhole, NextForest
<1>3. []LiveForm
  BY LiveWhole, PTL
<1> QED
  BY <1>1, <1>2, <1>3, WholeAlways, PTL DEF Spec, ImplementsForest
=============================================================================
