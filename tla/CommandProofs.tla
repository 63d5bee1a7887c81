----------------------------- MODULE CommandProofs -----------------------------
(***************************************************************************)
(* What becomes of typed commands, proved for all lines and commands: what *)
(* a turn of the prompt loop leaves behind and what it sends, what is on   *)
(* the wire when a command is sent, what is printed and what is done.      *)
(*                                                                         *)
(* That every line is sent as it was typed needs where in the lines the    *)
(* loop is.  start[n] is the count of the tokens before line n: with it    *)
(* the next token is the i-th of line n (InOrder), the stack is the part   *)
(* of that line that was read (InCommand), and the commands before it are  *)
(* the ones sent (InTurn).  That a token of a command is shifted, and that *)
(* the command is complete with its last token and not before, is the      *)
(* grammar: no command is the beginning of another one (NoneInAnother).    *)
(*                                                                         *)
(* That a command is answered and done as it was typed needs a truth value *)
(* for every node of the parser (Truths), which the typed conditions and   *)
(* the conditions on the wire share (Meaning).                             *)
(***************************************************************************)
EXTENDS ClientSession, QueryPipeline, WalkProofs, SequenceTheorems, TLAPS

\* NothingKept does not follow from itself: a turn that sent a command begins
\* the next one after Respond, which gives nothing back any more.
Kept == pc \in {"parse", "call"} => q = <<>>

IInv ==
  /\ Kept
  /\ NothingKept
  /\ pc = "call" => nodes = 0
  /\ pc \in {"build", "call"} => stack = <<>>

\* The loop starts without a command and without nodes.
LEMMA InitIInv == Init => IInv
  BY DEF Init, IInv, Kept, NothingKept, Idle

\* Every turn, and every step of one, gives back what it took.
LEMMA NextIInv == IInv /\ [Next]_vars => IInv'
<1> SUFFICES ASSUME IInv, [Next]_vars PROVE IInv'
    OBVIOUS
<1> USE DEF IInv, Kept, NothingKept, Idle
<1>1. CASE Stray
    BY <1>1 DEF Stray
<1>2. CASE Shift
    <2>1. stack' # <<>>
        BY <1>2 DEF Shift
    <2> QED
        BY <1>2, <2>1 DEF Shift, Token
<1>3. CASE Accept
    BY <1>3 DEF Accept, Token
<1>4. CASE Reject
    BY <1>4 DEF Reject, Token, Nothing, Refuse, FreeAll
<1>5. CASE End
    BY <1>5 DEF End, Nothing, Refuse, FreeAll
<1>6. CASE Build
    BY <1>6 DEF Build, FreeAll
<1>7. CASE Respond
    BY <1>7 DEF Respond
<1>8. CASE UNCHANGED vars
    BY <1>8 DEF vars
<1> QED
    BY <1>1, <1>2, <1>3, <1>4, <1>5, <1>6, <1>7, <1>8 DEF Next

\* Whatever lines are typed, a turn of the loop begins without a command and
\* without nodes of the one before.
THEOREM TurnsStartEmpty == Spec => []NothingKept
<1>1. IInv => NothingKept
    BY DEF IInv
<1> QED
    BY InitIInv, NextIInv, <1>1, PTL DEF Spec

-----------------------------------------------------------------------------
(* The grammar: a command begins with db., and nowhere else; it ends with  *)
(* its closing bracket, and nowhere else.  So no command is the beginning  *)
(* of another one.                                                         *)

\* The tokens of commands.
Words ==
  {"db", "insert", "find", "delete", "update", "open", "field", "comma", "middle", "close"}

\* What stands between the bracket and the closing one.
Inner(s) == s \in Seq(Words) /\ \A i \in 1 .. Len(s) : s[i] \in {"field", "comma", "middle"}

LEMMA ListsInner == \A l \in FieldLists : Inner(l) /\ Len(l) \in Nat \ {0}
<1> SUFFICES ASSUME NEW n \in 1 .. MaxFields, NEW l,
               l = [i \in 1 .. 2 * n - 1 |-> IF i % 2 = 1 THEN "field" ELSE "comma"]
             PROVE  Inner(l) /\ Len(l) \in Nat \ {0}
    BY DEF FieldLists
<1>1. PICK k \in Nat : k = 2 * n - 1
    BY SessionAssumption
<1>2. l \in [1 .. k -> Words] /\ \A i \in 1 .. k : l[i] \in {"field", "comma"}
    BY <1>1 DEF Words
<1>3. l \in Seq(Words)
    BY <1>2, SeqDef
<1>4. Len(l) = k
    BY <1>2, <1>3, LenProperties
<1> QED
    BY <1>1, <1>2, <1>3, <1>4 DEF Inner

LEMMA JoinInner ==
  ASSUME NEW a, NEW b, Inner(a), Inner(b)
  PROVE  Inner(a \o b) /\ Len(a \o b) = Len(a) + Len(b)
<1>1. a \in Seq(Words) /\ b \in Seq(Words) /\ Len(a) \in Nat /\ Len(b) \in Nat
    BY LenProperties DEF Inner
<1>2. a \o b \in Seq(Words) /\ Len(a \o b) = Len(a) + Len(b)
    BY <1>1, ConcatProperties
<1>3. ASSUME NEW i \in 1 .. Len(a) + Len(b) PROVE (a \o b)[i] \in {"field", "comma", "middle"}
    <2>1. (a \o b)[i] = IF i <= Len(a) THEN a[i] ELSE b[i - Len(a)]
        BY <1>1, ConcatProperties
    <2> QED
        BY <1>1, <2>1 DEF Inner
<1> QED
    BY <1>2, <1>3 DEF Inner

\* db. verb open, the inner tokens, close.
Framed(c) ==
  /\ c \in Seq(Words)
  /\ Len(c) \in Nat /\ Len(c) > 4
  /\ c[1] = "db" /\ c[Len(c)] = "close"
  /\ \A i \in 1 .. Len(c) : c[i] # "stray" /\ (c[i] = "db" => i = 1) /\ (c[i] = "close" => i = Len(c))

LEMMA Frame ==
  ASSUME NEW verb \in {"insert", "find", "delete", "update"}, NEW s, Inner(s), Len(s) \in Nat \ {0}
  PROVE  Framed(<<"db", verb, "open">> \o s \o <<"close">>)
<1>1. PICK h : h = <<"db", verb, "open">>
    OBVIOUS
<1>2. h \in Seq(Words) /\ Len(h) = 3 /\ h[1] = "db" /\ h[2] = verb /\ h[3] = "open"
    BY <1>1 DEF Words
<1>3. PICK e : e = <<"close">>
    OBVIOUS
<1>3a. e \in Seq(Words) /\ Len(e) = 1 /\ e[1] = "close"
    BY <1>3 DEF Words
<1>3b. s \in Seq(Words)
    BY DEF Inner
<1>4. /\ h \o s \in Seq(Words) /\ Len(h \o s) = 3 + Len(s)
      /\ \A i \in 1 .. 3 + Len(s) : (h \o s)[i] = IF i <= 3 THEN h[i] ELSE s[i - 3]
    <2>1. /\ h \o s \in Seq(Words) /\ Len(h \o s) = Len(h) + Len(s)
          /\ \A i \in 1 .. Len(h) + Len(s) : (h \o s)[i] = IF i <= Len(h) THEN h[i] ELSE s[i - Len(h)]
        BY <1>2, <1>3b, ConcatProperties
    <2> QED
        BY <1>2, <2>1
<1>5. /\ h \o s \o e \in Seq(Words) /\ Len(h \o s \o e) = 4 + Len(s)
      /\ \A i \in 1 .. 4 + Len(s) :
           (h \o s \o e)[i] = IF i <= 3 + Len(s) THEN (h \o s)[i] ELSE e[i - (3 + Len(s))]
    <2>1. PICK t : t = h \o s
        OBVIOUS
    <2>2. /\ t \o e \in Seq(Words) /\ Len(t \o e) = Len(t) + Len(e)
          /\ \A i \in 1 .. Len(t) + Len(e) : (t \o e)[i] = IF i <= Len(t) THEN t[i] ELSE e[i - Len(t)]
        <3>1. t \in Seq(Words) /\ e \in Seq(Words)
            BY <1>3a, <1>4, <2>1
        <3> QED
            BY <3>1, ConcatProperties
    <2> QED
        BY <1>3a, <1>4, <2>1, <2>2
<1>6. PICK c : c = h \o s \o e
    OBVIOUS
<1>7. ASSUME NEW i \in 1 .. 4 + Len(s)
      PROVE  \/ i = 1 /\ c[i] = "db"
             \/ i = 2 /\ c[i] = verb
             \/ i = 3 /\ c[i] = "open"
             \/ i > 3 /\ i < 4 + Len(s) /\ c[i] \in {"field", "comma", "middle"}
             \/ i = 4 + Len(s) /\ c[i] = "close"
    <2>1. CASE i <= 3
        BY <1>2, <1>4, <1>5, <1>6, <2>1
    <2>2. CASE i > 3 /\ i < 4 + Len(s)
        <3>1. c[i] = s[i - 3] /\ i - 3 \in 1 .. Len(s)
            BY <1>4, <1>5, <1>6, <2>2
        <3> QED
            BY <2>2, <3>1 DEF Inner
    <2>3. CASE i > 3 + Len(s)
        BY <1>3a, <1>5, <1>6, <2>3
    <2> QED
        BY <2>1, <2>2, <2>3
<1>8. Framed(c)
    <2>1. c \in Seq(Words) /\ Len(c) = 4 + Len(s)
        BY <1>5, <1>6
    <2>2. c[1] = "db" /\ c[Len(c)] = "close"
        <3>1. 1 \in 1 .. 4 + Len(s) /\ 4 + Len(s) \in 1 .. 4 + Len(s)
            OBVIOUS
        <3> QED
            BY <1>7, <2>1, <3>1
    <2>3. ASSUME NEW i \in 1 .. Len(c)
          PROVE  c[i] # "stray" /\ (c[i] = "db" => i = 1) /\ (c[i] = "close" => i = Len(c))
        BY <1>7, <2>1, <2>3
    <2> QED
        BY <2>1, <2>2, <2>3 DEF Framed
<1> QED
    BY <1>1, <1>3, <1>6, <1>8

LEMMA CommandsFramed == \A c \in Commands : Framed(c)
<1>1. ASSUME NEW verb \in {"insert", "find", "delete"}, NEW l \in FieldLists
      PROVE  Framed(<<"db", verb, "open">> \o l \o <<"close">>)
    <2>1. Inner(l) /\ Len(l) \in Nat \ {0}
        BY ListsInner
    <2> QED
        BY <2>1, Frame
<1>2. ASSUME NEW l \in FieldLists, NEW m \in FieldLists
      PROVE  Framed(<<"db", "update", "open">> \o l \o <<"middle">> \o m \o <<"close">>)
    <2>1. Inner(<<"middle">>) /\ Len(<<"middle">>) = 1
        BY DEF Inner, Words
    <2>2. Inner(l) /\ Inner(m) /\ Len(l) \in Nat \ {0} /\ Len(m) \in Nat \ {0}
        BY ListsInner
    <2>3. Inner(l \o <<"middle">>) /\ Len(l \o <<"middle">>) = Len(l) + 1
        BY <2>1, <2>2, JoinInner
    <2>4. Inner(l \o <<"middle">> \o m) /\ Len(l \o <<"middle">> \o m) = Len(l) + 1 + Len(m)
        BY <2>2, <2>3, JoinInner
    <2>5. Framed(<<"db", "update", "open">> \o (l \o <<"middle">> \o m) \o <<"close">>)
        <3>1. PICK s : s = l \o <<"middle">> \o m
            OBVIOUS
        <3>2. Inner(s) /\ Len(s) \in Nat \ {0}
            BY <2>2, <2>4, <3>1
        <3>3. Framed(<<"db", "update", "open">> \o s \o <<"close">>)
            BY <3>2, Frame
        <3> QED
            BY <3>1, <3>3
    <2>6. <<"db", "update", "open">> \o (l \o <<"middle">> \o m)
            = <<"db", "update", "open">> \o l \o <<"middle">> \o m
        <3>1. <<"db", "update", "open">> \in Seq(Words) /\ <<"middle">> \in Seq(Words)
            BY DEF Words
        <3>2. l \in Seq(Words) /\ m \in Seq(Words) /\ l \o <<"middle">> \in Seq(Words)
            BY <2>2, <2>3 DEF Inner
        <3>3. <<"db", "update", "open">> \o l \in Seq(Words)
            BY <3>1, <3>2, ConcatProperties
        <3> QED
            BY <3>1, <3>2, <3>3, ConcatAssociative
    <2> QED
        BY <2>5, <2>6
<1> QED
    <2> DEFINE One(verb, l) == <<"db", verb, "open">> \o l \o <<"close">>
               Two(l, m) == <<"db", "update", "open">> \o l \o <<"middle">> \o m \o <<"close">>
    <2>1. Commands = {One(verb, l) : verb \in {"insert", "find", "delete"}, l \in FieldLists}
                       \cup {Two(l, m) : l, m \in FieldLists}
        BY DEF Commands
    <2>2. /\ \A verb \in {"insert", "find", "delete"}, l \in FieldLists : Framed(One(verb, l))
          /\ \A l, m \in FieldLists : Framed(Two(l, m))
        BY <1>1, <1>2, Zenon
    <2> HIDE DEF One, Two
    <2> QED
        BY <2>1, <2>2

\* A command is complete only where it ends.
LEMMA NoneInAnother ==
  ASSUME NEW c \in Commands, NEW d \in Commands, Len(d) <= Len(c),
         \A i \in 1 .. Len(d) : d[i] = c[i]
  PROVE  d = c
<1>1. Framed(c) /\ Framed(d)
    BY CommandsFramed
<1>2. Len(d) \in 1 .. Len(c) /\ c[Len(d)] = "close"
    BY <1>1 DEF Framed
<1>3. Len(d) = Len(c)
    BY <1>1, <1>2 DEF Framed
<1> QED
    BY <1>1, <1>3, SeqEqual DEF Framed

-----------------------------------------------------------------------------
(* The input: lines one after the other.                                   *)

\* start[n] tokens come before the n-th of N lines, of which it has len[n].
Laid(N, len, start) ==
  /\ start \in [1 .. N + 1 -> Nat]
  /\ start[1] = 0
  /\ \A n \in 1 .. N : start[n + 1] = start[n] + len[n]

LEMMA StartsGrow ==
  ASSUME NEW N \in Nat, NEW len \in [1 .. N -> Nat], NEW start, Laid(N, len, start),
         NEW n \in 1 .. N + 1, NEW m \in n .. N + 1
  PROVE  start[n] <= start[m]
<1> DEFINE T == {k \in 0 .. N + 1 - n : start[n] <= start[n + k]}
<1>1. 0 \in T
  BY DEF Laid
<1>2. ASSUME NEW k \in 0 .. (N + 1 - n) - 1, k \in T PROVE k + 1 \in T
  <2>1. PICK j : j = n + k
    OBVIOUS
  <2>2. j \in 1 .. N /\ start[j + 1] = start[j] + len[j] /\ len[j] \in Nat
    BY <2>1 DEF Laid
  <2>3. start[n] \in Nat /\ start[j] \in Nat /\ start[n] <= start[j]
    BY <1>2, <2>1, <2>2 DEF Laid
  <2>4. start[n] <= start[j + 1] /\ j + 1 = n + (k + 1)
    BY <2>1, <2>2, <2>3
  <2> QED
    BY <2>4
<1>3. m - n \in 0 .. N + 1 - n /\ N + 1 - n \in Nat
  OBVIOUS
<1> HIDE DEF T
<1>4. m - n \in T
  BY <1>1, <1>2, <1>3, UpTo
<1>5. n + (m - n) = m
  OBVIOUS
<1> QED
  BY <1>4, <1>5 DEF T

\* Token i of line n has the place p.
HasPlace(N, len, start, n, i, p) == n \in 1 .. N /\ i \in 1 .. len[n] /\ p = start[n] + i

\* No place belongs to two lines.
LEMMA PlaceUnique ==
  ASSUME NEW N \in Nat, NEW len \in [1 .. N -> Nat], NEW start, Laid(N, len, start),
         NEW n, NEW i, NEW m, NEW j, NEW p,
         HasPlace(N, len, start, n, i, p), HasPlace(N, len, start, m, j, p)
  PROVE  n = m /\ i = j
<1>0. /\ n \in 1 .. N /\ i \in 1 .. len[n] /\ m \in 1 .. N /\ j \in 1 .. len[m]
      /\ start[n] + i = start[m] + j
  BY DEF HasPlace
<1>1. start[n] \in Nat /\ start[m] \in Nat /\ len[n] \in Nat /\ len[m] \in Nat
  BY <1>0 DEF Laid
<1>2. ASSUME NEW a \in 1 .. N, NEW b \in 1 .. N, a < b PROVE start[a] + len[a] <= start[b]
  <2>1. a + 1 \in 1 .. N + 1 /\ b \in a + 1 .. N + 1
    BY <1>2
  <2>2. start[a + 1] <= start[b]
    BY <2>1, StartsGrow
  <2> QED
    BY <2>2 DEF Laid
<1>3. PICK c \in Nat : c = start[n]
  BY <1>1
<1>4. PICK d \in Nat : d = start[m]
  BY <1>1
<1>5. PICK k \in Nat : k = len[n]
  BY <1>1
<1>6. PICK l \in Nat : l = len[m]
  BY <1>1
<1>7. i \in 1 .. k /\ j \in 1 .. l /\ c + i = d + j
  BY <1>0, <1>3, <1>4, <1>5, <1>6
<1>8. (n < m => c + k <= d) /\ (m < n => d + l <= c)
  BY <1>0, <1>2, <1>3, <1>4, <1>5, <1>6
<1>9. ~(n < m) /\ ~(m < n)
  BY <1>7, <1>8
<1>10. n = m
  BY <1>0, <1>9
<1>11. c = d
  BY <1>3, <1>4, <1>10
<1>12. i = j
  BY <1>7, <1>11
<1> QED
  BY <1>10, <1>12

\* Every place belongs to a line.
LEMMA PlaceCovered ==
  ASSUME NEW N \in Nat, NEW len \in [1 .. N -> Nat], NEW start, Laid(N, len, start),
         NEW p \in 1 .. start[N + 1]
  PROVE  \E n \in 1 .. N : \E i \in 1 .. len[n] : p = start[n] + i
<1> DEFINE U == {n \in 1 .. N + 1 : p <= start[n]}
<1>1. U \subseteq Nat /\ U # {}
  <2>1. start[N + 1] \in Nat /\ N + 1 \in 1 .. N + 1
    BY DEF Laid
  <2> QED
    BY <2>1
<1>2. PICK m \in U : \A k \in U : m <= k
  <2> HIDE DEF U
  <2> QED
    BY <1>1, Least
<1>3. m # 1
  BY DEF Laid
<1>4. PICK n : n = m - 1
  OBVIOUS
<1>5. n \in 1 .. N /\ m = n + 1 /\ n \notin U
  BY <1>2, <1>3, <1>4
<1>6. start[n] \in Nat /\ start[n] < p /\ p <= start[n] + len[n] /\ len[n] \in Nat
  BY <1>2, <1>5 DEF Laid
<1>7. p - start[n] \in 1 .. len[n] /\ p = start[n] + (p - start[n])
  BY <1>6
<1> QED
  BY <1>5, <1>7

\* FlattenSeq joins s from its first sequence on.
Joins(f, s) ==
  f = [i \in 1 .. Len(s) |-> IF i = 1 THEN s[i] ELSE f[i - 1] \o s[i]]

LEMMA FlattenJoins ==
  ASSUME NEW s, Len(s) # 0, NEW g, Joins(g, s)
  PROVE  \E f : Joins(f, s) /\ FlattenSeq(s) = f[Len(s)]
<1> DEFINE f == CHOOSE h : h = [i \in 1 .. Len(s) |-> IF i = 1 THEN s[i] ELSE h[i - 1] \o s[i]]
<1>1. f = [i \in 1 .. Len(s) |-> IF i = 1 THEN s[i] ELSE f[i - 1] \o s[i]]
  BY Zenon DEF Joins
<1>2. FlattenSeq(s) = f[Len(s)]
  BY Zenon DEF FlattenSeq
<1> HIDE DEF f
<1> QED
  BY <1>1, <1>2, Zenon DEF Joins

LEMMA SeqOfSeqs ==
  ASSUME NEW W, NEW N \in Nat, NEW s \in [1 .. N -> Seq(W)]
  PROVE  /\ s \in Seq(Seq(W)) /\ Len(s) = N
         /\ \A n \in 1 .. N : s[n] \in Seq(W) /\ Len(s[n]) \in Nat
<1>1. s \in Seq(Seq(W))
  BY SeqDef
<1>2. Len(s) = N
  BY <1>1, LenProperties
<1> QED
  BY <1>1, <1>2, LenProperties

LEMMA JoinsExist ==
  ASSUME NEW W, NEW N \in Nat, NEW s \in [1 .. N -> Seq(W)]
  PROVE  \E g : Joins(g, s)
<1>1. Len(s) = N
  BY SeqOfSeqs
<1>2. \A n \in 1 .. N : s[n] \in Seq(W)
  BY SeqOfSeqs
<1> DEFINE Upto(f, n) == \A i \in 1 .. n : f[i] = IF i = 1 THEN s[i] ELSE f[i - 1] \o s[i]
           T == {n \in 0 .. N : \E f \in [1 .. n -> Seq(W)] : Upto(f, n)}
<1>3. 0 \in T
  <2>1. PICK f : f = [i \in 1 .. 0 |-> <<>>]
    OBVIOUS
  <2>2. f \in [1 .. 0 -> Seq(W)] /\ Upto(f, 0)
    BY <2>1
  <2>3. 0 \in 0 .. N
    OBVIOUS
  <2> HIDE DEF Upto
  <2>4. \E h \in [1 .. 0 -> Seq(W)] : Upto(h, 0)
    BY <2>2, Zenon
  <2> QED
    BY <2>3, <2>4, Zenon
<1>4. ASSUME NEW n \in 0 .. N - 1, n \in T PROVE n + 1 \in T
  <2>1. PICK f \in [1 .. n -> Seq(W)] : Upto(f, n)
    BY <1>4
  <2>2. PICK m : m = n + 1
    OBVIOUS
  <2>3. m \in 1 .. N /\ s[m] \in Seq(W) /\ m - 1 = n /\ n # m
    BY <1>2, <2>2
  <2>4. PICK last : last = IF m = 1 THEN s[m] ELSE f[n] \o s[m]
    OBVIOUS
  <2>5. last \in Seq(W)
    <3>1. CASE m = 1
      BY <2>3, <2>4, <3>1
    <3>2. CASE m # 1
      <4>1. n \in 1 .. n /\ f[n] \in Seq(W)
        BY <2>2, <3>2
      <4>2. f[n] \o s[m] \in Seq(W)
        BY <2>3, <4>1, ConcatProperties
      <4> QED
        BY <2>4, <3>2, <4>2
    <3> QED
      BY <3>1, <3>2
  <2>6. PICK g : g = [i \in 1 .. m |-> IF i = m THEN last ELSE f[i]]
    OBVIOUS
  <2>7. g \in [1 .. m -> Seq(W)]
    BY <2>2, <2>5, <2>6
  <2>8. ASSUME NEW i \in 1 .. m PROVE g[i] = IF i = 1 THEN s[i] ELSE g[i - 1] \o s[i]
    <3>1. CASE i = m
      <4>1. CASE m = 1
        BY <2>4, <2>6, <3>1, <4>1
      <4>2. CASE m # 1
        <5>1. n \in 1 .. m /\ g[n] = f[n] /\ g[m] = last
          BY <2>3, <2>6, <4>2
        <5> QED
          BY <2>3, <2>4, <3>1, <4>2, <5>1
      <4> QED
        BY <4>1, <4>2
    <3>2. CASE i # m
      <4>1. i \in 1 .. n /\ (i # 1 => i - 1 \in 1 .. m /\ i - 1 # m)
        BY <2>2, <3>2
      <4>2. g[i] = f[i] /\ (i # 1 => g[i - 1] = f[i - 1])
        BY <2>6, <3>2, <4>1
      <4> QED
        BY <2>1, <4>1, <4>2
    <3> QED
      BY <3>1, <3>2
  <2>9. Upto(g, m)
    BY <2>8
  <2>10. m \in T
    <3> HIDE DEF Upto
    <3> QED
      BY <2>3, <2>7, <2>9
  <2> QED
    BY <2>2, <2>10
<1> HIDE DEF T
<1>4a. \A n \in 0 .. N : n \in T
  BY <1>3, <1>4, UpTo
<1>5. N \in T
  BY <1>4a
<1>6. PICK f \in [1 .. N -> Seq(W)] : Upto(f, N)
  BY <1>5 DEF T
<1>7. f = [i \in 1 .. N |-> IF i = 1 THEN s[i] ELSE f[i - 1] \o s[i]]
  BY <1>6
<1> QED
  BY <1>1, <1>7 DEF Joins

\* all holds the N sequences of s one after the other.
OneByOne(W, N, s, start, all) ==
  /\ Laid(N, [n \in 1 .. N |-> Len(s[n])], start)
  /\ all \in Seq(W) /\ Len(all) = start[N + 1]
  /\ \A n \in 1 .. N : \A i \in 1 .. Len(s[n]) : all[start[n] + i] = s[n][i]

LEMMA Flattened ==
  ASSUME NEW W, NEW N \in Nat, NEW s \in [1 .. N -> Seq(W)]
  PROVE  \E start : OneByOne(W, N, s, start, FlattenSeq(s))
<1>1. Len(s) = N /\ s \in Seq(Seq(W))
  BY SeqOfSeqs
<1>2. \A n \in 1 .. N : s[n] \in Seq(W) /\ Len(s[n]) \in Nat
  BY SeqOfSeqs
<1>3. CASE N = 0
  <2>1. s = <<>> /\ FlattenSeq(s) = s
    BY <1>1, <1>3, EmptySeq DEF FlattenSeq
  <2>2. PICK start : start = [n \in 1 .. 1 |-> 0]
    OBVIOUS
  <2>3. Laid(N, [n \in 1 .. N |-> Len(s[n])], start) /\ start[N + 1] = 0
    BY <1>3, <2>2 DEF Laid
  <2>4. <<>> \in Seq(W) /\ Len(<<>>) = 0
    BY EmptySeq
  <2>5. OneByOne(W, N, s, start, s)
    BY <1>3, <2>1, <2>3, <2>4 DEF OneByOne
  <2> QED
    BY <2>1, <2>5
<1>4. CASE N # 0
  <2>1. PICK g : Joins(g, s)
    BY JoinsExist
  <2>2. PICK f : Joins(f, s) /\ FlattenSeq(s) = f[N]
    BY <1>1, <1>4, <2>1, FlattenJoins
  <2>3. \A k \in 1 .. N : f[k] = IF k = 1 THEN s[k] ELSE f[k - 1] \o s[k]
    BY <1>1, <2>2 DEF Joins
  <2>4. PICK start : start = [n \in 1 .. N + 1 |-> IF n = 1 THEN 0 ELSE Len(f[n - 1])]
    OBVIOUS
  <2> DEFINE Upto(k) ==
               /\ f[k] \in Seq(W) /\ Len(f[k]) \in Nat
               /\ start[k + 1] = Len(f[k]) /\ start[k] \in Nat
               /\ start[k + 1] = start[k] + Len(s[k])
               /\ \A n \in 1 .. k : \A i \in 1 .. Len(s[n]) :
                    start[n] + i \in 1 .. Len(f[k]) /\ f[k][start[n] + i] = s[n][i]
             T == {0} \cup {k \in 1 .. N : Upto(k)}
  <2>5. ASSUME NEW k \in 0 .. N - 1, k \in T PROVE k + 1 \in T
    <3>1. PICK m : m = k + 1
      OBVIOUS
    <3>2. m \in 1 .. N /\ m - 1 = k /\ m + 1 \in 1 .. N + 1 /\ m + 1 # 1
      BY <3>1
    <3>3. s[m] \in Seq(W) /\ Len(s[m]) \in Nat
      BY <1>2, <3>2
    <3>4. start[m + 1] = Len(f[m])
      BY <2>4, <3>2
    <3>5. CASE k = 0
      <4>1. m = 1 /\ f[m] = s[m] /\ start[m] = 0
        BY <2>3, <2>4, <3>2, <3>5
      <4> QED
        <5>1. f[m] \in Seq(W) /\ Len(f[m]) \in Nat /\ start[m + 1] = start[m] + Len(s[m])
          BY <3>3, <3>4, <4>1
        <5>2. ASSUME NEW n \in 1 .. m, NEW i \in 1 .. Len(s[n])
              PROVE  start[n] + i \in 1 .. Len(f[m]) /\ f[m][start[n] + i] = s[n][i]
          <6>1. n = m /\ i \in 1 .. Len(s[m]) /\ 0 + i = i
            BY <3>3, <4>1
          <6> QED
            BY <4>1, <6>1
        <5>3. Upto(m)
          BY <3>4, <4>1, <5>1, <5>2
        <5> HIDE DEF Upto
        <5> QED
          BY <3>1, <3>2, <5>3
    <3>6. CASE k # 0
      <4>0. Upto(k) /\ k \in 1 .. N
        <5> HIDE DEF Upto
        <5> QED
          BY <2>5, <3>6
      <4>1. m # 1 /\ f[m] = f[k] \o s[m]
        <5>1. m # 1 /\ k = m - 1
          BY <3>2, <3>6
        <5>2. f[m] = f[m - 1] \o s[m]
          BY <2>3, <3>2, <5>1
        <5> QED
          BY <5>1, <5>2
      <4>2. start[m] = Len(f[k])
        BY <2>4, <3>2, <4>1
      <4>3. /\ f[m] \in Seq(W) /\ Len(f[m]) = Len(f[k]) + Len(s[m])
            /\ \A i \in 1 .. Len(f[k]) + Len(s[m]) :
                 f[m][i] = IF i <= Len(f[k]) THEN f[k][i] ELSE s[m][i - Len(f[k])]
        <5>1. f[k] \in Seq(W)
          BY <4>0
        <5> HIDE DEF Upto
        <5>2. PICK x : x = f[k]
          OBVIOUS
        <5>3. PICK y : y = s[m]
          OBVIOUS
        <5>4. x \in Seq(W) /\ y \in Seq(W)
          BY <3>3, <5>1, <5>2, <5>3
        <5>5. /\ x \o y \in Seq(W) /\ Len(x \o y) = Len(x) + Len(y)
              /\ \A i \in 1 .. Len(x) + Len(y) :
                   (x \o y)[i] = IF i <= Len(x) THEN x[i] ELSE y[i - Len(x)]
          BY <5>4, ConcatProperties
        <5>6. f[m] = x \o y
          BY <4>1, <5>2, <5>3
        <5> QED
          <6> HIDE DEF T
          <6>1. f[m] \in Seq(W) /\ Len(f[m]) = Len(x) + Len(y)
            BY <5>5, <5>6
          <6>2. \A i \in 1 .. Len(x) + Len(y) : f[m][i] = IF i <= Len(x) THEN x[i] ELSE y[i - Len(x)]
            BY <5>5, <5>6
          <6> QED
            BY <5>2, <5>3, <6>1, <6>2
      <4>3a. PICK a \in Nat : a = Len(f[k])
        BY <4>0
      <4>3b. PICK b \in Nat : b = Len(s[m])
        BY <3>3
      <4>3c. Len(f[m]) = a + b
             /\ \A i \in 1 .. a + b : f[m][i] = IF i <= a THEN f[k][i] ELSE s[m][i - a]
        BY <4>3, <4>3a, <4>3b
      <4>4. ASSUME NEW n \in 1 .. m, NEW i \in 1 .. Len(s[n])
            PROVE  start[n] + i \in 1 .. Len(f[m]) /\ f[m][start[n] + i] = s[n][i]
        <5>1. CASE n = m
          <6>1. i \in 1 .. b /\ start[n] = a
            BY <4>2, <4>3a, <4>3b, <5>1
          <6>2. a + i \in 1 .. a + b /\ ~(a + i <= a) /\ (a + i) - a = i
            BY <6>1
          <6>3. f[m][a + i] = s[m][i]
            BY <4>3c, <6>2
          <6> QED
            BY <4>3c, <5>1, <6>1, <6>2, <6>3
        <5>2. CASE n # m
          <6>1. n \in 1 .. k
            BY <3>2, <5>2
          <6>2. start[n] + i \in 1 .. Len(f[k]) /\ f[k][start[n] + i] = s[n][i]
            BY <4>0, <6>1
          <6>3. PICK p : p = start[n] + i
            OBVIOUS
          <6>4. p \in 1 .. a + b /\ p <= a
            BY <4>3a, <6>2, <6>3
          <6> QED
            BY <4>3c, <6>2, <6>3, <6>4
        <5> QED
          BY <5>1, <5>2
      <4>5. Len(f[m]) \in Nat /\ start[m] \in Nat /\ start[m + 1] = start[m] + Len(s[m])
        <5>1. Len(f[m]) = a + b /\ start[m] = a /\ Len(s[m]) = b /\ start[m + 1] = a + b
          BY <3>4, <4>2, <4>3a, <4>3b, <4>3c
        <5> QED
          BY <5>1
      <4>6. Upto(m)
        BY <3>4, <4>3, <4>4, <4>5
      <4> HIDE DEF Upto
      <4> QED
        BY <3>1, <3>2, <4>6
    <3> QED
      BY <3>5, <3>6
  <2>6. \A k \in 1 .. N : Upto(k)
    <3> HIDE DEF Upto
    <3>1. 0 \in T
      OBVIOUS
    <3>2. \A k \in 0 .. N : k \in T
      <4> HIDE DEF T
      <4> QED
        BY <2>5, <3>1, UpTo
    <3> QED
      BY <3>2
  <2>7. Laid(N, [n \in 1 .. N |-> Len(s[n])], start)
    <3>1. \A n \in 1 .. N : start[n + 1] = start[n] + Len(s[n]) /\ start[n] \in Nat /\ start[n + 1] \in Nat
      BY <2>6
    <3>2. ASSUME NEW n \in 1 .. N + 1 PROVE start[n] \in Nat
      <4>1. CASE n \in 1 .. N
        BY <3>1, <4>1
      <4>2. CASE n = N + 1
        <5>1. N \in 1 .. N
          BY <1>4
        <5> QED
          BY <3>1, <4>2, <5>1
      <4> QED
        BY <4>1, <4>2
    <3>3. start \in [1 .. N + 1 -> Nat] /\ start[1] = 0
      BY <2>4, <3>2
    <3> QED
      BY <3>1, <3>3 DEF Laid
  <2>8. Upto(N)
    <3>1. N \in 1 .. N
      BY <1>4
    <3> HIDE DEF Upto
    <3> QED
      BY <2>6, <3>1
  <2>9. OneByOne(W, N, s, start, f[N])
    BY <2>7, <2>8 DEF OneByOne
  <2> QED
    BY <2>2, <2>9
<1> QED
  BY <1>3, <1>4

-----------------------------------------------------------------------------
(* What is left of the input is an end of the lines, in their order.       *)

Tokens == [kind : STRING, line : 1 .. Len(lines)]

Lens == [n \in 1 .. Len(lines) |-> Len(lines[n])]

At(n, i) == [kind |-> lines[n][i], line |-> n]

\* As many tokens were read.
Passed(start) == start[Len(lines) + 1] - Len(rest)

InOrder(start) ==
  /\ lines \in Seq(Seq(STRING))
  /\ Laid(Len(lines), Lens, start)
  /\ rest \in Seq(Tokens)
  /\ Passed(start) \in Nat
  /\ \A n \in 1 .. Len(lines) : \A i \in 1 .. Len(lines[n]) :
       start[n] + i > Passed(start) => rest[start[n] + i - Passed(start)] = At(n, i)

LEMMA LinesType ==
  ASSUME lines \in Seq(Seq(STRING))
  PROVE  /\ Len(lines) \in Nat /\ DOMAIN lines = 1 .. Len(lines)
         /\ Lens \in [1 .. Len(lines) -> Nat]
         /\ \A n \in 1 .. Len(lines) :
              /\ Lens[n] = Len(lines[n]) /\ Len(lines[n]) \in Nat
              /\ lines[n] \in Seq(STRING) /\ lines[n] \in [1 .. Len(lines[n]) -> STRING]
              /\ DOMAIN lines[n] = 1 .. Len(lines[n])
<1>1. Len(lines) \in Nat /\ DOMAIN lines = 1 .. Len(lines)
  BY LenProperties
<1>2. \A n \in 1 .. Len(lines) : lines[n] \in Seq(STRING)
  BY ElementOfSeq
<1>3. \A n \in 1 .. Len(lines) :
        /\ Len(lines[n]) \in Nat
        /\ lines[n] \in [1 .. Len(lines[n]) -> STRING]
        /\ DOMAIN lines[n] = 1 .. Len(lines[n])
  BY <1>2, LenProperties
<1>4. /\ Lens \in [1 .. Len(lines) -> Nat]
      /\ \A n \in 1 .. Len(lines) : Lens[n] = Len(lines[n])
  BY <1>3 DEF Lens
<1> QED
  BY <1>1, <1>2, <1>3, <1>4

\* The session begins with all of it unread.
LEMMA InitInOrder ==
  ASSUME Init
  PROVE  \E start : InOrder(start) /\ Passed(start) = 0
<1>1. lines \in Seq(Seq(STRING)) /\ MaxLines \in Nat
  <2>1. PICK k \in 0 .. MaxLines : lines \in [1 .. k -> Lines]
    BY DEF Init, BoundedSeq, SeqOf
  <2>2. k \in Nat /\ lines \in [1 .. k -> Seq(STRING)]
    BY <2>1, SessionAssumption
  <2> QED
    BY <2>2, SeqOfSeqs, SessionAssumption
<1>1a. Len(lines) \in Nat
  BY <1>1, LinesType
<1>2. PICK N \in Nat : N = Len(lines)
  BY <1>1a
<1>3. DOMAIN lines = 1 .. N /\ \A n \in 1 .. N : DOMAIN lines[n] = 1 .. Len(lines[n])
  BY <1>1, <1>2, LinesType
<1>4. PICK s : s = [n \in 1 .. N |-> [i \in 1 .. Len(lines[n]) |-> At(n, i)]]
  OBVIOUS
<1>5. rest = FlattenSeq(s)
  <2>1. s = [n \in DOMAIN lines |-> [i \in DOMAIN lines[n] |-> [kind |-> lines[n][i], line |-> n]]]
    BY <1>3, <1>4 DEF At
  <2> QED
    BY <2>1 DEF Init
<1>6. ASSUME NEW n \in 1 .. N
      PROVE  /\ s[n] \in Seq(Tokens) /\ Len(s[n]) = Len(lines[n])
             /\ \A i \in 1 .. Len(lines[n]) : s[n][i] = At(n, i)
  <2>1. PICK k \in Nat : k = Len(lines[n])
    BY <1>1, <1>2, LinesType
  <2>2. s[n] = [i \in 1 .. k |-> At(n, i)]
    BY <1>4, <2>1
  <2>3. \A i \in 1 .. k : At(n, i) \in Tokens
    BY <1>1, <1>2, <2>1, LinesType DEF At, Tokens
  <2>4. s[n] \in [1 .. k -> Tokens]
    BY <2>2, <2>3
  <2>5. s[n] \in Seq(Tokens)
    BY <2>4, SeqDef
  <2>6. Len(s[n]) = k
    BY <2>4, <2>5, LenProperties
  <2> QED
    BY <2>1, <2>2, <2>5, <2>6
<1>7. s \in [1 .. N -> Seq(Tokens)]
  BY <1>4, <1>6
<1>8. PICK start : OneByOne(Tokens, N, s, start, rest)
  BY <1>5, <1>7, Flattened
<1>9. [n \in 1 .. N |-> Len(s[n])] = Lens
  BY <1>2, <1>6 DEF Lens
<1>10. /\ Laid(N, Lens, start)
       /\ rest \in Seq(Tokens) /\ Len(rest) = start[N + 1]
       /\ \A n \in 1 .. N : \A i \in 1 .. Len(s[n]) : rest[start[n] + i] = s[n][i]
  BY <1>8, <1>9 DEF OneByOne
<1>11. start[N + 1] \in Nat /\ \A n \in 1 .. N : start[n] \in Nat
  BY <1>10 DEF Laid
<1>12. Passed(start) = 0
  BY <1>2, <1>10, <1>11 DEF Passed
<1>13. ASSUME NEW n \in 1 .. N, NEW i \in 1 .. Len(lines[n])
       PROVE  rest[start[n] + i - Passed(start)] = At(n, i)
  <2>1. start[n] + i - Passed(start) = start[n] + i
    BY <1>11, <1>12
  <2> QED
    BY <1>6, <1>10, <2>1
<1>14. InOrder(start)
  BY <1>1, <1>2, <1>10, <1>12, <1>13 DEF InOrder
<1> QED
  BY <1>12, <1>14

\* The next token is the first one that was not read.
LEMMA NextToken ==
  ASSUME NEW start, InOrder(start), rest # <<>>
  PROVE  \E n \in 1 .. Len(lines) : \E i \in 1 .. Len(lines[n]) :
           Passed(start) + 1 = start[n] + i /\ Head(rest) = At(n, i)
<1>0. Len(lines) \in Nat
  <2>1. lines \in Seq(Seq(STRING))
    BY DEF InOrder
  <2> QED
    BY <2>1, LinesType
<1>1. PICK N \in Nat : N = Len(lines)
  BY <1>0
<1>2. Lens \in [1 .. N -> Nat] /\ Laid(N, Lens, start) /\ \A n \in 1 .. N : Lens[n] = Len(lines[n])
  BY <1>1, LinesType DEF InOrder
<1>3. PICK p : p = Passed(start)
  OBVIOUS
<1>4. Len(rest) \in Nat \ {0} /\ Head(rest) = rest[1]
  BY EmptySeq DEF InOrder
<1>5. p \in Nat /\ start[N + 1] \in Nat /\ p = start[N + 1] - Len(rest)
  BY <1>1, <1>2, <1>3 DEF InOrder, Passed, Laid
<1>6. p + 1 \in 1 .. start[N + 1]
  BY <1>4, <1>5
<1>7. PICK n \in 1 .. N : \E i \in 1 .. Lens[n] : p + 1 = start[n] + i
  BY <1>2, <1>6, PlaceCovered
<1>8. PICK i \in 1 .. Lens[n] : p + 1 = start[n] + i
  BY <1>7
<1>9. start[n] \in Nat /\ i \in 1 .. Len(lines[n])
  BY <1>2 DEF Laid
<1>9a. i \in Int
  <2>1. Lens[n] \in Nat
    BY <1>2
  <2> QED
    BY <2>1
<1>10. start[n] + i > p /\ start[n] + i - p = 1
  <2>1. PICK a \in Nat : a = start[n]
    BY <1>9
  <2>2. p \in Nat /\ p + 1 = a + i
    BY <1>5, <1>8, <2>1
  <2>3. a + i > p /\ a + i - p = 1
    BY <1>9a, <2>2
  <2> QED
    BY <2>1, <2>3
<1>11. rest[1] = At(n, i)
  BY <1>1, <1>3, <1>9, <1>10 DEF InOrder
<1> QED
  BY <1>1, <1>3, <1>4, <1>8, <1>9, <1>11

\* Reading it leaves the others as they stand.
LEMMA ReadOn ==
  ASSUME NEW start, InOrder(start), rest # <<>>, rest' = Tail(rest), lines' = lines
  PROVE  InOrder(start)' /\ Passed(start)' = Passed(start) + 1
<1>1. /\ rest' \in Seq(Tokens) /\ Len(rest') = Len(rest) - 1 /\ Len(rest) \in Nat \ {0}
      /\ \A j \in 1 .. Len(rest) - 1 : rest'[j] = rest[j + 1]
  BY HeadTailProperties, EmptySeq DEF InOrder
<1>1a. Len(lines) \in Nat
  <2>1. lines \in Seq(Seq(STRING))
    BY DEF InOrder
  <2> QED
    BY <2>1, LinesType
<1>2. PICK N \in Nat : N = Len(lines)
  BY <1>1a
<1>3. Lens' = Lens /\ Tokens' = Tokens /\ \A n, i : At(n, i)' = At(n, i)
  BY DEF Lens, Tokens, At
<1>4. PICK p \in Nat : p = Passed(start)
  BY DEF InOrder
<1>5. start[N + 1] \in Nat /\ p = start[N + 1] - Len(rest)
  <2>1. Laid(N, Lens, start)
    BY <1>2 DEF InOrder
  <2>2. start[N + 1] \in Nat
    BY <2>1 DEF Laid
  <2> QED
    BY <1>2, <1>4, <2>2 DEF Passed
<1>6. Passed(start)' = p + 1
  BY <1>1, <1>2, <1>5 DEF Passed
<1>7. ASSUME NEW n \in 1 .. N, NEW i \in 1 .. Len(lines[n]), start[n] + i > p + 1
      PROVE  rest'[start[n] + i - (p + 1)] = At(n, i)
  <2>1. Len(lines[n]) \in Nat /\ Lens \in [1 .. N -> Nat] /\ Lens[n] = Len(lines[n]) /\ Laid(N, Lens, start)
    BY <1>2, LinesType DEF InOrder
  <2>2. start[n] \in Nat /\ start[n + 1] \in Nat /\ start[n + 1] = start[n] + Len(lines[n])
    BY <2>1 DEF Laid
  <2>3. start[n + 1] <= start[N + 1]
    <3>1. n + 1 \in 1 .. N + 1 /\ N + 1 \in n + 1 .. N + 1
      OBVIOUS
    <3> QED
      BY <2>1, <3>1, StartsGrow
  <2>4. PICK j : j = start[n] + i - (p + 1)
    OBVIOUS
  <2>4a. PICK a \in Nat : a = start[n]
    BY <2>2
  <2>4b. PICK b \in Nat : b = start[N + 1]
    BY <1>5
  <2>4c. a + Len(lines[n]) <= b /\ a + i > p + 1 /\ j = a + i - (p + 1) /\ p = b - Len(rest)
    BY <1>5, <1>7, <2>2, <2>3, <2>4, <2>4a, <2>4b
  <2>4d. j \in 1 .. Len(rest) - 1 /\ j + 1 = a + i - p
    <3>0. Len(rest) \in Nat
      BY <1>1
    <3>1. PICK c \in Nat : c = Len(rest)
      BY <3>0
    <3>2. PICK d \in Nat : d = Len(lines[n])
      BY <2>1
    <3>3. i \in 1 .. d /\ a + d <= b /\ p = b - c /\ a + i > p + 1 /\ j = a + i - (p + 1)
      BY <2>4c, <3>1, <3>2
    <3>4. j \in 1 .. c - 1 /\ j + 1 = a + i - p
      BY <3>3
    <3> QED
      BY <3>1, <3>4
  <2>5. j \in 1 .. Len(rest) - 1 /\ j + 1 = start[n] + i - p
    BY <2>4a, <2>4d
  <2>6. start[n] + i > p
    BY <1>7, <2>2
  <2>7. rest[start[n] + i - p] = At(n, i)
    BY <1>2, <1>4, <2>6 DEF InOrder
  <2> QED
    BY <1>1, <2>4, <2>5, <2>7
<1>8. InOrder(start)'
  <2>1. lines \in Seq(Seq(STRING)) /\ Laid(N, Lens, start)
    BY <1>2 DEF InOrder
  <2>2. /\ lines' \in Seq(Seq(STRING)) /\ Laid(Len(lines'), Lens', start)
        /\ rest' \in Seq(Tokens') /\ Passed(start)' \in Nat
    BY <1>1, <1>2, <1>3, <1>6, <2>1
  <2>3. ASSUME NEW n \in 1 .. Len(lines'), NEW i \in 1 .. Len(lines'[n]), start[n] + i > Passed(start)'
        PROVE  rest'[start[n] + i - Passed(start)'] = At(n, i)'
    BY <1>2, <1>3, <1>6, <1>7, <2>3
  <2> QED
    BY <2>2, <2>3 DEF InOrder
<1> QED
  BY <1>4, <1>6, <1>8

-----------------------------------------------------------------------------
(* The commands among the lines.                                           *)

RightLines == \A n \in DOMAIN lines : lines[n] \in Commands \/ "db" \notin ToSet(lines[n])

RightOnes == {n \in DOMAIN lines : lines[n] \in Commands}

\* The first k tokens of line n.
Begun(n, k) == [i \in 1 .. k |-> At(n, i)]

\* The commands that are read to their end.
ReadOnes(start) == {n \in RightOnes : start[n + 1] <= Passed(start)}

Rank(n) == Cardinality({m \in RightOnes : m <= n})

\* No command is begun, or one of the typed ones; one that is complete is q.
InCommand(start) ==
  /\ stack = <<>> =>
       \A n \in RightOnes : Passed(start) <= start[n] \/ start[n + 1] <= Passed(start)
  /\ stack # <<>> =>
       \E n \in RightOnes :
         /\ start[n] < Passed(start) /\ Passed(start) < start[n + 1]
         /\ stack = Begun(n, Passed(start) - start[n])
  /\ pc = "build" => \E n \in RightOnes : Passed(start) = start[n + 1] /\ q = Typed(n)

\* What is read is sent.
InTurn(start) ==
  /\ sent \in Seq({Typed(n) : n \in RightOnes})
  /\ Cardinality(ReadOnes(start)) = IF pc = "build" THEN Len(sent) + 1 ELSE Len(sent)
  /\ \A n \in RightOnes : Rank(n) <= Len(sent) => sent[Rank(n)] = Typed(n)

\* Where the places of the tokens are.
LEMMA Places ==
  ASSUME NEW start, InOrder(start)
  PROVE  /\ Len(lines) \in Nat
         /\ Lens \in [1 .. Len(lines) -> Nat] /\ Laid(Len(lines), Lens, start)
         /\ \A n \in 1 .. Len(lines) + 1 : start[n] \in Nat
         /\ \A n \in 1 .. Len(lines) :
              /\ Lens[n] = Len(lines[n]) /\ Len(lines[n]) \in Nat
              /\ start[n + 1] = start[n] + Len(lines[n])
              /\ start[n + 1] <= start[Len(lines) + 1]
         /\ Passed(start) \in Nat /\ Len(rest) \in Nat
         /\ Passed(start) + Len(rest) = start[Len(lines) + 1]
<1>1. lines \in Seq(Seq(STRING)) /\ Laid(Len(lines), Lens, start) /\ Passed(start) \in Nat
      /\ rest \in Seq(Tokens)
  BY DEF InOrder
<1>2. /\ Len(lines) \in Nat /\ Lens \in [1 .. Len(lines) -> Nat]
      /\ \A n \in 1 .. Len(lines) : Lens[n] = Len(lines[n]) /\ Len(lines[n]) \in Nat
  BY <1>1, LinesType
<1>3. PICK N \in Nat : N = Len(lines)
  BY <1>2
<1>4. /\ \A n \in 1 .. N + 1 : start[n] \in Nat
      /\ \A n \in 1 .. N : start[n + 1] = start[n] + Lens[n]
  BY <1>1, <1>3 DEF Laid
<1>5. ASSUME NEW n \in 1 .. N PROVE start[n + 1] <= start[N + 1]
  <2>1. n + 1 \in 1 .. N + 1 /\ N + 1 \in n + 1 .. N + 1
    OBVIOUS
  <2> QED
    BY <1>1, <1>2, <1>3, <2>1, StartsGrow
<1>6. Len(rest) \in Nat
  BY <1>1, LenProperties
<1>7. start[N + 1] \in Nat
  BY <1>4
<1>8. Passed(start) + Len(rest) = start[N + 1]
  BY <1>3, <1>6, <1>7 DEF Passed
<1> QED
  BY <1>1, <1>2, <1>3, <1>4, <1>5, <1>6, <1>8

\* A command has tokens, db. is the first of them and no other, none is stray.
LEMMA RightShape ==
  ASSUME lines \in Seq(Seq(STRING)), NEW n \in RightOnes
  PROVE  /\ n \in 1 .. Len(lines) /\ lines[n] \in Commands
         /\ Len(lines[n]) \in Nat /\ Len(lines[n]) > 4 /\ lines[n][1] = "db"
         /\ \A i \in 1 .. Len(lines[n]) : lines[n][i] # "stray" /\ (lines[n][i] = "db" => i = 1)
<1>1. n \in 1 .. Len(lines) /\ lines[n] \in Commands
  BY LinesType DEF RightOnes
<1>2. Framed(lines[n])
  BY <1>1, CommandsFramed
<1> QED
  BY <1>1, <1>2 DEF Framed

LEMMA BegunOn ==
  ASSUME NEW n, NEW k \in Nat
  PROVE  /\ Begun(n, 0) = <<>>
         /\ Append(Begun(n, k), At(n, k + 1)) = Begun(n, k + 1)
         /\ Begun(n, k + 1) # <<>>
         /\ Kinds(Begun(n, k)) = [i \in 1 .. k |-> lines[n][i]]
<1> DEFINE S == {At(n, i) : i \in Nat}
<1>1. Begun(n, 0) = <<>>
  BY DEF Begun
<1>2. ASSUME NEW j \in Nat PROVE Begun(n, j) \in Seq(S) /\ Len(Begun(n, j)) = j
  <2>1. Begun(n, j) \in [1 .. j -> S]
    BY DEF Begun
  <2> HIDE DEF S
  <2>2. Begun(n, j) \in Seq(S)
    BY <2>1, SeqDef
  <2>3. PICK s : s = Begun(n, j)
    OBVIOUS
  <2>4. Len(s) = j
    BY <2>1, <2>2, <2>3, LenProperties
  <2> QED
    BY <2>2, <2>3, <2>4
<1>3. PICK j \in Nat : j = k + 1
  OBVIOUS
<1>4. At(n, j) \in S
  OBVIOUS
<1> HIDE DEF S
<1>5. PICK s : s = Begun(n, k)
  OBVIOUS
<1>6. /\ Append(s, At(n, j)) \in Seq(S)
      /\ Len(Append(s, At(n, j))) = j
      /\ \A i \in 1 .. j : Append(s, At(n, j))[i] = IF i = j THEN At(n, j) ELSE s[i]
  <2>1. s \in Seq(S) /\ Len(s) = k
    BY <1>2, <1>5
  <2>2. /\ Append(s, At(n, j)) \in Seq(S)
        /\ Len(Append(s, At(n, j))) = Len(s) + 1
        /\ \A i \in 1 .. Len(s) : Append(s, At(n, j))[i] = s[i]
        /\ Append(s, At(n, j))[Len(s) + 1] = At(n, j)
    BY <1>4, <2>1, AppendProperties
  <2> QED
    BY <1>3, <2>1, <2>2
<1>7. \A i \in 1 .. j : Append(s, At(n, j))[i] = Begun(n, j)[i]
  <2>1. ASSUME NEW i \in 1 .. j PROVE Begun(n, j)[i] = At(n, i) /\ (i # j => s[i] = At(n, i))
    BY <1>3, <1>5 DEF Begun
  <2> QED
    BY <1>6, <2>1
<1>8. Append(s, At(n, j)) = Begun(n, j)
  BY <1>2, <1>6, <1>7, SeqEqual
<1>9. Begun(n, j) # <<>>
  BY <1>2, <1>3, EmptySeq
<1>10. Kinds(Begun(n, k)) = [i \in 1 .. k |-> lines[n][i]]
  BY DEF Kinds, Begun, At
<1> QED
  BY <1>1, <1>3, <1>5, <1>8, <1>9, <1>10

\* Along a typed command every token is shifted, and the command is complete
\* with the last of them.
LEMMA RightShifts ==
  ASSUME lines \in Seq(Seq(STRING)), NEW n \in RightOnes, NEW k \in 1 .. Len(lines[n])
  PROVE  Shifts(Kinds(Begun(n, k))) /\ (Complete(Kinds(Begun(n, k))) <=> k = Len(lines[n]))
<1>1. PICK c : c = lines[n]
  OBVIOUS
<1>2. c \in Commands /\ c \in Seq(STRING) /\ Len(c) \in Nat /\ k \in 1 .. Len(c)
      /\ c \in [1 .. Len(c) -> STRING]
  BY <1>1, RightShape, LinesType
<1>3. PICK s : s = [i \in 1 .. k |-> c[i]]
  OBVIOUS
<1>4. Kinds(Begun(n, k)) = s
  BY <1>1, <1>2, <1>3, BegunOn
<1>5. s \in Seq(STRING) /\ Len(s) = k
  <2>1. s \in [1 .. k -> STRING] /\ k \in Nat
    BY <1>2, <1>3
  <2>2. s \in Seq(STRING)
    BY <2>1, SeqDef
  <2> QED
    BY <2>1, <2>2, LenProperties
<1>6. SubSeq(s, 1, k) = SubSeq(c, 1, k)
  <2>1. \A i \in 1 .. k : s[i] \in STRING /\ c[i] \in STRING /\ s[i] = c[i]
    BY <1>2, <1>3
  <2>2. /\ SubSeq(s, 1, k) \in Seq(STRING) /\ Len(SubSeq(s, 1, k)) = k
        /\ \A i \in 1 .. k : SubSeq(s, 1, k)[i] = s[i]
    <3>1. k \in Int /\ 1 \in Int /\ 1 <= k /\ k - 1 + 1 = k
      BY <1>2
    <3>2. /\ SubSeq(s, 1, k) \in Seq(STRING)
          /\ Len(SubSeq(s, 1, k)) = IF 1 <= k THEN k - 1 + 1 ELSE 0
          /\ \A i \in 1 .. k - 1 + 1 : SubSeq(s, 1, k)[i] = s[1 + i - 1]
      BY <2>1, <3>1, SubSeqProperties
    <3> QED
      BY <3>1, <3>2
  <2>3. /\ SubSeq(c, 1, k) \in Seq(STRING) /\ Len(SubSeq(c, 1, k)) = k
        /\ \A i \in 1 .. k : SubSeq(c, 1, k)[i] = c[i]
    <3>1. k \in Int /\ 1 \in Int /\ 1 <= k /\ k - 1 + 1 = k
      BY <1>2
    <3>2. /\ SubSeq(c, 1, k) \in Seq(STRING)
          /\ Len(SubSeq(c, 1, k)) = IF 1 <= k THEN k - 1 + 1 ELSE 0
          /\ \A i \in 1 .. k - 1 + 1 : SubSeq(c, 1, k)[i] = c[1 + i - 1]
      BY <2>1, <3>1, SubSeqProperties
    <3> QED
      BY <3>1, <3>2
  <2>4. PICK a : a = SubSeq(s, 1, k)
    OBVIOUS
  <2>5. PICK b : b = SubSeq(c, 1, k)
    OBVIOUS
  <2>6. a = b
    BY <2>1, <2>2, <2>3, <2>4, <2>5, SeqEqual
  <2> QED
    BY <2>4, <2>5, <2>6
<1>7. Shifts(s)
  BY <1>2, <1>5, <1>6 DEF Shifts, IsPrefix
<1>8. ASSUME s \in Commands PROVE k = Len(c)
  <2>1. s = c
    BY <1>2, <1>3, <1>5, <1>8, NoneInAnother
  <2> QED
    BY <1>5, <2>1
<1>9. ASSUME k = Len(c) PROVE s \in Commands
  <2>1. s = c
    BY <1>2, <1>3, <1>9
  <2> QED
    BY <1>2, <2>1
<1> QED
  BY <1>1, <1>4, <1>7, <1>8, <1>9 DEF Complete

\* Where a command may begin, nothing but db. is shifted.
LEMMA OnlyDbShifts ==
  ASSUME NEW t, t.kind # "db"
  PROVE  ~Shifts(Kinds(Append(<<>>, t)))
<1>1. PICK s : s = Kinds(Append(<<>>, t))
  OBVIOUS
<1>2. s = <<t.kind>> /\ Len(s) = 1 /\ s[1] = t.kind
  BY <1>1 DEF Kinds
<1>3. ASSUME NEW c \in Commands, IsPrefix(s, c) PROVE FALSE
  <2>1. Framed(c)
    BY CommandsFramed
  <2>2. Len(c) > 4 /\ Len(c) \in Nat /\ c[1] = "db"
    BY <2>1 DEF Framed
  <2>3. SubSeq(s, 1, 1) = SubSeq(c, 1, 1)
    BY <1>2, <1>3 DEF IsPrefix
  <2>4. SubSeq(s, 1, 1)[1] = s[1]
    <3>1. \A i \in 1 .. 1 : s[i] \in {s[1]}
      OBVIOUS
    <3>2. \A i \in 1 .. 1 - 1 + 1 : SubSeq(s, 1, 1)[i] = s[1 + i - 1]
      BY <3>1, SubSeqProperties
    <3> QED
      BY <3>2
  <2>5. SubSeq(c, 1, 1)[1] = c[1]
    <3>1. \A i \in 1 .. 1 : c[i] \in {c[1]}
      OBVIOUS
    <3>2. \A i \in 1 .. 1 - 1 + 1 : SubSeq(c, 1, 1)[i] = c[1 + i - 1]
      BY <3>1, SubSeqProperties
    <3> QED
      BY <3>2
  <2> QED
    BY <1>2, <2>2, <2>3, <2>4, <2>5
<1> QED
  BY <1>1, <1>3 DEF Shifts

\* The next token goes on with the typed command, or stands outside of one.
Ahead(start, n, i) ==
  /\ n \in 1 .. Len(lines) /\ i \in 1 .. Len(lines[n])
  /\ Passed(start) + 1 = start[n] + i /\ Head(rest) = At(n, i)
  /\ IF n \in RightOnes THEN stack = Begun(n, i - 1) ELSE stack = <<>> /\ Head(rest).kind # "db"

LEMMA TokenAhead ==
  ASSUME NEW start, InOrder(start), RightLines, InCommand(start), rest # <<>>
  PROVE  \E n, i : Ahead(start, n, i)
<1>1. PICK n \in 1 .. Len(lines) : \E i \in 1 .. Len(lines[n]) :
        Passed(start) + 1 = start[n] + i /\ Head(rest) = At(n, i)
  BY NextToken
<1>2. PICK i \in 1 .. Len(lines[n]) : Passed(start) + 1 = start[n] + i /\ Head(rest) = At(n, i)
  BY <1>1
<1>3. lines \in Seq(Seq(STRING))
  BY DEF InOrder
<1>4. PICK N \in Nat : N = Len(lines)
  <2>1. Len(lines) \in Nat
    BY Places
  <2> QED
    BY <2>1
<1>5. PICK p \in Nat : p = Passed(start)
  <2>1. Passed(start) \in Nat
    BY Places
  <2> QED
    BY <2>1
<1>6. PICK a \in Nat : a = start[n]
  <2>1. start[n] \in Nat
    BY <1>4, Places
  <2> QED
    BY <2>1
<1>7. PICK d \in Nat : d = Len(lines[n])
  <2>1. Len(lines[n]) \in Nat
    BY <1>4, Places
  <2> QED
    BY <2>1
<1>8. p + 1 = a + i /\ i \in 1 .. d /\ start[n + 1] = a + d
  <2>1. start[n + 1] = start[n] + Len(lines[n])
    BY Places
  <2> QED
    BY <1>2, <1>5, <1>6, <1>7, <2>1
<1>9. CASE stack = <<>>
  <2>1. CASE n \in RightOnes
    <3>1. p <= a \/ a + d <= p
      BY <1>5, <1>6, <1>8, <1>9, <2>1 DEF InCommand
    <3>2. i = 1
      BY <1>8, <3>1
    <3>3. stack = Begun(n, i - 1)
      <4>1. Begun(n, 0) = <<>>
        BY BegunOn
      <4> QED
        BY <1>9, <3>2, <4>1
    <3> QED
      BY <1>2, <2>1, <3>3 DEF Ahead
  <2>2. CASE n \notin RightOnes
    <3>1. n \in DOMAIN lines /\ i \in DOMAIN lines[n]
      BY <1>3, LinesType
    <3>2. "db" \notin ToSet(lines[n])
      BY <2>2, <3>1 DEF RightLines, RightOnes
    <3>3. lines[n][i] # "db"
      BY <3>1, <3>2 DEF ToSet
    <3>4. Head(rest).kind # "db"
      BY <1>2, <3>3 DEF At
    <3> QED
      BY <1>2, <1>9, <2>2, <3>4 DEF Ahead
  <2> QED
    BY <2>1, <2>2
<1>10. CASE stack # <<>>
  <2>1. PICK m \in RightOnes :
          /\ start[m] < Passed(start) /\ Passed(start) < start[m + 1]
          /\ stack = Begun(m, Passed(start) - start[m])
    BY <1>10 DEF InCommand
  <2>2. m \in 1 .. N
    BY <1>3, <1>4, RightShape
  <2>3. Lens \in [1 .. N -> Nat] /\ Laid(N, Lens, start)
        /\ Lens[n] = d /\ Lens[m] = Len(lines[m]) /\ Len(lines[m]) \in Nat
        /\ start[m] \in Nat /\ start[m + 1] = start[m] + Len(lines[m])
    BY <1>4, <1>7, <2>2, Places
  <2>4. PICK b \in Nat : b = start[m]
    BY <2>3
  <2>5. PICK e \in Nat : e = Lens[m]
    BY <2>3
  <2>6. b < p /\ p < b + e
    BY <1>5, <2>1, <2>3, <2>4, <2>5
  <2>7. PICK j : j = p + 1 - b
    OBVIOUS
  <2>8. j \in 1 .. e /\ a + i = b + j /\ j - 1 = p - b
    BY <1>8, <2>6, <2>7
  <2>9. n = m /\ i = j
    <3>1. /\ n \in 1 .. N /\ m \in 1 .. N /\ i \in 1 .. Lens[n] /\ j \in 1 .. Lens[m]
          /\ start[n] + i = start[m] + j
      BY <1>4, <1>6, <1>8, <2>2, <2>3, <2>4, <2>5, <2>8
    <3>2. HasPlace(N, Lens, start, n, i, start[n] + i) /\ HasPlace(N, Lens, start, m, j, start[n] + i)
      BY <3>1 DEF HasPlace
    <3> QED
      BY <2>3, <3>2, PlaceUnique
  <2>10. stack = Begun(n, i - 1)
    BY <1>5, <2>1, <2>4, <2>8, <2>9
  <2> QED
    BY <1>2, <2>1, <2>9, <2>10 DEF Ahead
<1> QED
  BY <1>9, <1>10

\* A token outside of the commands ends none and begins none; one within a
\* command ends that one or none.
LEMMA StepOver ==
  ASSUME NEW start, InOrder(start), NEW n \in 1 .. Len(lines), NEW i \in 1 .. Len(lines[n]),
         Passed(start) + 1 = start[n] + i, NEW m \in RightOnes
  PROVE  /\ start[m + 1] <= Passed(start) + 1
              <=> start[m + 1] <= Passed(start) \/ (m = n /\ i = Len(lines[n]))
         /\ n # m /\ (Passed(start) <= start[m] \/ start[m + 1] <= Passed(start))
              => Passed(start) + 1 <= start[m] \/ start[m + 1] <= Passed(start) + 1
<1>1. lines \in Seq(Seq(STRING))
  BY DEF InOrder
<1>2. m \in 1 .. Len(lines) /\ Len(lines[m]) > 4
  BY <1>1, RightShape
<1>3. PICK N \in Nat : N = Len(lines)
  <2>1. Len(lines) \in Nat
    BY Places
  <2> QED
    BY <2>1
<1>4. /\ Lens \in [1 .. N -> Nat] /\ Laid(N, Lens, start) /\ Passed(start) \in Nat
      /\ Lens[n] = Len(lines[n]) /\ Lens[m] = Len(lines[m])
      /\ start[n] \in Nat /\ start[m] \in Nat
      /\ start[n + 1] = start[n] + Lens[n] /\ start[m + 1] = start[m] + Lens[m]
      /\ Lens[n] \in Nat /\ Lens[m] \in Nat
  BY <1>2, <1>3, Places
<1>5. PICK p \in Nat : p = Passed(start)
  BY <1>4
<1>6. PICK b \in Nat : b = start[m]
  BY <1>4
<1>7. PICK e \in Nat : e = Lens[m]
  BY <1>4
<1>8. start[m + 1] = b + e /\ e > 4 /\ p + 1 = start[n] + i /\ start[n] + i \in Nat
  <2>1. i \in Nat
    BY <1>4
  <2>2. PICK a \in Nat : a = start[n]
    BY <1>4
  <2>3. a + i \in Nat
    BY <2>1, <2>2
  <2>3b. start[m + 1] = b + e
    <3>1. start[m + 1] = start[m] + Lens[m]
      BY <1>4
    <3> QED
      BY <1>6, <1>7, <3>1, Zenon
  <2>3a. p + 1 = start[n] + i
    BY <1>5
  <2>4. e > 4
    BY <1>2, <1>4, <1>7
  <2> QED
    BY <2>2, <2>3, <2>3a, <2>3b, <2>4
<1>9. ASSUME NEW j \in 1 .. e, p + 1 = b + j PROVE n = m /\ i = j
  <2>1. /\ n \in 1 .. N /\ m \in 1 .. N /\ i \in 1 .. Lens[n] /\ j \in 1 .. Lens[m]
        /\ start[n] + i = start[m] + j
    BY <1>2, <1>3, <1>4, <1>6, <1>7, <1>8, <1>9
  <2>2. HasPlace(N, Lens, start, n, i, start[n] + i) /\ HasPlace(N, Lens, start, m, j, start[n] + i)
    BY <2>1 DEF HasPlace
  <2> QED
    BY <1>4, <2>2, PlaceUnique
<1>10. ASSUME b + e <= p + 1, ~(b + e <= p) PROVE m = n /\ i = Len(lines[n])
  <2>1. p + 1 = b + e /\ e \in 1 .. e
    BY <1>8, <1>10
  <2>2. n = m /\ i = e
    BY <1>9, <2>1
  <2> QED
    BY <1>4, <1>7, <2>2
<1>11. ASSUME m = n, i = Len(lines[n]) PROVE b + e <= p + 1
  BY <1>4, <1>6, <1>7, <1>8, <1>11
<1>12. ASSUME n # m, p <= b PROVE p + 1 <= b
  <2>1. 1 \in 1 .. e
    BY <1>8
  <2>2. p # b
    BY <1>9, <1>12, <2>1
  <2> QED
    BY <1>12, <2>2
<1>13. b + e <= p => b + e <= p + 1
  OBVIOUS
<1> QED
  BY <1>5, <1>6, <1>8, <1>10, <1>11, <1>12, <1>13

\* An end of the input finds no command half read.
LEMMA EndOutside ==
  ASSUME NEW start, InOrder(start), InCommand(start), rest = <<>>
  PROVE  stack = <<>>
<1> SUFFICES ASSUME stack # <<>> PROVE FALSE
  OBVIOUS
<1>1. PICK m \in RightOnes : Passed(start) < start[m + 1]
  BY DEF InCommand
<1>2. lines \in Seq(Seq(STRING))
  BY DEF InOrder
<1>3. m \in 1 .. Len(lines)
  BY <1>2, RightShape
<1>4. /\ Passed(start) \in Nat /\ Passed(start) + Len(rest) = start[Len(lines) + 1]
      /\ start[m + 1] <= start[Len(lines) + 1]
  BY <1>3, Places
<1>5. Len(rest) = 0
  BY EmptySeq
<1>6. PICK p \in Nat : p = Passed(start)
  BY <1>4
<1>7. start[Len(lines) + 1] = p
  BY <1>4, <1>5, <1>6
<1>8. start[m + 1] \in Nat
  <2>1. Len(lines) \in Nat /\ \A n \in 1 .. Len(lines) + 1 : start[n] \in Nat
    BY Places
  <2>2. m + 1 \in 1 .. Len(lines) + 1
    BY <1>3, <2>1
  <2> QED
    BY <2>1, <2>2
<1> QED
  BY <1>1, <1>4, <1>6, <1>7, <1>8

\* Commands are counted.
LEMMA RankOne ==
  ASSUME lines \in Seq(Seq(STRING))
  PROVE  /\ IsFiniteSet(RightOnes) /\ RightOnes \subseteq 1 .. Len(lines)
         /\ \A n \in RightOnes : Rank(n) \in Nat
         /\ \A n, m \in RightOnes : Rank(n) = Rank(m) => n = m
<1>1. RightOnes \subseteq 1 .. Len(lines) /\ Len(lines) \in Nat
  BY LinesType DEF RightOnes
<1>2. IsFiniteSet(RightOnes)
  <2>1. IsFiniteSet(1 .. Len(lines))
    BY <1>1, FS_Interval
  <2> QED
    BY <1>1, <2>1, FS_Subset
<1>3. ASSUME NEW n \in RightOnes
      PROVE  IsFiniteSet({k \in RightOnes : k <= n}) /\ Rank(n) \in Nat
  <2>1. {k \in RightOnes : k <= n} \in SUBSET RightOnes
    OBVIOUS
  <2>2. IsFiniteSet({k \in RightOnes : k <= n})
    BY <1>2, <2>1, FS_Subset
  <2> QED
    BY <2>2, FS_CardinalityType DEF Rank
<1>4. ASSUME NEW n \in RightOnes, NEW m \in RightOnes, n < m, Rank(n) = Rank(m) PROVE FALSE
  <2>1. PICK A : A = {k \in RightOnes : k <= n}
    OBVIOUS
  <2>2. PICK B : B = {k \in RightOnes : k <= m}
    OBVIOUS
  <2>3. n \in Int /\ m \in Int /\ \A k \in RightOnes : k \in Int
    BY <1>1
  <2>4. A \in SUBSET B /\ m \in B /\ m \notin A
    <3>1. n <= m /\ m <= m /\ ~(m <= n)
      BY <1>4, <2>3
    <3>2. \A k \in RightOnes : k <= n => k <= m
      BY <2>3, <3>1
    <3> QED
      BY <2>1, <2>2, <3>1, <3>2
  <2>5. IsFiniteSet(B) /\ Cardinality(A) = Cardinality(B)
    BY <1>3, <1>4, <2>1, <2>2 DEF Rank
  <2>6. B = A
    BY <2>4, <2>5, FS_Subset
  <2> QED
    BY <2>4, <2>6
<1>5. ASSUME NEW n \in RightOnes, NEW m \in RightOnes, Rank(n) = Rank(m) PROVE n = m
  <2>1. n \in Int /\ m \in Int
    BY <1>1
  <2> QED
    BY <1>4, <1>5, <2>1
<1> QED
  BY <1>1, <1>2, <1>3, <1>5

-----------------------------------------------------------------------------
(* The steps of the loop.                                                  *)

Follows(start) == InOrder(start) /\ (RightLines => InCommand(start) /\ InTurn(start))

\* What does not change with a step that leaves lines, tokens and sent alone.
LEMMA SameLines ==
  ASSUME NEW start, lines' = lines
  PROVE  /\ RightOnes' = RightOnes /\ RightLines' = RightLines /\ Lens' = Lens
         /\ \A n : Typed(n)' = Typed(n) /\ Rank(n)' = Rank(n)
         /\ \A n, k : Begun(n, k)' = Begun(n, k)
  BY DEF RightOnes, RightLines, Lens, Typed, Rank, Begun, At

LEMMA InTurnStays ==
  ASSUME NEW start, InTurn(start), lines' = lines, sent' = sent,
         ReadOnes(start)' = ReadOnes(start), (pc = "build") <=> (pc' = "build")
  PROVE  InTurn(start)'
<1>1. /\ RightOnes' = RightOnes
      /\ \A n : Typed(n)' = Typed(n) /\ Rank(n)' = Rank(n)
  BY SameLines
<1>2. {Typed(n)' : n \in RightOnes} = {Typed(n) : n \in RightOnes}
  BY <1>1
<1>3. sent' \in Seq({Typed(n)' : n \in RightOnes'})
  BY <1>1, <1>2 DEF InTurn
<1>4. Cardinality(ReadOnes(start)') = IF pc' = "build" THEN Len(sent') + 1 ELSE Len(sent')
  BY DEF InTurn
<1>5. \A n \in RightOnes' : Rank(n)' <= Len(sent') => sent'[Rank(n)'] = Typed(n)'
  BY <1>1 DEF InTurn
<1> QED
  BY <1>3, <1>4, <1>5 DEF InTurn

\* A token outside of the commands.
LEMMA PassBy ==
  ASSUME NEW start, InOrder(start), RightLines, InCommand(start), InTurn(start),
         NEW n, NEW i, Ahead(start, n, i), n \notin RightOnes,
         pc = "parse", pc' = "parse", stack' = <<>>, rest' = Tail(rest), rest # <<>>,
         UNCHANGED <<lines, sent>>
  PROVE  InCommand(start)' /\ InTurn(start)'
<1>1. RightOnes' = RightOnes
  BY SameLines
<1>2. Passed(start)' = Passed(start) + 1
  BY ReadOn
<1>3. /\ n \in 1 .. Len(lines) /\ i \in 1 .. Len(lines[n]) /\ stack = <<>>
      /\ Passed(start) + 1 = start[n] + i
  BY DEF Ahead
<1>4. ASSUME NEW m \in RightOnes
      PROVE  /\ start[m + 1] <= Passed(start) + 1 <=> start[m + 1] <= Passed(start)
             /\ Passed(start) + 1 <= start[m] \/ start[m + 1] <= Passed(start) + 1
  <2>1. m # n
    OBVIOUS
  <2>2. Passed(start) <= start[m] \/ start[m + 1] <= Passed(start)
    BY <1>3 DEF InCommand
  <2> QED
    BY <1>3, <2>1, <2>2, StepOver
<1>5. ReadOnes(start)' = ReadOnes(start)
  BY <1>1, <1>2, <1>4 DEF ReadOnes
<1>6. InCommand(start)'
  BY <1>1, <1>2, <1>4 DEF InCommand
<1> QED
  BY <1>5, <1>6, InTurnStays

\* A token of a command that is not the last one.
LEMMA GoOn ==
  ASSUME NEW start, InOrder(start), RightLines, InCommand(start), InTurn(start),
         NEW n, NEW i, Ahead(start, n, i), n \in RightOnes, i # Len(lines[n]),
         pc = "parse", pc' = "parse", stack' = Append(stack, Head(rest)), rest' = Tail(rest), rest # <<>>,
         UNCHANGED <<lines, sent>>
  PROVE  InCommand(start)' /\ InTurn(start)'
<1>1. /\ RightOnes' = RightOnes /\ \A m, k : Begun(m, k)' = Begun(m, k)
  BY SameLines
<1>2. Passed(start)' = Passed(start) + 1
  BY ReadOn
<1>3. /\ n \in 1 .. Len(lines) /\ i \in 1 .. Len(lines[n]) /\ stack = Begun(n, i - 1)
      /\ Passed(start) + 1 = start[n] + i /\ Head(rest) = At(n, i)
  BY DEF Ahead
<1>4. Len(lines[n]) \in Nat /\ start[n] \in Nat /\ start[n + 1] = start[n] + Len(lines[n])
  <2>1. n \in 1 .. Len(lines) + 1
    BY <1>3, Places
  <2> QED
    BY <1>3, <2>1, Places
<1>5. stack' = Begun(n, i) /\ stack' # <<>>
  <2>1. PICK k \in Nat : k = i - 1
    BY <1>3, <1>4
  <2>2. k + 1 = i
    BY <1>3, <1>4, <2>1
  <2>3. Append(Begun(n, k), At(n, k + 1)) = Begun(n, k + 1) /\ Begun(n, k + 1) # <<>>
    BY BegunOn
  <2> QED
    BY <1>3, <2>1, <2>2, <2>3
<1>6. PICK p : p = Passed(start) + 1
  OBVIOUS
<1>7. start[n] < p /\ p < start[n + 1] /\ p - start[n] = i
  <2>1. PICK a \in Nat : a = start[n]
    BY <1>4
  <2>2. PICK d \in Nat : d = Len(lines[n])
    BY <1>4
  <2>3. p = a + i /\ start[n + 1] = a + d /\ i \in 1 .. d /\ i # d
    BY <1>3, <1>4, <1>6, <2>1, <2>2
  <2>4. a < p /\ p < a + d /\ p - a = i
    BY <2>3
  <2> QED
    BY <2>1, <2>3, <2>4, Zenon
<1>8. InCommand(start)'
  <2>1. /\ start[n] < Passed(start)' /\ Passed(start)' < start[n + 1]
        /\ stack' = [j \in 1 .. Passed(start)' - start[n] |-> At(n, j)]
    BY <1>2, <1>5, <1>6, <1>7 DEF Begun
  <2>2. \A j : At(n, j)' = At(n, j)
    BY DEF At
  <2>3. stack' = [j \in 1 .. Passed(start)' - start[n] |-> At(n, j)']
    BY <2>1, <2>2
  <2>4. pc' # "build"
    OBVIOUS
  <2> QED
    BY <1>1, <1>5, <2>1, <2>3, <2>4 DEF InCommand, Begun
<1>9. ReadOnes(start)' = ReadOnes(start)
  <2>1. ASSUME NEW m \in RightOnes
        PROVE  start[m + 1] <= Passed(start) + 1 <=> start[m + 1] <= Passed(start)
    BY <1>3, StepOver
  <2> QED
    BY <1>1, <1>2, <2>1 DEF ReadOnes
<1> QED
  BY <1>8, <1>9, InTurnStays

\* The last token of a command.
LEMMA Finish ==
  ASSUME NEW start, InOrder(start), RightLines, InCommand(start), InTurn(start),
         NEW n, NEW i, Ahead(start, n, i), n \in RightOnes, i = Len(lines[n]),
         pc = "parse", pc' = "build", stack' = <<>>, q' = Append(stack, Head(rest)),
         rest' = Tail(rest), rest # <<>>,
         UNCHANGED <<lines, sent>>
  PROVE  InCommand(start)' /\ InTurn(start)'
<1>0. lines \in Seq(Seq(STRING))
  BY DEF InOrder
<1>1. /\ RightOnes' = RightOnes
      /\ \A m : Typed(m)' = Typed(m) /\ Rank(m)' = Rank(m)
  BY SameLines
<1>2. Passed(start)' = Passed(start) + 1
  BY ReadOn
<1>3. /\ n \in 1 .. Len(lines) /\ i \in 1 .. Len(lines[n]) /\ stack = Begun(n, i - 1)
      /\ Passed(start) + 1 = start[n] + i /\ Head(rest) = At(n, i)
  BY DEF Ahead
<1>4. Len(lines[n]) \in Nat /\ start[n] \in Nat /\ start[n + 1] = start[n] + Len(lines[n])
      /\ Passed(start) \in Nat /\ DOMAIN lines[n] = 1 .. Len(lines[n])
  <2>1. n \in 1 .. Len(lines) + 1
    BY <1>3, Places
  <2> QED
    BY <1>0, <1>3, <2>1, Places, LinesType
<1>5. q' = Typed(n)
  <2>1. PICK k \in Nat : k = i - 1
    <3>1. PICK d \in Nat : d = Len(lines[n])
      BY <1>4
    <3>2. i \in 1 .. d
      BY <1>3, <3>1
    <3>3. i - 1 \in Nat
      BY <3>2
    <3> QED
      BY <3>3
  <2>2. k + 1 = i
    BY <1>3, <1>4, <2>1
  <2>3. Append(Begun(n, k), At(n, k + 1)) = Begun(n, k + 1)
    BY BegunOn
  <2>4. Begun(n, i) = Typed(n)
    BY <1>4 DEF Begun, Typed, At
  <2> QED
    BY <1>3, <2>1, <2>2, <2>3, <2>4
<1>6. Passed(start) + 1 = start[n + 1]
  BY <1>3, <1>4
<1>7. ASSUME NEW m \in RightOnes
      PROVE  Passed(start) + 1 <= start[m] \/ start[m + 1] <= Passed(start) + 1
  <2>1. m \in 1 .. Len(lines) /\ Len(lines) \in Nat
    BY <1>0, RightShape, Places
  <2>2. Lens \in [1 .. Len(lines) -> Nat] /\ Laid(Len(lines), Lens, start)
    BY Places
  <2>3. CASE m <= n
    <3>1. m + 1 \in 1 .. Len(lines) + 1 /\ n + 1 \in m + 1 .. Len(lines) + 1
      BY <1>3, <2>1, <2>3
    <3>2. start[m + 1] <= start[n + 1]
      BY <2>1, <2>2, <3>1, StartsGrow
    <3> QED
      BY <1>6, <3>2
  <2>4. CASE n < m
    <3>1. n + 1 \in 1 .. Len(lines) + 1 /\ m \in n + 1 .. Len(lines) + 1
      BY <1>3, <2>1, <2>4
    <3>2. start[n + 1] <= start[m]
      BY <2>1, <2>2, <3>1, StartsGrow
    <3> QED
      BY <1>6, <3>2
  <2> QED
    BY <1>3, <2>1, <2>3, <2>4
<1>8. InCommand(start)'
  BY <1>1, <1>2, <1>5, <1>6, <1>7 DEF InCommand
<1>9. ReadOnes(start)' = ReadOnes(start) \cup {n} /\ n \notin ReadOnes(start)
  <2>1. ASSUME NEW m \in RightOnes
        PROVE  start[m + 1] <= Passed(start) + 1 <=> start[m + 1] <= Passed(start) \/ m = n
    BY <1>3, StepOver
  <2>2. ~(start[n + 1] <= Passed(start))
    BY <1>4, <1>6
  <2> QED
    BY <1>1, <1>2, <2>1, <2>2 DEF ReadOnes
<1>10. IsFiniteSet(ReadOnes(start))
  <2>1. ReadOnes(start) \in SUBSET RightOnes /\ IsFiniteSet(RightOnes)
    BY <1>0, RankOne DEF ReadOnes
  <2> QED
    BY <2>1, FS_Subset
<1>11. Cardinality(ReadOnes(start)') = Cardinality(ReadOnes(start)) + 1
  BY <1>9, <1>10, FS_AddElement
<1>12. InTurn(start)'
  <2>1. {Typed(m)' : m \in RightOnes} = {Typed(m) : m \in RightOnes}
    BY <1>1
  <2>2. sent' \in Seq({Typed(m)' : m \in RightOnes'})
    BY <1>1, <2>1 DEF InTurn
  <2>3. Cardinality(ReadOnes(start)') = Len(sent') + 1
    BY <1>11 DEF InTurn
  <2>4. \A m \in RightOnes' : Rank(m)' <= Len(sent') => sent'[Rank(m)'] = Typed(m)'
    BY <1>1 DEF InTurn
  <2> QED
    BY <2>2, <2>3, <2>4 DEF InTurn
<1> QED
  BY <1>8, <1>12

\* The parser takes the tokens of a command, and no token outside of them.
LEMMA Taken ==
  ASSUME NEW start, InOrder(start), NEW n, NEW i, Ahead(start, n, i)
  PROVE  /\ n \in RightOnes =>
              /\ Head(rest).kind # "stray"
              /\ Shifts(Kinds(Append(stack, Head(rest))))
              /\ Complete(Kinds(Append(stack, Head(rest)))) <=> i = Len(lines[n])
         /\ n \notin RightOnes =>
              stack = <<>> /\ ~Shifts(Kinds(Append(stack, Head(rest))))
<1>1. /\ n \in 1 .. Len(lines) /\ i \in 1 .. Len(lines[n]) /\ Head(rest) = At(n, i)
      /\ lines \in Seq(Seq(STRING)) /\ Len(lines[n]) \in Nat
  BY Places DEF Ahead, InOrder
<1>2. CASE n \in RightOnes
  <2>1. stack = Begun(n, i - 1)
    BY <1>2 DEF Ahead
  <2>2. PICK k \in Nat : k = i - 1
    BY <1>1
  <2>3. k + 1 = i
    BY <1>1, <2>2
  <2>4. Append(stack, Head(rest)) = Begun(n, i)
    <3>1. Append(Begun(n, k), At(n, k + 1)) = Begun(n, k + 1)
      BY BegunOn
    <3> QED
      BY <1>1, <2>1, <2>2, <2>3, <3>1
  <2>5. Head(rest).kind # "stray"
    BY <1>1, <1>2, RightShape DEF At
  <2> QED
    BY <1>1, <1>2, <2>4, <2>5, RightShifts
<1>3. CASE n \notin RightOnes
  <2>1. stack = <<>> /\ Head(rest).kind # "db"
    BY <1>3 DEF Ahead
  <2> QED
    BY <1>3, <2>1, OnlyDbShifts
<1> QED
  BY <1>2, <1>3

\* Nothing is read and nothing is sent.
LEMMA Stand ==
  ASSUME NEW start, Follows(start), pc # "build", pc' # "build",
         UNCHANGED <<lines, rest, stack, sent>>
  PROVE  Follows(start)'
<1>1. /\ RightOnes' = RightOnes /\ RightLines' = RightLines /\ Lens' = Lens
      /\ \A n, k : Begun(n, k)' = Begun(n, k)
  BY SameLines
<1>2. Passed(start)' = Passed(start)
  BY DEF Passed
<1>3. InOrder(start)'
  BY <1>1, <1>2 DEF Follows, InOrder, Tokens, At
<1>4. ASSUME RightLines PROVE InCommand(start)' /\ InTurn(start)'
  <2>1. InCommand(start) /\ InTurn(start)
    BY <1>4 DEF Follows
  <2>2. InCommand(start)'
    BY <1>1, <1>2, <2>1 DEF InCommand
  <2>3. ReadOnes(start)' = ReadOnes(start)
    BY <1>1, <1>2 DEF ReadOnes
  <2> QED
    BY <2>1, <2>2, <2>3, InTurnStays
<1> QED
  BY <1>1, <1>3, <1>4 DEF Follows

\* The command that was read is the next one to be sent.
LEMMA SendsNext ==
  ASSUME NEW start, Follows(start), Build, stack = <<>>
  PROVE  Follows(start)'
<1>0. /\ pc = "build" /\ pc' = "call" /\ sent' = Append(sent, q)
      /\ lines' = lines /\ rest' = rest /\ stack' = stack
  BY DEF Build
<1>1. /\ RightOnes' = RightOnes /\ RightLines' = RightLines /\ Lens' = Lens
      /\ \A n, k : Begun(n, k)' = Begun(n, k)
      /\ \A m : Typed(m)' = Typed(m) /\ Rank(m)' = Rank(m)
  BY <1>0, SameLines
<1>2. Passed(start)' = Passed(start)
  BY <1>0 DEF Passed
<1>3. InOrder(start)'
  BY <1>0, <1>1, <1>2 DEF Follows, InOrder, Tokens, At
<1>4. ASSUME RightLines PROVE InCommand(start)' /\ InTurn(start)'
  <2>1. InOrder(start) /\ InCommand(start) /\ InTurn(start) /\ lines \in Seq(Seq(STRING))
    BY <1>4 DEF Follows, InOrder
  <2>2. InCommand(start)'
    BY <1>0, <1>1, <1>2, <2>1 DEF InCommand
  <2>3. PICK n \in RightOnes : Passed(start) = start[n + 1] /\ q = Typed(n)
    BY <1>0, <2>1 DEF InCommand
  <2>4. ReadOnes(start) = {m \in RightOnes : m <= n}
    <3>1. /\ RightOnes \subseteq 1 .. Len(lines) /\ Len(lines) \in Nat /\ n \in 1 .. Len(lines)
          /\ Lens \in [1 .. Len(lines) -> Nat] /\ Laid(Len(lines), Lens, start)
          /\ \A m \in 1 .. Len(lines) + 1 : start[m] \in Nat
      BY <2>1, Places, RankOne
    <3>2. ASSUME NEW m \in RightOnes, m <= n PROVE start[m + 1] <= start[n + 1]
      <4>1. m + 1 \in 1 .. Len(lines) + 1 /\ n + 1 \in m + 1 .. Len(lines) + 1
        BY <3>1, <3>2
      <4> QED
        BY <3>1, <4>1, StartsGrow
    <3>3. ASSUME NEW m \in RightOnes, ~(m <= n) PROVE ~(start[m + 1] <= start[n + 1])
      <4>1. m \in 1 .. Len(lines) /\ n + 1 \in 1 .. Len(lines) + 1 /\ m \in n + 1 .. Len(lines) + 1
        BY <3>1, <3>3
      <4>2. start[n + 1] <= start[m]
        BY <3>1, <4>1, StartsGrow
      <4>3. start[m + 1] = start[m] + Len(lines[m]) /\ Len(lines[m]) \in Nat /\ Len(lines[m]) > 4
        BY <2>1, <4>1, Places, RightShape
      <4>4. PICK a \in Nat : a = start[m]
        BY <3>1, <4>1
      <4>5. PICK b \in Nat : b = start[n + 1]
        BY <3>1, <4>1
      <4>6. ~(a + Len(lines[m]) <= b)
        BY <4>2, <4>3, <4>4, <4>5
      <4> QED
        BY <4>3, <4>4, <4>5, <4>6
    <3> QED
      BY <2>3, <3>2, <3>3 DEF ReadOnes
  <2>5. Rank(n) = Len(sent) + 1
    BY <1>0, <2>1, <2>4 DEF Rank, InTurn
  <2>6. PICK S : S = {Typed(m) : m \in RightOnes}
    OBVIOUS
  <2>7. sent \in Seq(S) /\ q \in S
    BY <2>1, <2>3, <2>6 DEF InTurn
  <2>8. /\ Len(sent) \in Nat
        /\ sent' \in Seq(S) /\ Len(sent') = Len(sent) + 1
        /\ \A k \in 1 .. Len(sent) + 1 : sent'[k] = IF k = Len(sent) + 1 THEN q ELSE sent[k]
    BY <1>0, <2>7, AppendProperties, LenProperties
  <2>9. ASSUME NEW m \in RightOnes, Rank(m) <= Len(sent) + 1 PROVE sent'[Rank(m)] = Typed(m)
    <3>1. Rank(m) \in Nat /\ Rank(m) >= 1
      <4>1. Rank(m) \in Nat /\ IsFiniteSet({k \in RightOnes : k <= m})
        <5>1. {k \in RightOnes : k <= m} \in SUBSET RightOnes /\ IsFiniteSet(RightOnes)
          BY <2>1, RankOne
        <5>2. Rank(m) \in Nat
          BY <2>1, RankOne
        <5> QED
          BY <5>1, <5>2, FS_Subset
      <4>2. m \in {k \in RightOnes : k <= m}
        BY <2>1, RankOne
      <4>3. Rank(m) # 0
        BY <4>1, <4>2, FS_EmptySet DEF Rank
      <4> QED
        BY <4>1, <4>3
    <3>2. CASE Rank(m) = Len(sent) + 1
      <4>1. m = n
        BY <2>1, <2>5, <3>2, RankOne
      <4> QED
        BY <2>3, <2>5, <2>8, <3>1, <4>1
    <3>3. CASE Rank(m) # Len(sent) + 1
      <4>1. Rank(m) <= Len(sent) /\ Rank(m) \in 1 .. Len(sent) + 1
        BY <2>8, <2>9, <3>1, <3>3
      <4>2. sent[Rank(m)] = Typed(m)
        BY <2>1, <4>1 DEF InTurn
      <4> QED
        BY <2>8, <3>3, <4>1, <4>2
    <3> QED
      BY <3>2, <3>3
  <2>10. ReadOnes(start)' = ReadOnes(start)
    BY <1>1, <1>2 DEF ReadOnes
  <2>11. InTurn(start)'
    <3>1. {Typed(m)' : m \in RightOnes'} = S
      BY <1>1, <2>6
    <3>2. Cardinality(ReadOnes(start)') = Len(sent')
      BY <1>0, <2>1, <2>8, <2>10 DEF InTurn
    <3>3. \A m \in RightOnes' : Rank(m)' <= Len(sent') => sent'[Rank(m)'] = Typed(m)'
      BY <1>1, <2>8, <2>9
    <3> QED
      BY <1>0, <2>8, <3>1, <3>2, <3>3 DEF InTurn
  <2> QED
    BY <2>2, <2>11
<1> QED
  BY <1>1, <1>3, <1>4 DEF Follows

\* A session begins between two commands.
LEMMA InitFollows == Init => \E start : Follows(start)
<1> SUFFICES ASSUME Init PROVE \E start : Follows(start)
  OBVIOUS
<1>1. PICK start : InOrder(start) /\ Passed(start) = 0
  BY InitInOrder
<1>2. lines \in Seq(Seq(STRING)) /\ stack = <<>> /\ pc = "parse" /\ sent = <<>>
  BY <1>1 DEF InOrder, Init
<1>3. ASSUME NEW n \in RightOnes PROVE 0 <= start[n] /\ ~(start[n + 1] <= 0)
  <2>1. n \in 1 .. Len(lines) /\ Len(lines[n]) > 4
    BY <1>2, RightShape
  <2>2. Len(lines) \in Nat /\ \A m \in 1 .. Len(lines) + 1 : start[m] \in Nat
    BY <1>1, Places
  <2>3. start[n] \in Nat
    BY <2>1, <2>2
  <2>4. Len(lines[n]) \in Nat /\ start[n + 1] = start[n] + Len(lines[n])
    BY <1>1, <2>1, Places
  <2>5. PICK a \in Nat : a = start[n]
    BY <2>3
  <2>6. ~(a + Len(lines[n]) <= 0)
    BY <2>1, <2>4, <2>5
  <2> QED
    BY <2>4, <2>5, <2>6
<1>4. InCommand(start)
  BY <1>1, <1>2, <1>3 DEF InCommand
<1>5. ReadOnes(start) = {}
  BY <1>1, <1>3 DEF ReadOnes
<1>6. ASSUME NEW n \in RightOnes PROVE ~(Rank(n) <= 0)
  <2>1. {k \in RightOnes : k <= n} \in SUBSET RightOnes /\ IsFiniteSet(RightOnes)
    BY <1>2, RankOne
  <2>2. IsFiniteSet({k \in RightOnes : k <= n})
    BY <2>1, FS_Subset
  <2>3. n \in {k \in RightOnes : k <= n}
    BY <1>2, RankOne
  <2>4. Rank(n) # 0 /\ Rank(n) \in Nat
    BY <1>2, <2>2, <2>3, RankOne, FS_EmptySet DEF Rank
  <2> QED
    BY <2>4
<1>7. InTurn(start)
  <2>1. sent \in Seq({Typed(n) : n \in RightOnes}) /\ Len(sent) = 0
    <3>1. PICK S : S = {Typed(n) : n \in RightOnes}
      OBVIOUS
    <3>2. sent \in Seq(S) /\ Len(sent) = 0
      BY <1>2, EmptySeq
    <3> QED
      BY <3>1, <3>2
  <2>2. Cardinality(ReadOnes(start)) = 0
    BY <1>5, FS_EmptySet
  <2> QED
    BY <1>2, <1>6, <2>1, <2>2 DEF InTurn
<1> QED
  BY <1>1, <1>4, <1>7 DEF Follows

\* Every step follows the lines as they were typed.
LEMMA NextFollows ==
  ASSUME IInv, NEW start, Follows(start), [Next]_vars
  PROVE  Follows(start)'
<1>0. InOrder(start) /\ (RightLines => InCommand(start) /\ InTurn(start))
  BY DEF Follows
<1>a. ASSUME rest # <<>>, rest' = Tail(rest), lines' = lines,
             RightLines => InCommand(start)' /\ InTurn(start)'
      PROVE  Follows(start)'
  <2>1. RightLines' = RightLines
    BY <1>a, SameLines
  <2>2. InOrder(start)'
    BY <1>0, <1>a, ReadOn
  <2> QED
    BY <1>a, <2>1, <2>2 DEF Follows
<1>1. CASE Stray
  <2>1. /\ pc = "parse" /\ pc' = "parse" /\ rest # <<>> /\ rest' = Tail(rest) /\ stack' = stack
        /\ Head(rest).kind = "stray" /\ lines' = lines /\ sent' = sent
    BY <1>1 DEF Stray
  <2>2. ASSUME RightLines PROVE InCommand(start)' /\ InTurn(start)'
    <3>1. PICK n, i : Ahead(start, n, i)
      BY <1>0, <2>1, <2>2, TokenAhead
    <3>2. n \notin RightOnes /\ stack = <<>>
      BY <1>0, <2>1, <3>1, Taken
    <3> QED
      BY <1>0, <2>1, <2>2, <3>1, <3>2, PassBy
  <2> QED
    BY <1>a, <2>1, <2>2
<1>2. CASE Shift
  <2>1. /\ pc = "parse" /\ pc' = "parse" /\ rest # <<>> /\ rest' = Tail(rest)
        /\ stack' = Append(stack, Head(rest)) /\ lines' = lines /\ sent' = sent
        /\ TRUE = Shifts(Kinds(Append(stack, Head(rest))))
        /\ FALSE = Complete(Kinds(Append(stack, Head(rest))))
    BY <1>2, Zenon DEF Shift, Token, Unread
  <2>2. ASSUME RightLines PROVE InCommand(start)' /\ InTurn(start)'
    <3>1. PICK n, i : Ahead(start, n, i)
      BY <1>0, <2>1, <2>2, TokenAhead
    <3>2. n \in RightOnes /\ i # Len(lines[n])
      BY <1>0, <2>1, <3>1, Taken, Zenon
    <3> QED
      BY <1>0, <2>1, <2>2, <3>1, <3>2, GoOn
  <2> QED
    BY <1>a, <2>1, <2>2
<1>3. CASE Accept
  <2>1. /\ pc = "parse" /\ pc' = "build" /\ rest # <<>> /\ rest' = Tail(rest)
        /\ stack' = <<>> /\ q' = Append(stack, Head(rest)) /\ lines' = lines /\ sent' = sent
        /\ TRUE = Shifts(Kinds(Append(stack, Head(rest))))
        /\ TRUE = Complete(Kinds(Append(stack, Head(rest))))
    BY <1>3, Zenon DEF Accept, Token, Unread
  <2>2. ASSUME RightLines PROVE InCommand(start)' /\ InTurn(start)'
    <3>1. PICK n, i : Ahead(start, n, i)
      BY <1>0, <2>1, <2>2, TokenAhead
    <3>2. n \in RightOnes /\ i = Len(lines[n])
      BY <1>0, <2>1, <3>1, Taken, Zenon
    <3> QED
      BY <1>0, <2>1, <2>2, <3>1, <3>2, Finish
  <2> QED
    BY <1>a, <2>1, <2>2
<1>4. CASE Reject
  <2>1. /\ pc = "parse" /\ rest # <<>> /\ rest' = Tail(rest) /\ lines' = lines /\ sent' = sent
        /\ FALSE = Shifts(Kinds(Append(stack, Head(rest))))
        /\ Nothing \/ Refuse
    BY <1>4, Zenon DEF Reject, Token, Unread
  <2>2. ASSUME RightLines PROVE InCommand(start)' /\ InTurn(start)'
    <3>1. PICK n, i : Ahead(start, n, i)
      BY <1>0, <2>1, <2>2, TokenAhead
    <3>2. n \notin RightOnes /\ stack = <<>>
      BY <1>0, <2>1, <3>1, Taken, Zenon
    <3>3. q = <<>>
      BY <2>1 DEF IInv, Kept
    <3>4. pc' = "parse" /\ stack' = <<>>
      BY <2>1, <3>2, <3>3 DEF Nothing, Refuse
    <3> QED
      BY <1>0, <2>1, <2>2, <3>1, <3>2, <3>4, PassBy
  <2> QED
    BY <1>a, <2>1, <2>2
<1>5. CASE End
  <2>1. /\ pc = "parse" /\ rest = <<>> /\ rest' = rest /\ lines' = lines /\ sent' = sent
        /\ Nothing \/ Refuse
    BY <1>5 DEF End
  <2>2. CASE RightLines
    <3>1. stack = <<>>
      BY <1>0, <2>1, <2>2, EndOutside
    <3>2. q = <<>>
      BY <2>1 DEF IInv, Kept
    <3>3. pc' = "parse" /\ stack' = stack
      BY <2>1, <3>1, <3>2 DEF Nothing, Refuse
    <3> QED
      BY <2>1, <3>3, Stand
  <2>3. CASE ~RightLines
    <3>1. RightLines' = RightLines /\ Lens' = Lens
      BY <2>1, SameLines
    <3>2. InOrder(start)'
      BY <1>0, <2>1, <3>1 DEF InOrder, Tokens, At, Passed
    <3> QED
      BY <2>3, <3>1, <3>2 DEF Follows
  <2> QED
    BY <2>2, <2>3
<1>6. CASE Build
  <2>1. stack = <<>>
    BY <1>6 DEF Build, IInv
  <2> QED
    BY <1>6, <2>1, SendsNext
<1>7. CASE Respond
  BY <1>7, Stand DEF Respond
<1>8. CASE UNCHANGED vars
  <2>1. CASE pc = "build"
    <3>1. Lens' = Lens /\ RightOnes' = RightOnes /\ RightLines' = RightLines
          /\ \A n, k : Begun(n, k)' = Begun(n, k)
          /\ \A m : Typed(m)' = Typed(m)
          /\ lines' = lines /\ rest' = rest /\ stack' = stack /\ sent' = sent /\ pc' = pc /\ q' = q
      BY <1>8, SameLines DEF vars
    <3>2. Passed(start)' = Passed(start)
      BY <3>1 DEF Passed
    <3>3. InOrder(start)'
      BY <1>0, <3>1, <3>2 DEF InOrder, Tokens, At
    <3>4. ASSUME RightLines PROVE InCommand(start)' /\ InTurn(start)'
      <4>1. InCommand(start)'
        BY <1>0, <3>1, <3>2, <3>4 DEF InCommand
      <4>2. ReadOnes(start)' = ReadOnes(start)
        BY <3>1, <3>2 DEF ReadOnes
      <4> QED
        BY <1>0, <3>1, <3>4, <4>1, <4>2, InTurnStays
    <3> QED
      BY <3>1, <3>3, <3>4 DEF Follows
  <2>2. CASE pc # "build"
    BY <1>8, <2>2, Stand DEF vars
  <2> QED
    BY <2>1, <2>2
<1> QED
  BY <1>1, <1>2, <1>3, <1>4, <1>5, <1>6, <1>7, <1>8 DEF Next

\* A command is read when nothing of it is left.
LEMMA ReadIsGone ==
  ASSUME NEW start, InOrder(start), NEW n \in RightOnes
  PROVE  start[n + 1] <= Passed(start) <=> \A t \in ToSet(rest) : t.line # n
<1>0. lines \in Seq(Seq(STRING)) /\ rest \in Seq(Tokens)
  BY DEF InOrder
<1>1. n \in 1 .. Len(lines) /\ Len(lines[n]) \in Nat /\ Len(lines[n]) > 4
  BY <1>0, RightShape
<1>2. PICK N \in Nat : N = Len(lines)
  BY Places
<1>3. /\ Lens \in [1 .. N -> Nat] /\ Laid(N, Lens, start)
      /\ \A m \in 1 .. N + 1 : start[m] \in Nat
      /\ \A m \in 1 .. N : Lens[m] = Len(lines[m]) /\ start[m + 1] = start[m] + Lens[m]
      /\ start[n + 1] <= start[N + 1]
      /\ Passed(start) \in Nat /\ Len(rest) \in Nat /\ Passed(start) + Len(rest) = start[N + 1]
  BY <1>1, <1>2, Places
<1>4. PICK p \in Nat : p = Passed(start)
  BY <1>3
<1>5. PICK r \in Nat : r = Len(rest)
  BY <1>3
<1>6. ToSet(rest) = {rest[j] : j \in 1 .. r}
  BY <1>0, <1>5, LenProperties DEF ToSet
<1>7. PICK a \in Nat : a = start[n]
  <2>1. n \in 1 .. N + 1
    BY <1>1, <1>2
  <2>2. start[n] \in Nat
    BY <1>3, <2>1
  <2> QED
    BY <2>2
<1>8. PICK d \in Nat : d = Len(lines[n]) /\ d = Lens[n]
  BY <1>1, <1>2, <1>3
<1>9. start[n + 1] = a + d /\ d > 4 /\ start[N + 1] = p + r /\ a + d <= p + r
  BY <1>1, <1>2, <1>3, <1>4, <1>5, <1>7, <1>8
<1>10. ASSUME ~(a + d <= p) PROVE \E t \in ToSet(rest) : t.line = n
  <2>1. d \in 1 .. Len(lines[n]) /\ a + d > p /\ a + d - p \in 1 .. r
    BY <1>8, <1>9, <1>10
  <2>2. rest[a + d - p] = At(n, d)
    BY <1>1, <1>4, <1>7, <2>1 DEF InOrder
  <2> QED
    BY <1>6, <2>1, <2>2 DEF At
<1>11. ASSUME a + d <= p, NEW t \in ToSet(rest), t.line = n PROVE FALSE
  <2>1. PICK j \in 1 .. r : t = rest[j]
    BY <1>6, <1>11
  <2>2. PICK x \in 1 .. start[N + 1] : x = p + j
    <3>1. p + j \in 1 .. start[N + 1]
      BY <1>9, <2>1
    <3> QED
      BY <3>1
  <2>2a. Lens \in [1 .. N -> Nat] /\ Laid(N, Lens, start)
    BY <1>3
  <2>3. PICK m \in 1 .. N : \E i \in 1 .. Lens[m] : x = start[m] + i
    BY <2>2a, PlaceCovered
  <2>4. PICK i \in 1 .. Lens[m] : p + j = start[m] + i
    BY <2>2, <2>3
  <2>5. m \in 1 .. Len(lines) /\ i \in 1 .. Len(lines[m])
    BY <1>2, <1>3, <2>4
  <2>6. start[m] + i > p /\ start[m] + i - p = j
    <3>1. start[m] \in Nat /\ Lens[m] \in Nat
      BY <1>3
    <3>2. PICK b \in Nat : b = start[m]
      BY <3>1
    <3>3. i \in Nat /\ j \in 1 .. r /\ p + j = b + i
      BY <2>4, <3>1, <3>2
    <3>4. b + i > p /\ b + i - p = j
      BY <3>3
    <3> QED
      BY <3>2, <3>4
  <2>7. rest[j] = At(m, i)
    BY <1>4, <2>5, <2>6 DEF InOrder
  <2>8. m = n
    BY <1>11, <2>1, <2>7 DEF At
  <2>9. i \in 1 .. d /\ p + j = a + i
    BY <1>7, <1>8, <2>4, <2>8
  <2> QED
    BY <1>11, <2>1, <2>9
<1> QED
  BY <1>4, <1>9, <1>10, <1>11

\* Who follows the lines sends them as they were typed.
LEMMA FollowsSends ==
  ASSUME NEW start, Follows(start)
  PROVE  SessionAsTyped
<1> DEFINE typed == {n \in DOMAIN lines : lines[n] \in Commands}
           done == {n \in typed : \A t \in ToSet(rest) : t.line # n}
<1> SUFFICES ASSUME RightLines
             PROVE  /\ Cardinality(done) = IF pc = "build" THEN Len(sent) + 1 ELSE Len(sent)
                    /\ \A n \in typed :
                         LET k == Cardinality({m \in typed : m <= n}) IN
                         k <= Len(sent) => sent[k] = Typed(n)
  BY DEF SessionAsTyped, RightLines
<1>1. InOrder(start) /\ InTurn(start)
  BY DEF Follows
<1>2. typed = RightOnes
  BY DEF RightOnes
<1>3. done = ReadOnes(start)
  <2>1. \A n \in RightOnes : start[n + 1] <= Passed(start) <=> \A t \in ToSet(rest) : t.line # n
    BY <1>1, ReadIsGone
  <2> QED
    BY <1>2, <2>1 DEF ReadOnes
<1> QED
  BY <1>1, <1>2, <1>3 DEF InTurn, Rank

\* Whatever the lines are, as long as each of them is a command or has no db.:
\* the server is sent the commands that were typed, whole, in their order, and
\* each as soon as its last token is read.
THEOREM SentAsTyped == Spec => []SessionAsTyped
<1> DEFINE Inv == IInv /\ \E start : Follows(start)
<1>1. Init => Inv
  BY InitIInv, InitFollows
<1>2. Inv /\ [Next]_vars => Inv'
  <2> SUFFICES ASSUME Inv, [Next]_vars PROVE Inv'
    OBVIOUS
  <2>1. PICK start : Follows(start)
    OBVIOUS
  <2>2. Follows(start)'
    BY <2>1, NextFollows
  <2>3. IInv'
    BY NextIInv
  <2> QED
    BY <2>2, <2>3
<1>3. Inv => SessionAsTyped
  BY FollowsSends
<1> QED
  BY <1>1, <1>2, <1>3, PTL DEF Spec

-----------------------------------------------------------------------------

\* What the values of a function with ranked arguments follow from: step[x]
\* makes the value at x of the values at arguments of a lower rank.
Local(D, S, rank, step) ==
  \A x \in D : \A f, g \in [D -> S] :
    (\A y \in D : rank[y] < rank[x] => f[y] = g[y]) => step[x][f] = step[x][g]

Solves(f, D, S, step) == f \in [D -> S] /\ \A x \in D : f[x] = step[x][f]

\* There is a function that is made so.
LEMMA Recursion ==
  ASSUME NEW N \in Nat, NEW D, NEW rank \in [D -> 0 .. N], NEW S, NEW s \in S,
         NEW step \in [D -> [[D -> S] -> S]], Local(D, S, rank, step)
  PROVE  \E f : Solves(f, D, S, step)
<1> DEFINE Good(n, f) == f \in [D -> S] /\ \A x \in D : rank[x] <= n => f[x] = step[x][f]
           T == {n \in 0 .. N : \E f : Good(n, f)}
<1>1. 0 \in T
  <2> DEFINE c == [x \in D |-> s]
             f == [x \in D |-> step[x][c]]
  <2>1. c \in [D -> S]
    OBVIOUS
  <2>2. f \in [D -> S] /\ \A x \in D : f[x] = step[x][c]
    BY <2>1
  <2> HIDE DEF f, c
  <2>3. ASSUME NEW x \in D, rank[x] <= 0 PROVE f[x] = step[x][f]
    <3>1. \A y \in D : rank[y] < rank[x] => c[y] = f[y]
      BY <2>3
    <3>2. step[x][c] = step[x][f]
      BY <2>1, <2>2, <3>1 DEF Local
    <3> QED
      BY <2>2, <3>2
  <2>4. Good(0, f)
    BY <2>2, <2>3
  <2> QED
    BY <2>4
<1>2. ASSUME NEW n \in 0 .. N - 1, n \in T PROVE n + 1 \in T
  <2>1. PICK f : Good(n, f)
    BY <1>2
  <2> DEFINE g == [x \in D |-> step[x][f]]
  <2>2. g \in [D -> S] /\ \A x \in D : g[x] = step[x][f]
    BY <2>1
  <2> HIDE DEF g
  <2>3. ASSUME NEW x \in D, rank[x] <= n + 1 PROVE g[x] = step[x][g]
    <3>1. ASSUME NEW y \in D, rank[y] < rank[x] PROVE f[y] = g[y]
      <4>1. rank[y] <= n
        BY <2>3, <3>1
      <4> QED
        BY <2>1, <2>2, <4>1
    <3>2. step[x][f] = step[x][g]
      BY <2>1, <2>2, <3>1 DEF Local
    <3> QED
      BY <2>2, <3>2
  <2>4. Good(n + 1, g)
    BY <2>2, <2>3
  <2>5. n + 1 \in 0 .. N
    OBVIOUS
  <2> HIDE DEF Good
  <2> QED
    BY <2>4, <2>5
<1> HIDE DEF T
<1>3. \A n \in 0 .. N : n \in T
  BY <1>1, <1>2, UpTo
<1>4. N \in T
  BY <1>3
<1>5. PICK f : Good(N, f)
  BY <1>4 DEF T
<1>6. \A x \in D : rank[x] <= N
  OBVIOUS
<1> QED
  BY <1>5, <1>6 DEF Solves

-----------------------------------------------------------------------------
(* The list on the wire.                                                   *)

\* Every pair is of two filters made before it.
Ordered(filters) ==
  \E N \in Nat :
    /\ DOMAIN filters = 1 .. N
    /\ \A k \in 1 .. N : filters[k].left # 0 => filters[k].left \in 1 .. k - 1 /\ filters[k].right \in 1 .. k - 1

\* What can be on the wire.
Puts(filters) ==
  {Put(filters[k], left, right) : k \in DOMAIN filters, left \in Nat, right \in Nat}

\* What node k becomes, of what the filters below it become.
Placed(filters, wire, k, size) ==
  LET n == filters[k] IN
  IF n.left = 0 THEN <<Put(n, 0, 0)>>
  ELSE LET l == wire[n.left][size + 1]
           r == wire[n.right][size + Len(l) + 1]
       IN <<Put(n, size, size + Len(l))>> \o l \o r

Below(filters, wire, k) == [size \in Nat |-> Placed(filters, wire, k, size)]

\* What is written for a node is a sequence of conditions when that for the
\* nodes below it is.
LEMMA BelowTyped ==
  ASSUME NEW filters, NEW wire, NEW k \in DOMAIN filters,
         filters[k].left # 0 => /\ wire[filters[k].left] \in [Nat -> Seq(Puts(filters))]
                              /\ wire[filters[k].right] \in [Nat -> Seq(Puts(filters))]
  PROVE  Below(filters, wire, k) \in [Nat -> Seq(Puts(filters))]
<1> SUFFICES ASSUME NEW size \in Nat PROVE Placed(filters, wire, k, size) \in Seq(Puts(filters))
  BY DEF Below
<1>1. CASE filters[k].left = 0
  <2>1. \A left, right \in Nat : Put(filters[k], left, right) \in Puts(filters)
    BY DEF Puts
  <2>2. Put(filters[k], 0, 0) \in Puts(filters)
    BY <2>1
  <2> QED
    BY <1>1, <2>2 DEF Placed
<1>2. CASE filters[k].left # 0
  <2>1. PICK l : l = wire[filters[k].left][size + 1]
    OBVIOUS
  <2>2. l \in Seq(Puts(filters)) /\ Len(l) \in Nat
    <3>1. PICK a \in Nat : a = size + 1
      OBVIOUS
    <3>2. l \in Seq(Puts(filters))
      BY <1>2, <2>1, <3>1
    <3> QED
      BY <3>2, LenProperties
  <2>3. PICK r : r = wire[filters[k].right][size + Len(l) + 1]
    OBVIOUS
  <2>4. r \in Seq(Puts(filters))
    <3>1. PICK a \in Nat : a = size + Len(l) + 1
      BY <2>2
    <3> QED
      BY <1>2, <2>3, <3>1
  <2>5. Put(filters[k], size, size + Len(l)) \in Puts(filters)
    BY <2>2 DEF Puts
  <2>6. PICK p : p = Put(filters[k], size, size + Len(l))
    OBVIOUS
  <2>7. <<p>> \in Seq(Puts(filters))
    BY <2>5, <2>6
  <2>8. <<p>> \o l \in Seq(Puts(filters))
    BY <2>2, <2>7, ConcatProperties
  <2>9. <<p>> \o l \o r \in Seq(Puts(filters))
    BY <2>4, <2>8, ConcatProperties
  <2> QED
    BY <1>2, <2>1, <2>3, <2>6, <2>9 DEF Placed
<1> QED
  BY <1>1, <1>2

IsWire(wire, filters) ==
  \A k \in DOMAIN filters :
    wire[k] \in [Nat -> Seq(Puts(filters))] /\ wire[k] = Below(filters, wire, k)

\* The function in the definition of Write is one.
LEMMA WriteIsWire ==
  ASSUME NEW filters, Ordered(filters), NEW top \in DOMAIN filters
  PROVE  \E wire : IsWire(wire, filters) /\ Write(filters, top) = wire[top][1]
<1>1. PICK N \in Nat :
        /\ DOMAIN filters = 1 .. N
        /\ \A k \in 1 .. N : filters[k].left # 0 =>
             filters[k].left \in 1 .. k - 1 /\ filters[k].right \in 1 .. k - 1
  BY DEF Ordered
<1> DEFINE D == 1 .. N
           S == [Nat -> Seq(Puts(filters))]
           rank == [k \in D |-> k]
           step == [k \in D |-> [f \in [D -> S] |-> Below(filters, f, k)]]
           wire[k \in DOMAIN filters] == [size \in Nat |->
             LET n == filters[k] IN
             IF n.left = 0 THEN <<Put(n, 0, 0)>>
             ELSE LET l == wire[n.left][size + 1]
                      r == wire[n.right][size + Len(l) + 1]
                  IN <<Put(n, size, size + Len(l))>> \o l \o r]
<1>2. Write(filters, top) = wire[top][1]
  BY DEF Write
<1>3. \A k \in D : filters[k].left # 0 =>
        /\ filters[k].left \in D /\ filters[k].left < k
        /\ filters[k].right \in D /\ filters[k].right < k
  BY <1>1
<1>4. \A f \in [D -> S] : \A k \in D : Below(filters, f, k) \in S
  <2> HIDE DEF D
  <2> SUFFICES ASSUME NEW f \in [D -> S], NEW k \in D PROVE Below(filters, f, k) \in S
    OBVIOUS
  <2>1. filters[k].left # 0 => f[filters[k].left] \in S /\ f[filters[k].right] \in S
    BY <1>3
  <2>2. k \in DOMAIN filters
    BY <1>1 DEF D
  <2> QED
    BY <2>1, <2>2, BelowTyped
<1>5. step \in [D -> [[D -> S] -> S]] /\ \A k \in D : \A f \in [D -> S] : step[k][f] = Below(filters, f, k)
  BY <1>4
<1>6. rank \in [D -> 0 .. N] /\ \A k \in D : rank[k] = k
  OBVIOUS
<1>7. \E s : s \in S
  <2>1. [size \in Nat |-> <<>>] \in S
    OBVIOUS
  <2> QED
    BY <2>1
<1> HIDE DEF S, step, rank
<1>8. Local(D, S, rank, step)
  <2> HIDE DEF D
  <2>1. ASSUME NEW k \in D, NEW f \in [D -> S], NEW g \in [D -> S],
               \A j \in D : rank[j] < rank[k] => f[j] = g[j]
        PROVE  step[k][f] = step[k][g]
    <3>1. filters[k].left # 0 => f[filters[k].left] = g[filters[k].left] /\ f[filters[k].right] = g[filters[k].right]
      BY <1>3, <1>6, <2>1
    <3>2. Below(filters, f, k) = Below(filters, g, k)
      BY <3>1 DEF Below, Placed
    <3> QED
      BY <1>5, <3>2
  <2> QED
    BY <2>1, Zenon DEF Local
<1>9. PICK h : Solves(h, D, S, step)
  <2> HIDE DEF D
  <2> QED
    BY <1>5, <1>6, <1>7, <1>8, Recursion
<1>10. h = [k \in DOMAIN filters |-> Below(filters, h, k)]
  BY <1>1, <1>5, <1>9 DEF Solves
<1>11. \E w : w = [k \in DOMAIN filters |-> Below(filters, w, k)]
  BY <1>10, Zenon
<1>12. wire = [k \in DOMAIN filters |-> Below(filters, wire, k)]
  <2>1. wire = CHOOSE w : w = [k \in DOMAIN filters |-> Below(filters, w, k)]
    BY Zenon DEF Below, Placed
  <2> HIDE DEF wire
  <2> QED
    BY <1>11, <2>1, Zenon
<1> HIDE DEF wire
<1>13. \A k \in D : wire[k] = Below(filters, wire, k)
  BY <1>1, <1>12, Zenon
<1>14. \A k \in D : wire[k] \in S
  <2> DEFINE T == {n \in 0 .. N : \A k \in D : k <= n => wire[k] \in S}
  <2>1. 0 \in T
    OBVIOUS
  <2>2. ASSUME NEW n \in 0 .. N - 1, n \in T PROVE n + 1 \in T
    <3>1. ASSUME NEW k \in D, k <= n + 1 PROVE wire[k] \in S
      <4>1. filters[k].left # 0 => wire[filters[k].left] \in S /\ wire[filters[k].right] \in S
        BY <1>3, <2>2, <3>1
      <4>2. k \in DOMAIN filters
        BY <1>1
      <4>3. Below(filters, wire, k) \in S
        BY <4>1, <4>2, BelowTyped DEF S
      <4> QED
        BY <1>13, <4>3
    <3> QED
      BY <3>1
  <2> HIDE DEF T
  <2>3. \A n \in 0 .. N : n \in T
    BY <2>1, <2>2, UpTo
  <2> SUFFICES ASSUME NEW k \in D PROVE wire[k] \in S
    OBVIOUS
  <2>4. k \in T
    BY <2>3
  <2> QED
    BY <2>4 DEF T
<1> QED
  BY <1>1, <1>2, <1>13, <1>14 DEF IsWire, S

\* What is placed at position size, counted from 1, and behind it: every
\* condition but the first is named once, by one before it.
Names(s, i, p) == s[i].left # 0 /\ p \in {s[i].left, s[i].right}

Block(s, size) ==
  /\ \A i \in 1 .. Len(s) :
       IF s[i].left = 0 THEN s[i].right = 0
       ELSE /\ s[i].left \in size + i - 1 .. size + Len(s) - 2
            /\ s[i].right \in size + i - 1 .. size + Len(s) - 2
            /\ s[i].left # s[i].right
  /\ \A p \in size .. size + Len(s) - 2 : \E i \in 1 .. Len(s) : Names(s, i, p)
  /\ \A i, j \in 1 .. Len(s) : \A p \in size .. size + Len(s) - 2 :
       Names(s, i, p) /\ Names(s, j, p) => i = j

\* s is c, then l, then r.
Parts(s, c, l, r) ==
  /\ Len(s) = 1 + Len(l) + Len(r)
  /\ s[1] = c
  /\ \A i \in 1 .. Len(l) : s[i + 1] = l[i]
  /\ \A i \in 1 .. Len(r) : s[i + 1 + Len(l)] = r[i]

\* The elements of a concatenation are those of its parts.
LEMMA ThreeParts ==
  ASSUME NEW C, NEW c \in C, NEW l \in Seq(C), NEW r \in Seq(C)
  PROVE  <<c>> \o l \o r \in Seq(C) /\ Parts(<<c>> \o l \o r, c, l, r)
<1> DEFINE s == <<c>> \o l \o r
<1>1. PICK a \in Nat : a = Len(l)
  BY LenProperties
<1>2. PICK b \in Nat : b = Len(r)
  BY LenProperties
<1>3. /\ Len(s) = 1 + a + b
      /\ s[1] = c
      /\ \A i \in 1 .. a : s[i + 1] = l[i]
      /\ \A i \in 1 .. b : s[i + 1 + a] = r[i]
      /\ s \in Seq(C)
  <2>1. PICK t : t = <<c>>
    OBVIOUS
  <2>2. t \in Seq(C) /\ Len(t) = 1 /\ t[1] = c
    BY <2>1
  <2>3. PICK u : u = t \o l
    OBVIOUS
  <2>4. /\ u \in Seq(C) /\ Len(u) = 1 + a
        /\ \A i \in 1 .. 1 + a : u[i] = IF i <= 1 THEN t[i] ELSE l[i - 1]
    <3>1. /\ t \o l \in Seq(C) /\ Len(t \o l) = Len(t) + Len(l)
          /\ \A i \in 1 .. Len(t) + Len(l) : (t \o l)[i] = IF i <= Len(t) THEN t[i] ELSE l[i - Len(t)]
      BY <2>2, ConcatProperties
    <3> QED
      BY <1>1, <2>2, <2>3, <3>1
  <2>5. /\ u \o r \in Seq(C) /\ Len(u \o r) = 1 + a + b
        /\ \A i \in 1 .. 1 + a + b : (u \o r)[i] = IF i <= 1 + a THEN u[i] ELSE r[i - (1 + a)]
    <3>1. /\ u \o r \in Seq(C) /\ Len(u \o r) = Len(u) + Len(r)
          /\ \A i \in 1 .. Len(u) + Len(r) : (u \o r)[i] = IF i <= Len(u) THEN u[i] ELSE r[i - Len(u)]
      BY <2>4, ConcatProperties
    <3> QED
      BY <1>2, <2>4, <3>1
  <2>6. s = u \o r
    BY <2>1, <2>3
  <2> HIDE DEF s
  <2>7. s[1] = c
    BY <1>1, <1>2, <2>2, <2>4, <2>5, <2>6
  <2>8. ASSUME NEW i \in 1 .. a PROVE s[i + 1] = l[i]
    <3>1. PICK j \in 1 .. 1 + a : j = i + 1 /\ j - 1 = i /\ j \in 1 .. 1 + a + b /\ ~(j <= 1)
      BY <1>1, <1>2
    <3>2. s[j] = u[j] /\ u[j] = l[j - 1]
      BY <2>4, <2>5, <2>6, <3>1
    <3> QED
      BY <3>1, <3>2
  <2>9. ASSUME NEW i \in 1 .. b PROVE s[i + 1 + a] = r[i]
    <3>1. PICK j \in 1 .. 1 + a + b : j = i + 1 + a /\ j - (1 + a) = i /\ ~(j <= 1 + a)
      <4>1. i + 1 + a \in 1 .. 1 + a + b /\ (i + 1 + a) - (1 + a) = i /\ ~(i + 1 + a <= 1 + a)
        OBVIOUS
      <4> QED
        BY <4>1
    <3>2. s[j] = r[j - (1 + a)]
      BY <2>5, <2>6, <3>1
    <3> QED
      BY <3>1, <3>2
  <2> QED
    BY <2>5, <2>6, <2>7, <2>8, <2>9
<1> HIDE DEF s
<1>4. Parts(s, c, l, r)
  BY <1>1, <1>2, <1>3 DEF Parts
<1> QED
  BY <1>3, <1>4 DEF s

\* A pair with what is placed for its operands.
LEMMA BlockOfTwo ==
  ASSUME NEW C, NEW l \in Seq(C), NEW r \in Seq(C), NEW c \in C, NEW size \in Nat \ {0},
         l # <<>>, r # <<>>, c.left = size, c.right = size + Len(l),
         Block(l, size + 1), Block(r, size + Len(l) + 1)
  PROVE  Block(<<c>> \o l \o r, size)
<1> DEFINE s == <<c>> \o l \o r
<1>1. PICK a \in Nat : a = Len(l) /\ a # 0
  BY LenProperties, EmptySeq
<1>2. PICK b \in Nat : b = Len(r) /\ b # 0
  BY LenProperties, EmptySeq
<1>3. /\ Len(s) = 1 + a + b
      /\ s[1] = c
      /\ \A i \in 1 .. a : s[i + 1] = l[i]
      /\ \A i \in 1 .. b : s[i + 1 + a] = r[i]
  BY <1>1, <1>2, ThreeParts DEF Parts
<1> HIDE DEF s
<1>4. PICK n \in Nat : n = Len(s) /\ n = 1 + a + b
  BY <1>3
<1>5. \A i \in 1 .. n : \/ i = 1
                        \/ \E j \in 1 .. a : i = j + 1
                        \/ \E j \in 1 .. b : i = j + 1 + a
  <2> SUFFICES ASSUME NEW i \in 1 .. n, i # 1, ~\E j \in 1 .. a : i = j + 1
               PROVE  \E j \in 1 .. b : i = j + 1 + a
    OBVIOUS
  <2>1. i - 1 \in Nat /\ i - 1 \notin 1 .. a
    OBVIOUS
  <2>2. i - (1 + a) \in 1 .. b
    BY <1>4, <2>1
  <2> QED
    BY <2>2
<1>6. /\ \A i \in 1 .. a : \/ l[i].left = 0 /\ l[i].right = 0
                           \/ /\ l[i].left \in size + i .. size + a - 1
                              /\ l[i].right \in size + i .. size + a - 1
                              /\ l[i].left # l[i].right
      /\ \A p \in size + 1 .. size + a - 1 : \E i \in 1 .. a : Names(l, i, p)
      /\ \A i, j \in 1 .. a : \A p \in size + 1 .. size + a - 1 :
            Names(l, i, p) /\ Names(l, j, p) => i = j
  <2>1. \A i \in 1 .. a : (size + 1) + i - 1 = size + i
    OBVIOUS
  <2>2. size + 1 + a - 2 = size + a - 1
    OBVIOUS
  <2> QED
    BY <1>1, <2>1, <2>2 DEF Block
<1>7. /\ \A i \in 1 .. b : \/ r[i].left = 0 /\ r[i].right = 0
                           \/ /\ r[i].left \in size + a + i .. size + a + b - 1
                              /\ r[i].right \in size + a + i .. size + a + b - 1
                              /\ r[i].left # r[i].right
      /\ \A p \in size + a + 1 .. size + a + b - 1 : \E i \in 1 .. b : Names(r, i, p)
      /\ \A i, j \in 1 .. b : \A p \in size + a + 1 .. size + a + b - 1 :
            Names(r, i, p) /\ Names(r, j, p) => i = j
  <2>1. \A i \in 1 .. b : (size + a + 1) + i - 1 = size + a + i
    OBVIOUS
  <2>2. size + a + 1 + b - 2 = size + a + b - 1
    OBVIOUS
  <2>3. Block(r, size + a + 1)
    BY <1>1
  <2>4. PICK z \in Nat : z = size + a + 1
    OBVIOUS
  <2>5. Block(r, z) /\ z + b - 2 = size + a + b - 1 /\ \A i \in 1 .. b : z + i - 1 = size + a + i
    BY <2>1, <2>2, <2>3, <2>4
  <2>6. /\ \A i \in 1 .. b : \/ r[i].left = 0 /\ r[i].right = 0
                             \/ /\ r[i].left \in z + i - 1 .. z + b - 2
                                /\ r[i].right \in z + i - 1 .. z + b - 2
                                /\ r[i].left # r[i].right
        /\ \A p \in z .. z + b - 2 : \E i \in 1 .. b : Names(r, i, p)
        /\ \A i, j \in 1 .. b : \A p \in z .. z + b - 2 : Names(r, i, p) /\ Names(r, j, p) => i = j
    BY <1>2, <2>5, Zenon DEF Block
  <2> HIDE DEF Names
  <2> QED
    BY <2>4, <2>5, <2>6
<1>8. size + n - 2 = size + a + b - 1
  BY <1>4
<1>9. /\ \A i \in 1 .. a : \A p : Names(s, i + 1, p) <=> Names(l, i, p)
      /\ \A i \in 1 .. b : \A p : Names(s, i + 1 + a, p) <=> Names(r, i, p)
      /\ \A p : Names(s, 1, p) <=> p \in {size, size + a}
  BY <1>1, <1>3 DEF Names
<1>10. /\ \A i \in 1 .. a : \A p : Names(l, i, p) => p \in size + 1 .. size + a - 1
       /\ \A i \in 1 .. b : \A p : Names(r, i, p) => p \in size + a + 1 .. size + a + b - 1
  <2>1. ASSUME NEW i \in 1 .. a, NEW p, Names(l, i, p) PROVE p \in size + 1 .. size + a - 1
    <3>1. /\ l[i].left \in size + i .. size + a - 1
          /\ l[i].right \in size + i .. size + a - 1
      BY <1>6, <2>1 DEF Names
    <3>2. p = l[i].left \/ p = l[i].right
      BY <2>1 DEF Names
    <3>3. \A x \in size + i .. size + a - 1 : x \in size + 1 .. size + a - 1
      OBVIOUS
    <3> QED
      BY <3>1, <3>2, <3>3
  <2>2. ASSUME NEW i \in 1 .. b, NEW p, Names(r, i, p) PROVE p \in size + a + 1 .. size + a + b - 1
    <3>1. /\ r[i].left \in size + a + i .. size + a + b - 1
          /\ r[i].right \in size + a + i .. size + a + b - 1
      BY <1>7, <2>2 DEF Names
    <3>2. p = r[i].left \/ p = r[i].right
      BY <2>2 DEF Names
    <3>3. \A x \in size + a + i .. size + a + b - 1 : x \in size + a + 1 .. size + a + b - 1
      OBVIOUS
    <3> QED
      BY <3>1, <3>2, <3>3
  <2> QED
    BY <2>1, <2>2
<1>11. ASSUME NEW i \in 1 .. n
       PROVE  IF s[i].left = 0 THEN s[i].right = 0
              ELSE /\ s[i].left \in size + i - 1 .. size + a + b - 1
                   /\ s[i].right \in size + i - 1 .. size + a + b - 1
                   /\ s[i].left # s[i].right
  <2>1. CASE i = 1
    BY <1>1, <1>2, <1>3, <2>1
  <2>2. ASSUME NEW j \in 1 .. a, i = j + 1 PROVE <1>11!2
    <3>1. s[i] = l[j]
      BY <1>3, <2>2
    <3>2. CASE l[j].left = 0 /\ l[j].right = 0
      BY <3>1, <3>2
    <3>3. CASE /\ l[j].left \in size + j .. size + a - 1
               /\ l[j].right \in size + j .. size + a - 1
               /\ l[j].left # l[j].right
      <4>1. l[j].left # 0 /\ size + i - 1 = size + j
        BY <2>2, <3>3
      <4>2. \A x \in size + j .. size + a - 1 : x \in size + j .. size + a + b - 1
        OBVIOUS
      <4> QED
        BY <3>1, <3>3, <4>1, <4>2
    <3> QED
      BY <1>6, <3>2, <3>3
  <2>3. ASSUME NEW j \in 1 .. b, i = j + 1 + a PROVE <1>11!2
    <3>1. s[i] = r[j]
      BY <1>3, <2>3
    <3> QED
      BY <1>7, <2>3, <3>1
  <2> QED
    BY <1>5, <2>1, <2>2, <2>3
<1>12. ASSUME NEW p \in size .. size + a + b - 1 PROVE \E i \in 1 .. n : Names(s, i, p)
  <2>1. CASE p \in {size, size + a}
    BY <1>4, <1>9, <2>1
  <2>2. CASE p \in size + 1 .. size + a - 1
    <3>1. PICK i \in 1 .. a : Names(l, i, p)
      BY <1>6, <2>2
    <3>2. i + 1 \in 1 .. n
      BY <1>4
    <3> QED
      BY <1>9, <3>1, <3>2
  <2>3. CASE p \in size + a + 1 .. size + a + b - 1
    <3>1. PICK i \in 1 .. b : Names(r, i, p)
      BY <1>7, <2>3
    <3>2. i + 1 + a \in 1 .. n
      BY <1>4
    <3> QED
      BY <1>9, <3>1, <3>2
  <2> QED
    BY <2>1, <2>2, <2>3
<1>13. ASSUME NEW i \in 1 .. n, NEW j \in 1 .. n, NEW p, Names(s, i, p), Names(s, j, p)
       PROVE  i = j
  <2>1. ASSUME NEW m \in 1 .. n, Names(s, m, p)
        PROVE  \/ m = 1 /\ p \in {size, size + a}
               \/ /\ p \in size + 1 .. size + a - 1
                  /\ \E k \in 1 .. a : m = k + 1 /\ Names(l, k, p)
               \/ /\ p \in size + a + 1 .. size + a + b - 1
                  /\ \E k \in 1 .. b : m = k + 1 + a /\ Names(r, k, p)
    BY <1>5, <1>9, <1>10, <2>1
  <2>2. CASE p \in {size, size + a}
    <3>1. p \notin size + 1 .. size + a - 1 /\ p \notin size + a + 1 .. size + a + b - 1
      BY <1>1, <2>2
    <3> QED
      BY <1>13, <2>1, <3>1
  <2>3. CASE p \in size + 1 .. size + a - 1
    <3>1. p \notin {size, size + a} /\ p \notin size + a + 1 .. size + a + b - 1
      BY <2>3
    <3>2. PICK k \in 1 .. a : i = k + 1 /\ Names(l, k, p)
      BY <1>13, <2>1, <3>1
    <3>3. PICK m \in 1 .. a : j = m + 1 /\ Names(l, m, p)
      BY <1>13, <2>1, <3>1
    <3>4. k = m
      BY <1>6, <2>3, <3>2, <3>3
    <3> QED
      BY <3>2, <3>3, <3>4
  <2>4. CASE p \in size + a + 1 .. size + a + b - 1
    <3>1. p \notin {size, size + a} /\ p \notin size + 1 .. size + a - 1
      BY <2>4
    <3>2. PICK k \in 1 .. b : i = k + 1 + a /\ Names(r, k, p)
      BY <1>13, <2>1, <3>1
    <3>3. PICK m \in 1 .. b : j = m + 1 + a /\ Names(r, m, p)
      BY <1>13, <2>1, <3>1
    <3>4. k = m
      BY <1>7, <2>4, <3>2, <3>3
    <3> QED
      BY <3>2, <3>3, <3>4
  <2> QED
    BY <1>13, <2>1, <2>2, <2>3, <2>4
<1>14. Block(s, size)
  BY <1>4, <1>8, <1>11, <1>12, <1>13 DEF Block
<1> QED
  BY <1>14 DEF s

\* Every list that is placed is a block.
LEMMA WireBlocks ==
  ASSUME NEW filters, Ordered(filters), NEW wire, IsWire(wire, filters)
  PROVE  \A k \in DOMAIN filters : \A size \in Nat \ {0} :
           wire[k][size] # <<>> /\ Block(wire[k][size], size)
<1>1. PICK N \in Nat :
        /\ DOMAIN filters = 1 .. N
        /\ \A k \in 1 .. N : filters[k].left # 0 =>
             filters[k].left \in 1 .. k - 1 /\ filters[k].right \in 1 .. k - 1
  BY DEF Ordered
<1> DEFINE Fine(k) == \A size \in Nat \ {0} : wire[k][size] # <<>> /\ Block(wire[k][size], size)
           T == {n \in 0 .. N : \A k \in 1 .. N : k <= n => Fine(k)}
<1>2. ASSUME NEW k \in 1 .. N, filters[k].left # 0 => Fine(filters[k].left) /\ Fine(filters[k].right),
             NEW size \in Nat \ {0}
      PROVE  wire[k][size] # <<>> /\ Block(wire[k][size], size)
  <2>1. wire[k][size] = Placed(filters, wire, k, size)
    BY <1>1, <1>2 DEF IsWire, Below
  <2>2. \A left, right \in Nat : /\ Put(filters[k], left, right) \in Puts(filters)
                                 /\ Put(filters[k], left, right).left = left
                                 /\ Put(filters[k], left, right).right = right
    <3>1. \A left, right \in Nat : Put(filters[k], left, right) \in Puts(filters)
      BY <1>1 DEF Puts
    <3>2. ASSUME NEW left \in Nat, NEW right \in Nat
          PROVE  Put(filters[k], left, right).left = left /\ Put(filters[k], left, right).right = right
      BY DEF Put
    <3> QED
      BY <3>1, <3>2
  <2>3. CASE filters[k].left = 0
    <3>1. PICK c : c = Put(filters[k], 0, 0)
      OBVIOUS
    <3>2. c.left = 0 /\ c.right = 0
      BY <2>2, <3>1
    <3>3. wire[k][size] = <<c>>
      BY <2>1, <2>3, <3>1 DEF Placed
    <3>4. Len(<<c>>) = 1 /\ <<c>>[1] = c /\ <<c>> # <<>>
      OBVIOUS
    <3>5. Block(<<c>>, size)
      BY <3>2, <3>4 DEF Block, Names
    <3> QED
      BY <3>3, <3>4, <3>5
  <2>4. CASE filters[k].left # 0
    <3>1. PICK a \in Nat \ {0} : a = size + 1
      OBVIOUS
    <3>2. PICK l : l = wire[filters[k].left][a]
      OBVIOUS
    <3>3. filters[k].left \in DOMAIN filters /\ filters[k].right \in DOMAIN filters
      BY <1>1, <2>4
    <3>4. l \in Seq(Puts(filters)) /\ l # <<>> /\ Block(l, a)
      BY <1>2, <2>4, <3>2, <3>3 DEF IsWire
    <3>5. Len(l) \in Nat
      BY <3>4, LenProperties
    <3>6. PICK b \in Nat \ {0} : b = size + Len(l) + 1
      BY <3>5
    <3>7. PICK r : r = wire[filters[k].right][b]
      OBVIOUS
    <3>8. r \in Seq(Puts(filters)) /\ r # <<>> /\ Block(r, b)
      BY <1>2, <2>4, <3>3, <3>7 DEF IsWire
    <3>9. PICK c : c = Put(filters[k], size, size + Len(l))
      OBVIOUS
    <3>10. c \in Puts(filters) /\ c.left = size /\ c.right = size + Len(l)
      <4>1. PICK d \in Nat : d = size + Len(l)
        BY <3>5
      <4> QED
        BY <2>2, <3>9, <4>1
    <3>11. wire[k][size] = <<c>> \o l \o r
      <4>1. wire[filters[k].left][size + 1] = l /\ wire[filters[k].right][size + Len(l) + 1] = r
        BY <3>1, <3>2, <3>6, <3>7
      <4> HIDE DEF Fine, T
      <4> QED
        BY <2>1, <2>4, <3>9, <4>1, Zenon DEF Placed
    <3>12. Block(<<c>> \o l \o r, size)
      BY <3>1, <3>4, <3>6, <3>8, <3>10, BlockOfTwo
    <3>13. <<c>> \o l \o r # <<>>
      <4>1. PICK s : s = <<c>>
        OBVIOUS
      <4>2. s \in Seq(Puts(filters)) /\ s # <<>>
        BY <3>10, <4>1
      <4>3. s \o l \in Seq(Puts(filters)) /\ s \o l # <<>>
        BY <3>4, <4>2, ConcatProperties, ConcatSimplifications!concIsEmpty
      <4>4. (s \o l) \o r # <<>>
        BY <3>8, <4>3, ConcatSimplifications!concIsEmpty
      <4> QED
        BY <4>1, <4>4
    <3> QED
      BY <3>11, <3>12, <3>13
  <2> QED
    BY <2>3, <2>4
<1>3. \A k \in 1 .. N : (filters[k].left # 0 => Fine(filters[k].left) /\ Fine(filters[k].right)) => Fine(k)
  BY <1>2
<1> HIDE DEF Fine
<1>4. 0 \in T
  OBVIOUS
<1>5. ASSUME NEW n \in 0 .. N - 1, n \in T PROVE n + 1 \in T
  <2>1. ASSUME NEW k \in 1 .. N, k <= n + 1 PROVE Fine(k)
    <3>1. ASSUME filters[k].left # 0 PROVE Fine(filters[k].left) /\ Fine(filters[k].right)
      <4>1. PICK a, b \in 1 .. k - 1 : a = filters[k].left /\ b = filters[k].right
        BY <1>1, <3>1
      <4>2. a \in 1 .. N /\ b \in 1 .. N /\ a <= n /\ b <= n
        BY <2>1
      <4> QED
        BY <1>5, <4>1, <4>2
    <3> QED
      BY <1>3, <3>1
  <2> QED
    BY <2>1
<1> HIDE DEF T
<1>6. \A n \in 0 .. N : n \in T
  BY <1>4, <1>5, UpTo
<1> SUFFICES ASSUME NEW k \in 1 .. N PROVE Fine(k)
  BY <1>1 DEF Fine
<1>7. k \in T
  BY <1>6
<1> QED
  BY <1>7 DEF T

-----------------------------------------------------------------------------
(* The filters the parser makes.                                             *)

Ops == {"KEY_VALUE", "COMP", "AND", "OR"}

\* Nodes for the conditions of a command.
FieldsOf(cond) == {NoField} \cup {cond[k].field : k \in DOMAIN cond}

ValuesOf(cond) == {Unset} \cup {Literal(cond[k].value) : k \in DOMAIN cond}

Nodes(cond) == [op : Ops, field : FieldsOf(cond), value : ValuesOf(cond), left : Nat, right : Nat]

Heaps(cond) == [nodes : Seq(Nodes(cond)), tops : Seq(Nat)]

\* g has what h has, and more.
Extends(g, h) ==
  /\ Len(h.nodes) <= Len(g.nodes) /\ Len(h.tops) <= Len(g.tops)
  /\ \A i \in 1 .. Len(h.nodes) : g.nodes[i] = h.nodes[i]
  /\ \A i \in 1 .. Len(h.tops) : g.tops[i] = h.tops[i]

\* Of k conditions a node is made, and the operands of a pair before it.
Heap(cond, k, h) ==
  /\ h \in Heaps(cond)
  /\ Len(h.tops) = k
  /\ \A i \in 1 .. k : h.tops[i] \in 1 .. Len(h.nodes)
  /\ \A n \in 1 .. Len(h.nodes) :
       IF h.nodes[n].left = 0 THEN h.nodes[n].right = 0
       ELSE /\ h.nodes[n].left \in 1 .. n - 1 /\ h.nodes[n].right \in 1 .. n - 1
            /\ h.nodes[n].op \in {"AND", "OR"}

\* A node added at the end keeps the heap.
LEMMA MadeHeap ==
  ASSUME NEW cond, NEW k \in Nat, NEW h, Heap(cond, k, h),
         NEW n \in Nodes(cond), n.left = 0, n.right = 0
  PROVE  /\ Heap(cond, k + 1, Made(h, n)) /\ Extends(Made(h, n), h)
         /\ Made(h, n).nodes[Made(h, n).tops[k + 1]] = n
<1> DEFINE size == Len(h.nodes)
           filters == Append(h.nodes, n)
           tops == Append(h.tops, size + 1)
<1>1. h.nodes \in Seq(Nodes(cond)) /\ h.tops \in Seq(Nat) /\ Len(h.tops) = k
  BY DEF Heap, Heaps
<1>2. PICK m \in Nat : m = size
  BY <1>1, LenProperties
<1>3. /\ filters \in Seq(Nodes(cond)) /\ Len(filters) = m + 1
      /\ (\A i \in 1 .. m : filters[i] = h.nodes[i]) /\ filters[m + 1] = n
  BY <1>1, <1>2, AppendProperties
<1>4. /\ tops \in Seq(Nat) /\ Len(tops) = k + 1
      /\ (\A i \in 1 .. k : tops[i] = h.tops[i]) /\ tops[k + 1] = m + 1
  <2>1. size + 1 \in Nat
    BY <1>2
  <2> HIDE DEF size
  <2> QED
    BY <1>1, <1>2, <2>1, AppendProperties
<1>5. Made(h, n) = [nodes |-> filters, tops |-> tops]
  BY DEF Made
<1> HIDE DEF filters, tops
<1>6. PICK g : g = [nodes |-> filters, tops |-> tops]
  OBVIOUS
<1>7. g.nodes = filters /\ g.tops = tops /\ g \in Heaps(cond)
  BY <1>3, <1>4, <1>6 DEF Heaps
<1>8. \A i \in 1 .. k : h.tops[i] \in 1 .. m
  BY <1>2 DEF Heap
<1>9. \A i \in 1 .. m : IF h.nodes[i].left = 0 THEN h.nodes[i].right = 0
                        ELSE /\ h.nodes[i].left \in 1 .. i - 1 /\ h.nodes[i].right \in 1 .. i - 1
                             /\ h.nodes[i].op \in {"AND", "OR"}
  BY <1>2 DEF Heap
<1>10. ASSUME NEW i \in 1 .. k + 1 PROVE tops[i] \in 1 .. m + 1
  <2>1. CASE i \in 1 .. k
    <3>1. tops[i] \in 1 .. m
      BY <1>4, <1>8, <2>1, Zenon
    <3> QED
      BY <3>1
  <2>2. CASE i = k + 1
    BY <1>4, <2>2
  <2> QED
    BY <2>1, <2>2
<1>11. ASSUME NEW i \in 1 .. m + 1
       PROVE IF filters[i].left = 0 THEN filters[i].right = 0
             ELSE /\ filters[i].left \in 1 .. i - 1 /\ filters[i].right \in 1 .. i - 1
                  /\ filters[i].op \in {"AND", "OR"}
  <2>1. CASE i \in 1 .. m
    BY <1>3, <1>9, <2>1
  <2>2. CASE i = m + 1
    BY <1>3, <2>2
  <2> QED
    BY <2>1, <2>2
<1>12. Heap(cond, k + 1, g)
  BY <1>3, <1>4, <1>7, <1>10, <1>11 DEF Heap
<1>13. Extends(g, h)
  <2>1. /\ Len(h.nodes) = m /\ Len(g.nodes) = m + 1 /\ Len(h.tops) = k /\ Len(g.tops) = k + 1
        /\ m <= m + 1 /\ k <= k + 1
    BY <1>1, <1>2, <1>3, <1>4, <1>7
  <2> QED
    BY <1>3, <1>4, <1>7, <2>1 DEF Extends
<1> QED
  BY <1>3, <1>4, <1>5, <1>6, <1>7, <1>12, <1>13

\* What Filters makes.
Chained(h, g, op, list) ==
  LET n == Len(list)
      size == Len(h.nodes)
  IN /\ Len(g.nodes) = size + n - 1
     /\ \A j \in 1 .. n - 1 :
          g.nodes[size + j] = Pair(op, h.tops[list[n - j]], IF j = 1 THEN h.tops[list[n]] ELSE size + j - 1)
     /\ g.tops[Len(h.tops) + 1] = IF n = 1 THEN h.tops[list[1]] ELSE size + n - 1

\* So do the pairs of a list.
LEMMA FiltersHeap ==
  ASSUME NEW cond, NEW k \in Nat, NEW h, Heap(cond, k, h),
         NEW op \in {"AND", "OR"}, NEW list \in Seq(1 .. k), list # <<>>
  PROVE  /\ Heap(cond, k + 1, Filters(h, op, list))
         /\ Extends(Filters(h, op, list), h)
         /\ Chained(h, Filters(h, op, list), op, list)
<1>1. h.nodes \in Seq(Nodes(cond)) /\ h.tops \in Seq(Nat) /\ Len(h.tops) = k
  BY DEF Heap, Heaps
<1>2. PICK size \in Nat : size = Len(h.nodes)
  BY <1>1, LenProperties
<1>3. PICK n \in Nat : n = Len(list) /\ n # 0 /\ \A i \in 1 .. n : list[i] \in 1 .. k
  BY LenProperties, EmptySeq, ElementOfSeq
<1>4. \A i \in 1 .. k : h.tops[i] \in 1 .. size
  BY <1>2 DEF Heap
<1>5. \A i \in 1 .. n : h.tops[list[i]] \in 1 .. size
  BY <1>3, <1>4
<1> DEFINE right(j) == IF j = 1 THEN h.tops[list[n]] ELSE size + j - 1
           pairs == [j \in 1 .. n - 1 |-> Pair(op, h.tops[list[n - j]], right(j))]
           filters == h.nodes \o pairs
           top == IF n = 1 THEN h.tops[list[1]] ELSE size + n - 1
           tops == Append(h.tops, top)
<1>6. Filters(h, op, list) = [nodes |-> filters, tops |-> tops]
  BY <1>2, <1>3 DEF Filters
<1>7. \A j \in 1 .. n - 1 : right(j) \in 1 .. size + j - 1 /\ h.tops[list[n - j]] \in 1 .. size
  <2> SUFFICES ASSUME NEW j \in 1 .. n - 1 PROVE right(j) \in 1 .. size + j - 1 /\ h.tops[list[n - j]] \in 1 .. size
    OBVIOUS
  <2>1. PICK i \in 1 .. n : i = n - j
    OBVIOUS
  <2>2. h.tops[list[n - j]] \in 1 .. size
    BY <1>5, <2>1
  <2>3. n \in 1 .. n
    BY <1>3
  <2>4. CASE j = 1
    BY <1>5, <2>3, <2>4
  <2>5. CASE j # 1
    BY <2>2, <2>5
  <2> QED
    BY <2>2, <2>4, <2>5
<1> HIDE DEF right
<1>8. \A l, r \in Nat : /\ Pair(op, l, r) \in Nodes(cond)
                        /\ Pair(op, l, r).left = l /\ Pair(op, l, r).right = r /\ Pair(op, l, r).op = op
  <2> SUFFICES ASSUME NEW l \in Nat, NEW r \in Nat
               PROVE  /\ Pair(op, l, r) \in Nodes(cond)
                      /\ Pair(op, l, r).left = l /\ Pair(op, l, r).right = r /\ Pair(op, l, r).op = op
    BY Zenon
  <2>1. PICK f \in FieldsOf(cond) : f = NoField
    BY DEF FieldsOf
  <2>2. PICK v \in ValuesOf(cond) : v = Unset
    BY DEF ValuesOf
  <2>3. Pair(op, l, r) = [op |-> op, field |-> f, value |-> v, left |-> l, right |-> r]
    BY <2>1, <2>2 DEF Pair
  <2>4. op \in Ops
    BY DEF Ops
  <2> QED
    BY <2>3, <2>4 DEF Nodes
<1>9. /\ pairs \in Seq(Nodes(cond)) /\ Len(pairs) = n - 1
      /\ \A j \in 1 .. n - 1 : pairs[j] = Pair(op, h.tops[list[n - j]], right(j))
  <2>1. \A j \in 1 .. n - 1 : Pair(op, h.tops[list[n - j]], right(j)) \in Nodes(cond)
    BY <1>7, <1>8
  <2>2. n - 1 \in Nat
    BY <1>3
  <2> HIDE DEF Pair
  <2>3. pairs \in [1 .. n - 1 -> Nodes(cond)]
    BY <2>1
  <2>4. pairs \in Seq(Nodes(cond))
    BY <2>1, <2>2, IsASeq
  <2>5. DOMAIN pairs = 1 .. Len(pairs) /\ Len(pairs) \in Nat
    BY <2>4, LenProperties
  <2>6. Len(pairs) = n - 1
    BY <2>2, <2>3, <2>5
  <2> QED
    BY <2>4, <2>6
<1> HIDE DEF pairs
<1>10. /\ filters \in Seq(Nodes(cond)) /\ Len(filters) = size + n - 1
       /\ \A i \in 1 .. size : filters[i] = h.nodes[i]
       /\ \A j \in 1 .. n - 1 : filters[size + j] = Pair(op, h.tops[list[n - j]], right(j))
  <2>1. /\ filters \in Seq(Nodes(cond)) /\ Len(filters) = size + (n - 1)
        /\ \A i \in 1 .. size + (n - 1) :
             filters[i] = IF i <= size THEN h.nodes[i] ELSE pairs[i - size]
    <3>1. /\ filters \in Seq(Nodes(cond)) /\ Len(filters) = Len(h.nodes) + Len(pairs)
          /\ \A i \in 1 .. Len(h.nodes) + Len(pairs) :
               filters[i] = IF i <= Len(h.nodes) THEN h.nodes[i] ELSE pairs[i - Len(h.nodes)]
      BY <1>1, <1>9, ConcatProperties
    <3> HIDE DEF filters
    <3> QED
      BY <1>2, <1>9, <3>1
  <2> HIDE DEF filters
  <2>2. \A i \in 1 .. size : i \in 1 .. size + (n - 1) /\ i <= size
    BY <1>3
  <2>3. \A j \in 1 .. n - 1 : /\ size + j \in 1 .. size + (n - 1) /\ ~(size + j <= size)
                              /\ (size + j) - size = j
    OBVIOUS
  <2>4. size + (n - 1) = size + n - 1
    OBVIOUS
  <2>5. \A j \in 1 .. n - 1 : filters[size + j] = pairs[j]
    BY <2>1, <2>3
  <2> QED
    BY <1>9, <2>1, <2>2, <2>4, <2>5
<1> HIDE DEF filters
<1>11. top \in 1 .. size + n - 1
  <2>1. 1 \in 1 .. n
    BY <1>3
  <2>2. h.tops[list[1]] \in 1 .. size
    BY <1>5, <2>1
  <2>3. CASE n = 1
    BY <2>2, <2>3
  <2>4. CASE n # 1
    BY <1>3, <2>4
  <2> QED
    BY <2>3, <2>4
<1>12. /\ tops \in Seq(Nat) /\ Len(tops) = k + 1
       /\ (\A i \in 1 .. k : tops[i] = h.tops[i]) /\ tops[k + 1] = top
  <2>1. top \in Nat
    BY <1>11
  <2>3. PICK t \in Nat : t = top
    BY <2>1, Zenon
  <2>4. tops = Append(h.tops, t)
    BY <2>3
  <2>5. PICK u \in Seq(Nat) : u = h.tops
    BY <1>1
  <2>6. /\ Append(u, t) \in Seq(Nat) /\ Len(Append(u, t)) = Len(u) + 1
        /\ (\A i \in 1 .. Len(u) : Append(u, t)[i] = u[i]) /\ Append(u, t)[Len(u) + 1] = t
    BY AppendProperties
  <2> HIDE DEF top, tops
  <2>2. /\ tops \in Seq(Nat) /\ Len(tops) = Len(h.tops) + 1
        /\ (\A i \in 1 .. Len(h.tops) : tops[i] = h.tops[i]) /\ tops[Len(h.tops) + 1] = top
    BY <2>3, <2>4, <2>5, <2>6
  <2> QED
    BY <1>1, <2>2
<1> HIDE DEF tops
<1>13. PICK g : g = [nodes |-> filters, tops |-> tops]
  OBVIOUS
<1>14. g.nodes = filters /\ g.tops = tops /\ g \in Heaps(cond)
  BY <1>10, <1>12, <1>13 DEF Heaps
<1>15. \A i \in 1 .. size : IF h.nodes[i].left = 0 THEN h.nodes[i].right = 0
                            ELSE /\ h.nodes[i].left \in 1 .. i - 1 /\ h.nodes[i].right \in 1 .. i - 1
                                 /\ h.nodes[i].op \in {"AND", "OR"}
  BY <1>2 DEF Heap
<1>16. ASSUME NEW i \in 1 .. k + 1 PROVE tops[i] \in 1 .. size + n - 1
  <2>1. CASE i \in 1 .. k
    <3>1. tops[i] \in 1 .. size
      BY <1>4, <1>12, <2>1
    <3> QED
      BY <1>3, <3>1
  <2>2. CASE i = k + 1
    BY <1>11, <1>12, <2>2
  <2> QED
    BY <2>1, <2>2
<1>17. ASSUME NEW i \in 1 .. size + n - 1
       PROVE IF filters[i].left = 0 THEN filters[i].right = 0
             ELSE /\ filters[i].left \in 1 .. i - 1 /\ filters[i].right \in 1 .. i - 1
                  /\ filters[i].op \in {"AND", "OR"}
  <2>1. CASE i \in 1 .. size
    BY <1>10, <1>15, <2>1
  <2>2. CASE i \notin 1 .. size
    <3>1. PICK j \in 1 .. n - 1 : i = size + j
      <4>1. i - size \in 1 .. n - 1 /\ i = size + (i - size)
        BY <2>2
      <4> QED
        BY <4>1
    <3>2. PICK l \in 1 .. size : l = h.tops[list[n - j]]
      BY <1>7
    <3>3. PICK r \in 1 .. size + j - 1 : r = right(j)
      BY <1>7
    <3>4. filters[i] = Pair(op, l, r)
      BY <1>10, <3>1, <3>2, <3>3
    <3>5. l \in Nat /\ r \in Nat
      OBVIOUS
    <3>6. filters[i].left = l /\ filters[i].right = r /\ filters[i].op = op
      BY <1>8, <3>4, <3>5
    <3> QED
      BY <3>1, <3>6
  <2> QED
    BY <2>1, <2>2
<1>18. Heap(cond, k + 1, g)
  BY <1>10, <1>12, <1>14, <1>16, <1>17 DEF Heap
<1>19. Extends(g, h)
  BY <1>1, <1>2, <1>3, <1>10, <1>12, <1>14 DEF Extends
<1>20. Chained(h, g, op, list)
  BY <1>1, <1>2, <1>3, <1>10, <1>12, <1>14 DEF Chained, right, top
<1> QED
  BY <1>6, <1>13, <1>18, <1>19, <1>20

\* And the renaming of the node of a list.
LEMMA RenamedHeap ==
  ASSUME NEW cond, NEW k \in Nat \ {0}, NEW h, Heap(cond, k, h), NEW op \in {"AND", "OR"}
  PROVE  /\ Heap(cond, k, Renamed(h, op))
         /\ h.nodes[h.tops[k]].op = op => Renamed(h, op) = h
<1>1. h \in Heaps(cond) /\ h.nodes \in Seq(Nodes(cond)) /\ h.tops \in Seq(Nat) /\ Len(h.tops) = k
  BY DEF Heap, Heaps
<1>2. PICK size \in Nat : size = Len(h.nodes)
  BY <1>1, LenProperties
<1>3. PICK x \in 1 .. size : x = h.tops[k]
  BY <1>2 DEF Heap
<1>4. Last(h.tops) = x
  BY <1>1, <1>3 DEF Last
<1>5. PICK old \in Nodes(cond) : old = h.nodes[x]
  BY <1>1, <1>2, ElementOfSeq
<1> DEFINE node == [old EXCEPT !.op = op]
           filters == [h.nodes EXCEPT ![x] = node]
<1>6. node \in Nodes(cond) /\ node.left = old.left /\ node.right = old.right /\ node.op = op
  BY DEF Nodes, Ops
<1>7. op = old.op => node = old
  <2> SUFFICES ASSUME op = old.op PROVE node = old
    OBVIOUS
  <2> QED
    BY DEF Nodes
<1> HIDE DEF node
<1>8. /\ filters \in Seq(Nodes(cond)) /\ Len(filters) = size
      /\ \A i \in 1 .. size : filters[i] = IF i = x THEN node ELSE h.nodes[i]
  BY <1>1, <1>2, <1>6, ExceptSeq
<1>9. op = old.op => filters = h.nodes
  BY <1>1, <1>2, <1>5, <1>7, <1>8, SeqEqual
<1>10. Renamed(h, op) = [h EXCEPT !.nodes = filters]
  BY <1>4, <1>5 DEF Renamed, node
<1> HIDE DEF filters
<1>11. PICK g : g = [h EXCEPT !.nodes = filters]
  OBVIOUS
<1>12. g \in Heaps(cond) /\ g.nodes = filters /\ g.tops = h.tops
  BY <1>1, <1>8, <1>11 DEF Heaps
<1>13. op = old.op => g = h
  BY <1>1, <1>9, <1>11 DEF Heaps
<1>14. /\ \A i \in 1 .. k : h.tops[i] \in 1 .. size
       /\ \A n \in 1 .. size :
            IF h.nodes[n].left = 0 THEN h.nodes[n].right = 0
            ELSE /\ h.nodes[n].left \in 1 .. n - 1 /\ h.nodes[n].right \in 1 .. n - 1
                 /\ h.nodes[n].op \in {"AND", "OR"}
  BY <1>2 DEF Heap
<1>15. ASSUME NEW n \in 1 .. size
       PROVE IF filters[n].left = 0 THEN filters[n].right = 0
             ELSE /\ filters[n].left \in 1 .. n - 1 /\ filters[n].right \in 1 .. n - 1
                  /\ filters[n].op \in {"AND", "OR"}
  <2>1. CASE n = x
    BY <1>5, <1>6, <1>8, <1>14, <2>1
  <2>2. CASE n # x
    BY <1>8, <1>14, <2>2
  <2> QED
    BY <2>1, <2>2
<1>16. Heap(cond, k, g)
  BY <1>1, <1>8, <1>12, <1>14, <1>15 DEF Heap
<1> QED
  BY <1>3, <1>5, <1>10, <1>11, <1>13, <1>16

\* What is known of a command's conditions.
LEMMA ConditionsAre ==
  ASSUME NEW cond, Conditions(cond)
  PROVE  /\ Len(cond) \in Nat \ {0} /\ DOMAIN cond = 1 .. Len(cond) /\ IsList(cond[Len(cond)])
         /\ cond[Len(cond)].is = "AND"
         /\ \A k \in 1 .. Len(cond) :
              /\ cond[k].is \in {"key", "comp", "AND", "OR"}
              /\ IsList(cond[k]) => cond[k].list \in Seq(1 .. k - 1) /\ cond[k].list # <<>>
              /\ ~IsList(cond[k]) => cond[k].value \in [type : STRING, val : Int]
<1>1. cond \in Seq(ToSet(cond)) /\ cond # <<>>
  BY DEF Conditions
<1>2. Len(cond) \in Nat \ {0} /\ DOMAIN cond = 1 .. Len(cond)
  BY <1>1, LenProperties, EmptySeq
<1>3. cond[Len(cond)].is = "AND" /\ IsList(cond[Len(cond)])
  BY DEF Conditions, IsList
<1>4. \A k \in DOMAIN cond :
        /\ cond[k].is \in {"key", "comp", "AND", "OR"}
        /\ IF IsList(cond[k]) THEN cond[k].list \in Seq(1 .. k - 1) \ {<<>>}
           ELSE cond[k].value \in [type : STRING, val : Int]
  BY DEF Conditions
<1> QED
  BY <1>2, <1>3, <1>4

\* The node of an equality or a comparison is one of those of the command.
LEMMA LeafNode ==
  ASSUME NEW cond, NEW k \in DOMAIN cond, NEW op \in Ops
  PROVE  /\ Leaf(op, cond[k]) \in Nodes(cond)
         /\ Leaf(op, cond[k]).left = 0 /\ Leaf(op, cond[k]).right = 0
<1>1. Literal(cond[k].value) \in ValuesOf(cond) /\ cond[k].field \in FieldsOf(cond)
  BY Zenon DEF ValuesOf, FieldsOf
<1>2. PICK v \in ValuesOf(cond) : v = Literal(cond[k].value)
  BY <1>1
<1>3. PICK f \in FieldsOf(cond) : f = cond[k].field
  BY <1>1
<1>4. Leaf(op, cond[k]) = [op |-> op, field |-> f, value |-> v, left |-> 0, right |-> 0]
  BY <1>2, <1>3 DEF Leaf
<1> QED
  BY <1>4 DEF Nodes

\* Each condition that is read makes its node.
LEMMA FilterHeap ==
  ASSUME NEW cond, Conditions(cond), NEW k \in 1 .. Len(cond), NEW h, Heap(cond, k - 1, h)
  PROVE  Heap(cond, k, Filter(h, cond[k]))
<1>0. k - 1 \in Nat /\ (k - 1) + 1 = k /\ k \in Nat \ {0} /\ k \in DOMAIN cond
  BY ConditionsAre
<1>1. CASE cond[k].is = "key"
  <2>1. Filter(h, cond[k]) = Made(h, Leaf("KEY_VALUE", cond[k]))
    BY <1>1 DEF Filter, IsList
  <2>2. "KEY_VALUE" \in Ops
    BY DEF Ops
  <2>3. PICK n \in Nodes(cond) : n = Leaf("KEY_VALUE", cond[k]) /\ n.left = 0 /\ n.right = 0
    BY <1>0, <2>2, LeafNode
  <2>4. Heap(cond, (k - 1) + 1, Made(h, n))
    BY <1>0, <2>3, MadeHeap
  <2> QED
    BY <1>0, <2>1, <2>3, <2>4
<1>2. CASE cond[k].is = "comp"
  <2>1. Filter(h, cond[k]) = Made(h, Leaf("COMP", cond[k]))
    BY <1>2 DEF Filter, IsList
  <2>2. "COMP" \in Ops
    BY DEF Ops
  <2>3. PICK n \in Nodes(cond) : n = Leaf("COMP", cond[k]) /\ n.left = 0 /\ n.right = 0
    BY <1>0, <2>2, LeafNode
  <2>4. Heap(cond, (k - 1) + 1, Made(h, n))
    BY <1>0, <2>3, MadeHeap
  <2> QED
    BY <1>0, <2>1, <2>3, <2>4
<1>3. CASE IsList(cond[k])
  <2>1. PICK op \in {"AND", "OR"} : op = cond[k].is
    BY <1>3 DEF IsList
  <2>2. cond[k].list \in Seq(1 .. k - 1) /\ cond[k].list # <<>>
    BY <1>3, ConditionsAre
  <2>3. Filter(h, cond[k]) = Renamed(Filters(h, op, cond[k].list), op)
    BY <1>3, <2>1 DEF Filter, IsList
  <2>4. PICK g : g = Filters(h, op, cond[k].list)
    OBVIOUS
  <2>5. Heap(cond, k, g)
    BY <1>0, <2>2, <2>4, FiltersHeap
  <2> QED
    BY <1>0, <2>3, <2>4, <2>5, RenamedHeap
<1> QED
  BY <1>1, <1>2, <1>3, ConditionsAre DEF IsList

\* A chain of N steps through the sets good[0], ..., good[N].
Leads(N, good, step) == \A k \in 1 .. N : \A x \in good[k - 1] : step[k][x] \in good[k]

Passes(f, N, S, good, s, step) ==
  /\ f \in [0 .. N -> S] /\ f[0] = s
  /\ \A k \in 1 .. N : f[k] = step[k][f[k - 1]]
  /\ \A k \in 0 .. N : f[k] \in good[k]

\* Steps that lead from good to good give a sequence of good ones; the sequence
\* is built by induction on its length.
LEMMA Chain ==
  ASSUME NEW N \in Nat, NEW S, NEW good \in [0 .. N -> SUBSET S], NEW s \in good[0],
         NEW step \in [1 .. N -> [S -> S]], Leads(N, good, step)
  PROVE  \E f : Passes(f, N, S, good, s, step)
<1> DEFINE Upto(n, f) == /\ f \in [0 .. N -> S] /\ f[0] = s
                         /\ \A k \in 1 .. n : f[k] = step[k][f[k - 1]]
                         /\ \A k \in 0 .. n : f[k] \in good[k]
           T == {n \in 0 .. N : \E f : Upto(n, f)}
<1>0. 0 \in 0 .. N /\ s \in S
  OBVIOUS
<1>1. 0 \in T
  <2> DEFINE f == [k \in 0 .. N |-> s]
  <2>1. f \in [0 .. N -> S] /\ f[0] = s
    BY <1>0
  <2> HIDE DEF f
  <2>2. Upto(0, f)
    BY <2>1
  <2> QED
    BY <1>0, <2>2
<1>2. ASSUME NEW n \in 0 .. N - 1, n \in T PROVE n + 1 \in T
  <2>1. PICK f : Upto(n, f)
    BY <1>2
  <2>2. PICK m \in 1 .. N : m = n + 1 /\ m - 1 = n /\ m \in 0 .. N /\ n \in 0 .. N
    OBVIOUS
  <2>3. f[n] \in good[n] /\ f[n] \in S
    BY <2>1, <2>2
  <2>4. step[m][f[n]] \in good[m] /\ step[m][f[n]] \in S
    BY <2>2, <2>3 DEF Leads
  <2> DEFINE g == [f EXCEPT ![m] = step[m][f[n]]]
  <2>5. g \in [0 .. N -> S] /\ g[m] = step[m][f[n]] /\ \A k \in 0 .. N : k # m => g[k] = f[k]
    BY <2>1, <2>2, <2>4
  <2> HIDE DEF g
  <2>6. g[0] = s
    BY <1>0, <2>1, <2>2, <2>5
  <2>7. ASSUME NEW k \in 1 .. m PROVE g[k] = step[k][g[k - 1]]
    <3>1. CASE k = m
      BY <2>2, <2>5, <3>1
    <3>2. CASE k # m
      <4>1. k \in 1 .. n /\ k \in 0 .. N /\ k - 1 \in 0 .. N /\ k - 1 # m
        BY <2>2, <3>2
      <4>2. g[k] = f[k] /\ g[k - 1] = f[k - 1] /\ f[k] = step[k][f[k - 1]]
        BY <2>1, <2>5, <3>2, <4>1
      <4> QED
        BY <4>2
    <3> QED
      BY <3>1, <3>2
  <2>8. ASSUME NEW k \in 0 .. m PROVE g[k] \in good[k]
    <3>1. CASE k = m
      BY <2>4, <2>5, <3>1
    <3>2. CASE k # m
      <4>1. k \in 0 .. n /\ k \in 0 .. N
        BY <2>2, <3>2
      <4> QED
        BY <2>1, <2>5, <3>2, <4>1
    <3> QED
      BY <3>1, <3>2
  <2>9. Upto(m, g)
    BY <2>5, <2>6, <2>7, <2>8
  <2> HIDE DEF Upto
  <2> QED
    BY <2>2, <2>9
<1> HIDE DEF T
<1>3. \A n \in 0 .. N : n \in T
  BY <1>1, <1>2, UpTo
<1>4. N \in T
  BY <1>3
<1> QED
  BY <1>4 DEF T, Passes

IsParse(done, cond) ==
  /\ done[0] = [nodes |-> <<>>, tops |-> <<>>]
  /\ \A k \in 1 .. Len(cond) - 1 : done[k] = Filter(done[k - 1], cond[k])
  /\ \A k \in 0 .. Len(cond) - 1 : Heap(cond, k, done[k])

\* The parser's steps as a function of the condition they are done with.
LEMMA ParsedIs ==
  ASSUME NEW cond, Conditions(cond)
  PROVE  \E done : /\ IsParse(done, cond)
                   /\ Parsed(cond) = Filters(done[Len(cond) - 1], "AND", cond[Len(cond)].list)
<1> DEFINE empty == [nodes |-> <<>>, tops |-> <<>>]
           done[k \in 0 .. Len(cond) - 1] == IF k = 0 THEN empty ELSE Filter(done[k - 1], cond[k])
           next(f) == [k \in 0 .. Len(cond) - 1 |-> IF k = 0 THEN empty ELSE Filter(f[k - 1], cond[k])]
<1>1. Parsed(cond) = Filters(done[Len(cond) - 1], "AND", cond[Len(cond)].list)
  BY DEF Parsed
<1>2. done = CHOOSE f : f = next(f)
  BY Zenon
<1> HIDE DEF done
<1>3. PICK N \in Nat : N = Len(cond) - 1 /\ \A k \in 1 .. N : k \in 1 .. Len(cond)
  <2>1. Len(cond) \in Nat \ {0}
    BY ConditionsAre
  <2> QED
    BY <2>1
<1>4. Heap(cond, 0, empty)
  <2>1. PICK s : s = <<>>
    OBVIOUS
  <2>2. s \in Seq(Nodes(cond)) /\ s \in Seq(Nat) /\ Len(s) = 0
    BY <2>1, EmptySeq
  <2>3. PICK h : h = [nodes |-> s, tops |-> s]
    OBVIOUS
  <2>4. h \in Heaps(cond) /\ h.nodes = s /\ h.tops = s
    BY <2>2, <2>3 DEF Heaps
  <2>5. Heap(cond, 0, h)
    BY <2>2, <2>4 DEF Heap
  <2> QED
    BY <2>1, <2>3, <2>5
<1> HIDE DEF empty
<1>5. \A k \in 1 .. N : \A h : Heap(cond, k - 1, h) => Heap(cond, k, Filter(h, cond[k]))
  BY <1>3, FilterHeap
<1> DEFINE S == Heaps(cond)
           good == [k \in 0 .. N |-> {h \in S : Heap(cond, k, h)}]
           step == [k \in 1 .. N |-> [h \in S |-> IF Heap(cond, k - 1, h) THEN Filter(h, cond[k]) ELSE empty]]
<1>6. \A k \in Nat : \A h : Heap(cond, k, h) => h \in S
  BY DEF Heap
<1>7. empty \in S
  BY <1>4, <1>6
<1>8. \A k \in 1 .. N : \A h \in S : (IF Heap(cond, k - 1, h) THEN Filter(h, cond[k]) ELSE empty) \in S
  <2> HIDE DEF S
  <2> SUFFICES ASSUME NEW k \in 1 .. N, NEW h \in S
               PROVE  (IF Heap(cond, k - 1, h) THEN Filter(h, cond[k]) ELSE empty) \in S
    OBVIOUS
  <2>1. CASE Heap(cond, k - 1, h)
    <3>1. Heap(cond, k, Filter(h, cond[k])) /\ k \in Nat
      BY <1>5, <2>1
    <3> QED
      BY <1>6, <2>1, <3>1
  <2>2. CASE ~Heap(cond, k - 1, h)
    BY <1>7, <2>2
  <2> QED
    BY <2>1, <2>2
<1> HIDE DEF S
<1>9. step \in [1 .. N -> [S -> S]]
  BY <1>8
<1>10. /\ good \in [0 .. N -> SUBSET S]
       /\ \A k \in 0 .. N : \A h : h \in good[k] <=> h \in S /\ Heap(cond, k, h)
  OBVIOUS
<1>11. \A k \in 1 .. N : \A h \in S : Heap(cond, k - 1, h) => step[k][h] = Filter(h, cond[k])
  OBVIOUS
<1> HIDE DEF good, step
<1>12. empty \in good[0]
  BY <1>3, <1>4, <1>7, <1>10
<1>13. ASSUME NEW k \in 1 .. N, NEW x \in good[k - 1] PROVE step[k][x] \in good[k]
  <2>1. PICK j \in 0 .. N : j = k - 1 /\ k \in 0 .. N
    OBVIOUS
  <2>2. x \in S /\ Heap(cond, k - 1, x)
    BY <1>10, <2>1
  <2>3. step[k][x] = Filter(x, cond[k]) /\ Heap(cond, k, Filter(x, cond[k]))
    BY <1>5, <1>11, <2>2
  <2>4. k \in Nat
    OBVIOUS
  <2>5. Filter(x, cond[k]) \in S
    BY <1>6, <2>3, <2>4
  <2> QED
    BY <1>10, <2>1, <2>3, <2>5
<1>14. PICK f : Passes(f, N, S, good, empty, step)
  <2>1. good \in [0 .. N -> SUBSET S] /\ N \in Nat
    BY <1>10
  <2>2. Leads(N, good, step)
    BY <1>13 DEF Leads
  <2> QED
    BY <1>9, <1>12, <2>1, <2>2, Chain
<1>15. ASSUME NEW k \in 1 .. N PROVE f[k] = Filter(f[k - 1], cond[k])
  <2>1. PICK j \in 0 .. N : j = k - 1
    OBVIOUS
  <2>2. f[j] \in S /\ Heap(cond, k - 1, f[j])
    BY <1>10, <1>14, <2>1 DEF Passes
  <2> QED
    BY <1>11, <1>14, <2>1, <2>2 DEF Passes
<1>16. f = next(f)
  <2>1. \A k \in 0 .. N : f[k] = IF k = 0 THEN empty ELSE Filter(f[k - 1], cond[k])
    BY <1>14, <1>15 DEF Passes
  <2>2. f = [k \in 0 .. N |-> f[k]]
    BY <1>14 DEF Passes
  <2> QED
    BY <1>3, <2>1, <2>2
<1>17. done = next(done)
  <2> HIDE DEF next
  <2> QED
    BY <1>2, <1>16, Zenon
<1>18. \A k \in 0 .. N : done[k] = IF k = 0 THEN empty ELSE Filter(done[k - 1], cond[k])
  BY <1>3, <1>17
<1> HIDE DEF next
<1>19. done[0] = empty /\ \A k \in 1 .. N : done[k] = Filter(done[k - 1], cond[k])
  BY <1>3, <1>18
<1>20. \A k \in 0 .. N : Heap(cond, k, done[k])
  <2> DEFINE T == {k \in 0 .. N : Heap(cond, k, done[k])}
  <2>1. 0 \in T
    BY <1>3, <1>4, <1>19
  <2>2. ASSUME NEW k \in 0 .. N - 1, k \in T PROVE k + 1 \in T
    <3>1. PICK j \in 1 .. N : j = k + 1 /\ j - 1 = k /\ j \in 0 .. N
      OBVIOUS
    <3>2. Heap(cond, j - 1, done[j - 1])
      BY <2>2, <3>1
    <3>3. Heap(cond, j, done[j])
      BY <1>5, <1>19, <3>2
    <3> QED
      BY <3>1, <3>3
  <2> HIDE DEF T
  <2>3. \A k \in 0 .. N : k \in T
    BY <1>3, <2>1, <2>2, UpTo
  <2> QED
    BY <2>3 DEF T
<1>21. IsParse(done, cond)
  BY <1>3, <1>19, <1>20 DEF IsParse, empty
<1> QED
  BY <1>1, <1>21

\* What the parser builds is a heap.
LEMMA ParsedHeap ==
  ASSUME NEW cond, Conditions(cond)
  PROVE  Heap(cond, Len(cond), Parsed(cond))
<1>1. PICK done : /\ IsParse(done, cond)
                  /\ Parsed(cond) = Filters(done[Len(cond) - 1], "AND", cond[Len(cond)].list)
  BY ParsedIs
<1>2. PICK k \in Nat : k = Len(cond) - 1 /\ k + 1 = Len(cond) /\ k \in 0 .. Len(cond) - 1
  <2>1. Len(cond) \in Nat \ {0}
    BY ConditionsAre
  <2> QED
    BY <2>1
<1>3. cond[Len(cond)].list \in Seq(1 .. k) /\ cond[Len(cond)].list # <<>>
  <2>1. Len(cond) \in 1 .. Len(cond)
    BY <1>2
  <2> QED
    BY <1>2, <2>1, ConditionsAre
<1>4. Heap(cond, k, done[k])
  BY <1>1, <1>2 DEF IsParse
<1> QED
  BY <1>1, <1>2, <1>3, <1>4, FiltersHeap

\* What a parsed condition is on the wire.
LEMMA WriteBlock ==
  ASSUME NEW cond, NEW k \in Nat \ {0}, NEW h, Heap(cond, k, h)
  PROVE  LET w == Write(h.nodes, Last(h.tops)) IN
         w \in Seq(Puts(h.nodes)) /\ w # <<>> /\ Block(w, 1)
<1>1. h.nodes \in Seq(Nodes(cond)) /\ h.tops \in Seq(Nat) /\ Len(h.tops) = k
  BY DEF Heap, Heaps
<1>2. PICK N \in Nat : N = Len(h.nodes) /\ DOMAIN h.nodes = 1 .. N
  BY <1>1, LenProperties
<1>3. Last(h.tops) \in DOMAIN h.nodes
  <2>1. h.tops[k] \in 1 .. N
    BY <1>2 DEF Heap
  <2> QED
    BY <1>1, <1>2, <2>1 DEF Last
<1>4. Ordered(h.nodes)
  <2>1. \A n \in 1 .. N : h.nodes[n].left # 0 =>
          h.nodes[n].left \in 1 .. n - 1 /\ h.nodes[n].right \in 1 .. n - 1
    BY <1>2 DEF Heap
  <2> QED
    BY <1>2, <2>1 DEF Ordered
<1>5. PICK wire : IsWire(wire, h.nodes) /\ Write(h.nodes, Last(h.tops)) = wire[Last(h.tops)][1]
  BY <1>3, <1>4, WriteIsWire
<1>6. 1 \in Nat \ {0}
  OBVIOUS
<1>7. wire[Last(h.tops)][1] # <<>> /\ Block(wire[Last(h.tops)][1], 1)
  BY <1>3, <1>4, <1>5, <1>6, WireBlocks
<1>8. wire[Last(h.tops)][1] \in Seq(Puts(h.nodes))
  BY <1>3, <1>5, <1>6 DEF IsWire
<1> QED
  BY <1>5, <1>7, <1>8

\* What is sent of a condition is a block that starts at the first position.
LEMMA SendBlock ==
  ASSUME NEW t \in Texts, t.verb # "insert"
  PROVE  LET c == Command(t)
             w == Write(c.nodes, c.cond)
         IN w \in Seq(Puts(c.nodes)) /\ Block(w, 1)
<1>1. Conditions(t.cond)
  BY PipelineAssumption
<1>2. PICK h : h = Parsed(t.cond)
  OBVIOUS
<1>3. PICK k \in Nat \ {0} : k = Len(t.cond)
  BY <1>1, ConditionsAre
<1>4. Heap(t.cond, k, h)
  BY <1>1, <1>2, <1>3, ParsedHeap
<1>5. Command(t).nodes = h.nodes /\ Command(t).cond = Last(h.tops)
  BY <1>2 DEF Command
<1> QED
  BY <1>4, <1>5, WriteBlock

\* The list of the conditions on the wire, and what it comes from.
IsTree(w) == w = <<>> \/ (Block(w, 1) /\ \E C : w \in Seq(C))

TreeInv ==
  /\ stage = "parsed" => text \in Texts /\ query = Command(text)
  /\ stage = "sent" => IsTree(request.cond)

\* The initial state satisfies the invariant, and every step keeps it.
LEMMA InitTreeInv == PathInit => TreeInv
  BY DEF PathInit, TreeInv

\* The step that matters is Send.
LEMMA NextTreeInv == TreeInv /\ [PathNext]_pathVars => TreeInv'
<1> SUFFICES ASSUME TreeInv, [PathNext]_pathVars PROVE TreeInv'
  OBVIOUS
<1>1. CASE Parse
  BY <1>1 DEF Parse, TreeInv
<1>2. CASE Send
  <2>1. text \in Texts /\ query = Command(text) /\ request' = Request /\ stage' = "sent"
    BY <1>2 DEF Send, TreeInv
  <2>2. Request.cond = IF query.verb = "insert" THEN <<>> ELSE Write(query.nodes, query.cond)
    BY DEF Request
  <2>3. query.verb = text.verb
    BY <2>1 DEF Command
  <2>4. CASE text.verb = "insert"
    BY <2>1, <2>2, <2>3, <2>4 DEF TreeInv, IsTree
  <2>5. CASE text.verb # "insert"
    <3>1. PICK w : w = Write(query.nodes, query.cond)
      OBVIOUS
    <3>2. w \in Seq(Puts(query.nodes)) /\ Block(w, 1)
      BY <2>1, <2>5, <3>1, SendBlock
    <3>3. IsTree(w)
      BY <3>2 DEF IsTree
    <3> QED
      BY <2>1, <2>2, <2>3, <2>5, <3>1, <3>3 DEF TreeInv
  <2> QED
    BY <2>4, <2>5
<1>3. CASE Receive
  BY <1>3 DEF Receive, TreeInv
<1>4. CASE Answer
  <2>1. stage' = "answered"
    BY <1>4 DEF Answer, AnswerInsert, AnswerFind, AnswerUpdate, AnswerDelete, AnswerNot, AnswerThrow, Call
  <2> QED
    BY <2>1 DEF TreeInv
<1>5. CASE Prompt
  BY <1>5 DEF Prompt, TreeInv
<1>6. CASE UNCHANGED pathVars
  BY <1>6 DEF pathVars, TreeInv
<1>7. CASE Full
  BY <1>6, <1>7 DEF Full
<1> QED
  BY <1>1, <1>2, <1>3, <1>4, <1>5, <1>6, <1>7 DEF PathNext

\* A node of the tree has one position that names it.
LEMMA TreeInvIsTree == TreeInv => WireIsTree
<1> SUFFICES ASSUME TreeInv, stage = "sent" PROVE WireIsTree
  BY DEF WireIsTree
<1> DEFINE wire == request.cond
           named(k) == {j \in DOMAIN wire : k - 1 \in {wire[j].left, wire[j].right}}
<1>1. IsTree(wire)
  BY DEF TreeInv
<1> SUFFICES ASSUME NEW k \in DOMAIN wire \ {1}
             PROVE  /\ Cardinality(named(k)) = 1
                    /\ \A j \in named(k) : j < k /\ wire[j].left # wire[j].right
  BY DEF WireIsTree
<1> HIDE DEF wire
<1>2. Block(wire, 1) /\ \E C : wire \in Seq(C)
  <2>1. wire # <<>>
    OBVIOUS
  <2> QED
    BY <1>1, <2>1 DEF IsTree
<1>3. PICK N \in Nat : N = Len(wire) /\ DOMAIN wire = 1 .. N
  BY <1>2, LenProperties
<1>4. /\ \A i \in 1 .. N : \/ wire[i].left = 0 /\ wire[i].right = 0
                          \/ /\ wire[i].left \in i .. N - 1
                             /\ wire[i].right \in i .. N - 1
                             /\ wire[i].left # wire[i].right
      /\ \A p \in 1 .. N - 1 : \E i \in 1 .. N : Names(wire, i, p)
      /\ \A i, j \in 1 .. N : \A p \in 1 .. N - 1 : Names(wire, i, p) /\ Names(wire, j, p) => i = j
  <2>1. (\A i \in 1 .. N : 1 + i - 1 = i) /\ 1 + N - 2 = N - 1
    OBVIOUS
  <2> QED
    BY <1>2, <1>3, <2>1 DEF Block
<1>5. PICK p \in 1 .. N - 1 : p = k - 1 /\ k = p + 1
  <2>1. k \in 1 .. N /\ k # 1
    BY <1>3
  <2> QED
    BY <2>1
<1>6. PICK i \in 1 .. N : Names(wire, i, p)
  BY <1>4
<1>7. ASSUME NEW j \in named(k)
      PROVE  j = i /\ j < k /\ wire[j].left # wire[j].right
  <2>1. j \in 1 .. N /\ p \in {wire[j].left, wire[j].right}
    BY <1>3, <1>5
  <2>2. wire[j].left # 0 /\ wire[j].left \in j .. N - 1 /\ wire[j].right \in j .. N - 1
        /\ wire[j].left # wire[j].right
    BY <1>4, <2>1
  <2>3. Names(wire, j, p)
    BY <2>1, <2>2 DEF Names
  <2>4. j <= p
    BY <2>1, <2>2
  <2>5. j = i
    BY <1>4, <1>6, <2>1, <2>3
  <2>6. j < k
    BY <1>5, <2>1, <2>4
  <2> QED
    BY <2>2, <2>5, <2>6
<1>8. i \in named(k)
  BY <1>3, <1>5, <1>6 DEF Names
<1>9. named(k) = {i}
  BY <1>7, <1>8
<1>10. Cardinality({i}) = 1
  BY FS_Singleton
<1> QED
  BY <1>7, <1>9, <1>10

\* The list of conditions a client writes is a tree, whatever was typed.
THEOREM WireTree == PathSpec => []WireIsTree
<1>1. PathSpec => []TreeInv
  BY InitTreeInv, NextTreeInv, PTL DEF PathSpec
<1> QED
  BY <1>1, TreeInvIsTree, PTL

-----------------------------------------------------------------------------
(* What the filters of a plain command mean.                                 *)

\* No list but the braces is of one condition.
NoSingles(cond) == \A k \in 1 .. Len(cond) - 1 : IsList(cond[k]) => Len(cond[k].list) > 1

\* The filters of the list k, with op between them.
Joined(cond, h, k, size) ==
  LET list == cond[k].list
      n == Len(list)
  IN /\ size + n - 1 <= Len(h.nodes)
     /\ \A j \in 1 .. n - 1 :
          h.nodes[size + j] = Pair(cond[k].is, h.tops[list[n - j]], IF j = 1 THEN h.tops[list[n]] ELSE size + j - 1)
     /\ h.tops[k] = IF n = 1 THEN h.tops[list[1]] ELSE size + n - 1

IsLeaf(cond, h, k) ==
  LET n == h.nodes[h.tops[k]] IN
  n.left = 0 /\ n.field = cond[k].field /\ n.value = Literal(cond[k].value)

Described(cond, h, k) ==
  IF IsList(cond[k]) THEN \E size \in Nat : Joined(cond, h, k, size) ELSE IsLeaf(cond, h, k)

Leaves(h) == \A n \in 1 .. Len(h.nodes) : h.nodes[n].left = 0 => h.nodes[n].op \notin {"AND", "OR"}

\* A node described stays so when nodes are added.
LEMMA DescribedStays ==
  ASSUME NEW cond, Conditions(cond), NEW m \in 1 .. Len(cond), NEW k \in 1 .. m,
         NEW h, NEW g, Heap(cond, m, h), Extends(g, h), Described(cond, h, k)
  PROVE  Described(cond, g, k)
<1>1. Len(cond) \in Nat /\ k \in 1 .. Len(cond) /\ m \in Nat
  <2>1. Len(cond) \in Nat
    BY ConditionsAre
  <2> QED
    BY <2>1
<1>2. h.nodes \in Seq(Nodes(cond)) /\ Len(h.tops) = m
  BY DEF Heap, Heaps
<1>3. PICK N \in Nat : N = Len(h.nodes)
  BY <1>2, LenProperties
<1>4. /\ \A i \in 1 .. m : h.tops[i] \in 1 .. N
      /\ \A i \in 1 .. N : g.nodes[i] = h.nodes[i]
      /\ \A i \in 1 .. m : g.tops[i] = h.tops[i]
      /\ N <= Len(g.nodes)
  BY <1>2, <1>3 DEF Heap, Extends
<1>5. CASE IsList(cond[k])
  <2>1. PICK size \in Nat : Joined(cond, h, k, size)
    BY <1>5 DEF Described
  <2>2. PICK list : list = cond[k].list
    OBVIOUS
  <2>3. list \in Seq(1 .. k - 1) /\ list # <<>>
    BY <1>1, <1>5, <2>2, ConditionsAre
  <2>4. PICK n \in Nat : n = Len(list) /\ n # 0
    BY <2>3, LenProperties, EmptySeq
  <2>5. \A i \in 1 .. n : list[i] \in 1 .. m
    <3>1. \A i \in 1 .. n : list[i] \in 1 .. k - 1
      BY <2>3, <2>4, ElementOfSeq
    <3>2. \A i \in 1 .. k - 1 : i \in 1 .. m
      OBVIOUS
    <3> QED
      BY <3>1, <3>2
  <2>6. /\ size + n - 1 <= N
        /\ \A j \in 1 .. n - 1 :
             h.nodes[size + j] = Pair(cond[k].is, h.tops[list[n - j]], IF j = 1 THEN h.tops[list[n]] ELSE size + j - 1)
        /\ h.tops[k] = IF n = 1 THEN h.tops[list[1]] ELSE size + n - 1
    BY <1>3, <2>1, <2>2, <2>4 DEF Joined
  <2>7. 1 \in 1 .. n /\ n \in 1 .. n
    BY <2>4
  <2>8. \A i \in 1 .. n : g.tops[list[i]] = h.tops[list[i]]
    BY <1>4, <2>5
  <2>9. size + n - 1 <= Len(g.nodes)
    <3>1. g.nodes = g.nodes /\ N <= Len(g.nodes)
      BY <1>4
    <3> QED
      BY <2>6, <3>1, <1>4
  <2>10. ASSUME NEW j \in 1 .. n - 1
         PROVE  g.nodes[size + j] = Pair(cond[k].is, g.tops[list[n - j]], IF j = 1 THEN g.tops[list[n]] ELSE size + j - 1)
    <3>1. PICK x \in 1 .. N : x = size + j
      BY <2>6
    <3>2. PICK i \in 1 .. n : i = n - j
      OBVIOUS
    <3>3. g.nodes[x] = h.nodes[x] /\ g.tops[list[i]] = h.tops[list[i]] /\ g.tops[list[n]] = h.tops[list[n]]
      BY <1>4, <2>7, <2>8
    <3> QED
      BY <2>6, <3>1, <3>2, <3>3
  <2>11. g.tops[k] = IF n = 1 THEN g.tops[list[1]] ELSE size + n - 1
    BY <1>4, <2>6, <2>7, <2>8
  <2>12. Joined(cond, g, k, size)
    BY <2>2, <2>4, <2>9, <2>10, <2>11 DEF Joined
  <2> QED
    BY <1>5, <2>12 DEF Described
<1>6. CASE ~IsList(cond[k])
  <2>1. IsLeaf(cond, h, k)
    BY <1>6 DEF Described
  <2>2. g.tops[k] = h.tops[k] /\ g.nodes[h.tops[k]] = h.nodes[h.tops[k]]
    BY <1>4
  <2>3. IsLeaf(cond, g, k)
    BY <2>1, <2>2 DEF IsLeaf
  <2> QED
    BY <1>6, <2>3 DEF Described
<1> QED
  BY <1>5, <1>6

\* What a list adds, before it is renamed.
LEMMA FiltersPlain ==
  ASSUME NEW cond, Conditions(cond), NEW k \in 1 .. Len(cond), NEW h, Heap(cond, k - 1, h), Leaves(h),
         IsList(cond[k])
  PROVE  LET g == Filters(h, cond[k].is, cond[k].list) IN
         /\ Heap(cond, k, g) /\ Extends(g, h) /\ Leaves(g) /\ Described(cond, g, k)
         /\ Len(cond[k].list) > 1 => g.nodes[g.tops[k]].op = cond[k].is
<1>1. Len(cond) \in Nat /\ k - 1 \in Nat /\ (k - 1) + 1 = k
  <2>1. Len(cond) \in Nat
    BY ConditionsAre
  <2> QED
    BY <2>1
<1>2. PICK list : list = cond[k].list
  OBVIOUS
<1>3. PICK op \in {"AND", "OR"} : op = cond[k].is
  BY DEF IsList
<1>4. list \in Seq(1 .. k - 1) /\ list # <<>>
  BY <1>2, ConditionsAre
<1>5. PICK g : g = Filters(h, op, list)
  OBVIOUS
<1>6. Heap(cond, k, g) /\ Extends(g, h) /\ Chained(h, g, op, list)
  BY <1>1, <1>4, <1>5, FiltersHeap
<1>7. PICK n \in Nat : n = Len(list) /\ n # 0 /\ \A i \in 1 .. n : list[i] \in 1 .. k - 1
  BY <1>4, LenProperties, EmptySeq, ElementOfSeq
<1>8. h.nodes \in Seq(Nodes(cond)) /\ Len(h.tops) = k - 1 /\ g.nodes \in Seq(Nodes(cond))
  BY <1>6 DEF Heap, Heaps
<1>9. PICK size \in Nat : size = Len(h.nodes)
  BY <1>8, LenProperties
<1>10. /\ Len(g.nodes) = size + n - 1
       /\ \A j \in 1 .. n - 1 :
            g.nodes[size + j] = Pair(op, h.tops[list[n - j]], IF j = 1 THEN h.tops[list[n]] ELSE size + j - 1)
       /\ g.tops[k] = IF n = 1 THEN h.tops[list[1]] ELSE size + n - 1
  BY <1>1, <1>6, <1>7, <1>8, <1>9 DEF Chained
<1>11. /\ \A i \in 1 .. size : g.nodes[i] = h.nodes[i]
       /\ \A i \in 1 .. k - 1 : g.tops[i] = h.tops[i]
       /\ \A i \in 1 .. k - 1 : h.tops[i] \in 1 .. size
  BY <1>6, <1>8, <1>9 DEF Extends, Heap
<1>12. 1 \in 1 .. n /\ n \in 1 .. n
  BY <1>7
<1>13. \A i \in 1 .. n : g.tops[list[i]] = h.tops[list[i]] /\ h.tops[list[i]] \in 1 .. size
  BY <1>7, <1>11
<1>14. ASSUME NEW j \in 1 .. n - 1
       PROVE  /\ g.nodes[size + j] = Pair(op, g.tops[list[n - j]], IF j = 1 THEN g.tops[list[n]] ELSE size + j - 1)
              /\ g.nodes[size + j].left # 0 /\ g.nodes[size + j].op = op
  <2>1. PICK i \in 1 .. n : i = n - j
    OBVIOUS
  <2>2. PICK x \in Nat : x = size + j
    OBVIOUS
  <2>3. g.nodes[x] = Pair(op, g.tops[list[i]], IF j = 1 THEN g.tops[list[n]] ELSE size + j - 1)
    BY <1>10, <1>12, <1>13, <2>1, <2>2
  <2>4. g.nodes[x].left = g.tops[list[i]] /\ g.nodes[x].op = op
    BY <2>3 DEF Pair
  <2>5. g.tops[list[i]] # 0
    BY <1>13
  <2> QED
    BY <2>1, <2>2, <2>3, <2>4, <2>5
<1>15. Joined(cond, g, k, size)
  <2>1. size + n - 1 <= Len(g.nodes)
    BY <1>10
  <2>2. g.tops[k] = IF n = 1 THEN g.tops[list[1]] ELSE size + n - 1
    BY <1>10, <1>12, <1>13
  <2> QED
    BY <1>2, <1>3, <1>7, <1>14, <2>1, <2>2 DEF Joined
<1>16. Described(cond, g, k)
  BY <1>15 DEF Described
<1>17. Leaves(g)
  <2> SUFFICES ASSUME NEW x \in 1 .. size + n - 1, g.nodes[x].left = 0 PROVE g.nodes[x].op \notin {"AND", "OR"}
    BY <1>10 DEF Leaves
  <2>1. CASE x \in 1 .. size
    <3>1. h.nodes[x].left = 0 => h.nodes[x].op \notin {"AND", "OR"}
      BY <1>9, <2>1 DEF Leaves
    <3> QED
      BY <1>11, <2>1, <3>1
  <2>2. CASE x \notin 1 .. size
    <3>1. PICK j \in 1 .. n - 1 : x = size + j
      <4>1. x - size \in 1 .. n - 1 /\ x = size + (x - size)
        BY <2>2
      <4> QED
        BY <4>1
    <3> QED
      BY <1>14, <3>1
  <2> QED
    BY <2>1, <2>2
<1>18. ASSUME Len(list) > 1 PROVE g.nodes[g.tops[k]].op = op
  <2>1. PICK j \in 1 .. n - 1 : j = n - 1 /\ size + j = size + n - 1 /\ n # 1
    <3>1. n > 1
      BY <1>7, <1>18
    <3>2. n - 1 \in 1 .. n - 1 /\ size + (n - 1) = size + n - 1
      BY <3>1
    <3> QED
      BY <3>1, <3>2
  <2> QED
    BY <1>10, <1>14, <2>1
<1> QED
  BY <1>2, <1>3, <1>5, <1>6, <1>16, <1>17, <1>18

\* A rule of the grammar describes its condition, lists of one aside.
LEMMA FilterPlain ==
  ASSUME NEW cond, Conditions(cond), NEW k \in 1 .. Len(cond), NEW h, Heap(cond, k - 1, h), Leaves(h),
         IsList(cond[k]) => Len(cond[k].list) > 1
  PROVE  LET g == Filter(h, cond[k]) IN
         Heap(cond, k, g) /\ Extends(g, h) /\ Leaves(g) /\ Described(cond, g, k)
<1>1. Len(cond) \in Nat /\ k - 1 \in Nat /\ (k - 1) + 1 = k /\ k \in DOMAIN cond /\ k \in Nat \ {0}
  <2>1. Len(cond) \in Nat /\ DOMAIN cond = 1 .. Len(cond)
    BY ConditionsAre
  <2> QED
    BY <2>1
<1>2. CASE IsList(cond[k])
  <2>1. PICK op \in {"AND", "OR"} : op = cond[k].is
    BY <1>2 DEF IsList
  <2>2. PICK g : g = Filters(h, op, cond[k].list)
    OBVIOUS
  <2>3. /\ Heap(cond, k, g) /\ Extends(g, h) /\ Leaves(g) /\ Described(cond, g, k)
        /\ g.nodes[g.tops[k]].op = op
    BY <1>2, <2>1, <2>2, FiltersPlain
  <2>4. Renamed(g, op) = g
    BY <1>1, <2>3, RenamedHeap
  <2>5. Filter(h, cond[k]) = Renamed(g, op)
    BY <1>2, <2>1, <2>2 DEF Filter, IsList
  <2> QED
    BY <2>3, <2>4, <2>5
<1>3. CASE ~IsList(cond[k])
  <2>1. PICK op \in {"KEY_VALUE", "COMP"} : Filter(h, cond[k]) = Made(h, Leaf(op, cond[k]))
    <3>1. cond[k].is \in {"key", "comp"}
      BY <1>3, ConditionsAre DEF IsList
    <3>2. CASE cond[k].is = "key"
      BY <3>2 DEF Filter, IsList
    <3>3. CASE cond[k].is = "comp"
      BY <3>3 DEF Filter, IsList
    <3> QED
      BY <3>1, <3>2, <3>3
  <2>2. op \in Ops /\ op \notin {"AND", "OR"}
    BY DEF Ops
  <2>3. PICK n \in Nodes(cond) : n = Leaf(op, cond[k]) /\ n.left = 0 /\ n.right = 0
    BY <1>1, <2>2, LeafNode
  <2>4. n.op = op /\ n.field = cond[k].field /\ n.value = Literal(cond[k].value)
    BY <2>3 DEF Leaf
  <2>5. PICK g : g = Made(h, n)
    OBVIOUS
  <2>6. Heap(cond, k, g) /\ Extends(g, h) /\ g.nodes[g.tops[k]] = n
    BY <1>1, <2>3, <2>5, MadeHeap
  <2>7. Described(cond, g, k)
    BY <1>3, <2>3, <2>4, <2>6 DEF Described, IsLeaf
  <2>8. Leaves(g)
    <3>1. h.nodes \in Seq(Nodes(cond))
      BY DEF Heap, Heaps
    <3>2. PICK size \in Nat : size = Len(h.nodes)
      BY <3>1, LenProperties
    <3>3. g.nodes = Append(h.nodes, n)
      BY <2>5 DEF Made
    <3>4. /\ Len(g.nodes) = size + 1 /\ g.nodes[size + 1] = n
          /\ \A i \in 1 .. size : g.nodes[i] = h.nodes[i]
      BY <3>1, <3>2, <3>3, AppendProperties
    <3>5. \A i \in 1 .. size : h.nodes[i].left = 0 => h.nodes[i].op \notin {"AND", "OR"}
      BY <3>2 DEF Leaves
    <3> SUFFICES ASSUME NEW i \in 1 .. size + 1, g.nodes[i].left = 0 PROVE g.nodes[i].op \notin {"AND", "OR"}
      BY <3>4 DEF Leaves
    <3>6. CASE i \in 1 .. size
      BY <3>4, <3>5, <3>6
    <3>7. CASE i = size + 1
      BY <2>2, <2>4, <3>4, <3>7
    <3> QED
      BY <3>6, <3>7
  <2> QED
    BY <2>1, <2>3, <2>5, <2>6, <2>7, <2>8
<1> QED
  BY <1>2, <1>3

\* Every condition of a command without lists of one is described.
LEMMA ParsedPlain ==
  ASSUME NEW cond, Conditions(cond), NoSingles(cond)
  PROVE  Leaves(Parsed(cond)) /\ \A k \in 1 .. Len(cond) : Described(cond, Parsed(cond), k)
<1>1. PICK done : /\ IsParse(done, cond)
                  /\ Parsed(cond) = Filters(done[Len(cond) - 1], "AND", cond[Len(cond)].list)
  BY ParsedIs
<1>2. PICK N \in Nat : N = Len(cond) - 1 /\ N + 1 = Len(cond) /\ \A k \in 1 .. N : k \in 1 .. Len(cond)
  <2>1. Len(cond) \in Nat \ {0}
    BY ConditionsAre
  <2> QED
    BY <2>1
<1> DEFINE Fine(k) == Leaves(done[k]) /\ \A i \in 1 .. k : Described(cond, done[k], i)
           T == {k \in 0 .. N : Fine(k)}
<1>3. /\ done[0] = [nodes |-> <<>>, tops |-> <<>>]
      /\ \A k \in 1 .. N : done[k] = Filter(done[k - 1], cond[k])
      /\ \A k \in 0 .. N : Heap(cond, k, done[k])
  BY <1>1, <1>2 DEF IsParse
<1>4. ASSUME NEW k \in 1 .. Len(cond), NEW h, NEW g,
             k - 1 \in 0 .. N, h = done[k - 1], Fine(k - 1),
             Heap(cond, k, g), Extends(g, h), Described(cond, g, k)
      PROVE  \A i \in 1 .. k : Described(cond, g, i)
  <2> SUFFICES ASSUME NEW i \in 1 .. k, i # k PROVE Described(cond, g, i)
    BY <1>4
  <2>1. PICK m \in 1 .. Len(cond) : m = k - 1 /\ i \in 1 .. m
    BY <1>2
  <2>2. Heap(cond, m, h) /\ Described(cond, h, i)
    BY <1>3, <1>4, <2>1
  <2> QED
    BY <1>4, <2>1, <2>2, DescribedStays
<1>5. 0 \in T
  <2>1. done[0].nodes = <<>>
    BY <1>3
  <2>2. Len(<<>>) = 0
    OBVIOUS
  <2>3. Leaves(done[0])
    BY <2>1, <2>2 DEF Leaves
  <2> QED
    BY <1>2, <2>3
<1> HIDE DEF Fine
<1>6. ASSUME NEW n \in 0 .. N - 1, n \in T PROVE n + 1 \in T
  <2>1. PICK k \in 1 .. N : k = n + 1 /\ k - 1 = n /\ k - 1 \in 0 .. N
    OBVIOUS
  <2>2. k \in 1 .. Len(cond) /\ k \in 1 .. Len(cond) - 1
    BY <1>2
  <2>3. PICK h : h = done[k - 1]
    OBVIOUS
  <2>4. PICK g : g = Filter(h, cond[k])
    OBVIOUS
  <2>5. Fine(k - 1) /\ Leaves(h) /\ Heap(cond, k - 1, h)
    BY <1>3, <1>6, <2>1, <2>3 DEF Fine
  <2>6. IsList(cond[k]) => Len(cond[k].list) > 1
    BY <2>2 DEF NoSingles
  <2>7. Heap(cond, k, g) /\ Extends(g, h) /\ Leaves(g) /\ Described(cond, g, k)
    BY <2>2, <2>4, <2>5, <2>6, FilterPlain
  <2>8. \A i \in 1 .. k : Described(cond, g, i)
    BY <1>4, <2>1, <2>2, <2>3, <2>5, <2>7
  <2>9. g = done[k]
    BY <1>3, <2>3, <2>4
  <2>10. Fine(k)
    BY <2>7, <2>8, <2>9 DEF Fine
  <2> QED
    BY <2>1, <2>10
<1> HIDE DEF T
<1>7. \A n \in 0 .. N : n \in T
  BY <1>5, <1>6, UpTo
<1>8. Fine(N)
  <2>1. N \in T
    BY <1>7
  <2> QED
    BY <2>1 DEF T
<1>9. PICK k \in 1 .. Len(cond) : k = Len(cond) /\ k - 1 = N /\ k - 1 \in 0 .. N
  BY <1>2
<1>10. PICK h : h = done[k - 1]
  OBVIOUS
<1>11. Leaves(h) /\ Heap(cond, k - 1, h)
  BY <1>3, <1>8, <1>9, <1>10 DEF Fine
<1>12. IsList(cond[k]) /\ cond[k].is = "AND"
  BY <1>9, ConditionsAre
<1>13. PICK g : g = Filters(h, cond[k].is, cond[k].list)
  OBVIOUS
<1>14. Heap(cond, k, g) /\ Extends(g, h) /\ Leaves(g) /\ Described(cond, g, k)
  BY <1>11, <1>12, <1>13, FiltersPlain
<1>15. \A i \in 1 .. k : Described(cond, g, i)
  BY <1>4, <1>8, <1>9, <1>10, <1>14
<1>16. g = Parsed(cond)
  BY <1>1, <1>9, <1>10, <1>12, <1>13
<1> QED
  BY <1>9, <1>14, <1>15, <1>16

\* v gives every node of a condition a truth value: a leaf has the one leaf
\* gives it, a pair joins those of its operands.  With all, OR joins as AND.
Truths(filters, leaf, all, v) ==
  /\ v \in [1 .. Len(filters) -> BOOLEAN]
  /\ \A n \in 1 .. Len(filters) :
       v[n] = IF filters[n].left = 0 THEN leaf[n]
              ELSE IF filters[n].op = "OR" /\ ~all THEN v[filters[n].left] \/ v[filters[n].right]
              ELSE v[filters[n].left] /\ v[filters[n].right]

\* The nodes of a heap have truth values.
LEMMA TruthsExist ==
  ASSUME NEW cond, NEW k \in Nat, NEW h, Heap(cond, k, h),
         NEW leaf \in [1 .. Len(h.nodes) -> BOOLEAN], NEW all \in BOOLEAN
  PROVE  \E v : Truths(h.nodes, leaf, all, v)
<1>1. h.nodes \in Seq(Nodes(cond))
  BY DEF Heap, Heaps
<1>2. PICK N \in Nat : N = Len(h.nodes)
  BY <1>1, LenProperties
<1> DEFINE D == 1 .. N
           filters == h.nodes
           value(f, n) == IF filters[n].left = 0 THEN leaf[n]
                          ELSE IF filters[n].op = "OR" /\ ~all THEN f[filters[n].left] \/ f[filters[n].right]
                          ELSE f[filters[n].left] /\ f[filters[n].right]
           rank == [n \in D |-> n]
           step == [n \in D |-> [f \in [D -> BOOLEAN] |-> value(f, n)]]
<1>3. \A n \in D : filters[n].left # 0 => /\ filters[n].left \in D /\ filters[n].left < n
                                        /\ filters[n].right \in D /\ filters[n].right < n
  <2>1. \A n \in D : filters[n].left # 0 => filters[n].left \in 1 .. n - 1 /\ filters[n].right \in 1 .. n - 1
    BY <1>2 DEF Heap
  <2>2. ASSUME NEW n \in D, filters[n].left # 0
        PROVE  /\ filters[n].left \in D /\ filters[n].left < n
               /\ filters[n].right \in D /\ filters[n].right < n
    <3>1. PICK a, b \in 1 .. n - 1 : a = filters[n].left /\ b = filters[n].right
      BY <2>1, <2>2
    <3>2. a \in D /\ b \in D /\ a < n /\ b < n
      OBVIOUS
    <3> QED
      BY <3>1, <3>2
  <2> QED
    BY <2>2
<1>4. rank \in [D -> 0 .. N] /\ \A n \in D : rank[n] = n
  OBVIOUS
<1>5. leaf \in [D -> BOOLEAN]
  BY <1>2
<1> HIDE DEF D, filters, rank
<1>6. \A n \in D : \A f \in [D -> BOOLEAN] : value(f, n) \in BOOLEAN
  BY <1>3, <1>5
<1>7. \A n \in D : \A f, g \in [D -> BOOLEAN] :
        (\A m \in D : rank[m] < rank[n] => f[m] = g[m]) => value(f, n) = value(g, n)
  <2> SUFFICES ASSUME NEW n \in D, NEW f \in [D -> BOOLEAN], NEW g \in [D -> BOOLEAN],
                      \A m \in D : rank[m] < rank[n] => f[m] = g[m]
               PROVE  value(f, n) = value(g, n)
    BY Zenon
  <2>1. filters[n].left # 0 => f[filters[n].left] = g[filters[n].left] /\ f[filters[n].right] = g[filters[n].right]
    BY <1>3, <1>4
  <2> QED
    BY <2>1, Zenon
<1> HIDE DEF value
<1>8. /\ step \in [D -> [[D -> BOOLEAN] -> BOOLEAN]]
      /\ \A n \in D : \A f \in [D -> BOOLEAN] : step[n][f] = value(f, n)
  BY <1>6
<1> HIDE DEF step
<1>9. Local(D, BOOLEAN, rank, step)
  <2>1. ASSUME NEW n \in D, NEW f \in [D -> BOOLEAN], NEW g \in [D -> BOOLEAN],
               \A m \in D : rank[m] < rank[n] => f[m] = g[m]
        PROVE  step[n][f] = step[n][g]
    <3>1. value(f, n) = value(g, n)
      BY <1>7, <2>1, Zenon
    <3> QED
      BY <1>8, <3>1
  <2> QED
    BY <2>1, Zenon DEF Local
<1>10. PICK v : Solves(v, D, BOOLEAN, step)
  <2>1. TRUE \in BOOLEAN
    OBVIOUS
  <2> QED
    BY <1>4, <1>8, <1>9, <2>1, Recursion
<1>11. v \in [D -> BOOLEAN] /\ \A n \in D : v[n] = value(v, n)
  BY <1>8, <1>10 DEF Solves
<1> QED
  BY <1>2, <1>11, Zenon DEF Truths, value, D, filters

\* The last of the pairs of a list stands for all of it.
JoinUp(n, b, p, or) ==
  \A j \in 1 .. n - 1 :
    p[j] <=> IF or THEN b[n - j] \/ (IF j = 1 THEN b[n] ELSE p[j - 1])
             ELSE b[n - j] /\ (IF j = 1 THEN b[n] ELSE p[j - 1])

\* The last pair of a list joins all of it.
LEMMA PairsOfList ==
  ASSUME NEW n \in Nat, n > 1, NEW b \in [1 .. n -> BOOLEAN], NEW p \in [1 .. n - 1 -> BOOLEAN],
         NEW or \in BOOLEAN, JoinUp(n, b, p, or)
  PROVE  p[n - 1] <=> IF or THEN \E i \in 1 .. n : b[i] ELSE \A i \in 1 .. n : b[i]
<1> DEFINE All(j) == IF or THEN \E i \in n - j .. n : b[i] ELSE \A i \in n - j .. n : b[i]
           T == {m \in 0 .. n - 2 : p[m + 1] <=> All(m + 1)}
<1>1. 0 \in T
  <2>1. 1 \in 1 .. n - 1 /\ n \in 1 .. n /\ n - 1 \in 1 .. n /\ \A i \in n - 1 .. n : i = n - 1 \/ i = n
    OBVIOUS
  <2>2. p[1] <=> IF or THEN b[n - 1] \/ b[n] ELSE b[n - 1] /\ b[n]
    BY <2>1 DEF JoinUp
  <2>3. n - 1 \in n - 1 .. n /\ n \in n - 1 .. n
    OBVIOUS
  <2>4. p[1] <=> All(1)
    BY <2>1, <2>2, <2>3
  <2> QED
    BY <2>4
<1>2. ASSUME NEW m \in 0 .. n - 2 - 1, m \in T PROVE m + 1 \in T
  <2>1. PICK j \in 1 .. n - 1 : j = m + 1 + 1 /\ j - 1 = m + 1 /\ j # 1
    OBVIOUS
  <2>2. p[j] <=> IF or THEN b[n - j] \/ p[j - 1] ELSE b[n - j] /\ p[j - 1]
    BY <2>1 DEF JoinUp
  <2>3. p[j - 1] <=> All(j - 1)
    BY <1>2, <2>1
  <2>4. /\ \A i \in n - (j - 1) .. n : i \in n - j .. n
        /\ n - j \in n - j .. n
        /\ \A i \in n - j .. n : i = n - j \/ i \in n - (j - 1) .. n
    OBVIOUS
  <2>5. p[j] <=> All(j)
    BY <2>2, <2>3, <2>4, Zenon
  <2> QED
    BY <2>1, <2>5
<1> HIDE DEF All
<1>3. n - 2 \in Nat
  OBVIOUS
<1>4. \A m \in 0 .. n - 2 : m \in T
  <2> HIDE DEF T
  <2> QED
    BY <1>1, <1>2, <1>3, UpTo
<1>5. PICK m \in 0 .. n - 2 : m = n - 2 /\ m + 1 = n - 1
  OBVIOUS
<1>6. p[n - 1] <=> All(n - 1)
  BY <1>4, <1>5
<1>7. n - (n - 1) = 1
  OBVIOUS
<1> QED
  BY <1>6, <1>7 DEF All

\* The node of a list has the truth the list has.
LEMMA ListTruth ==
  ASSUME NEW cond, Conditions(cond), NEW h, Heap(cond, Len(cond), h), NEW leaf, NEW all \in BOOLEAN,
         NEW v, Truths(h.nodes, leaf, all, v), NEW k \in 1 .. Len(cond), IsList(cond[k]), Described(cond, h, k)
  PROVE  v[h.tops[k]] <=> IF cond[k].is = "OR" /\ ~all
                          THEN \E i \in DOMAIN cond[k].list : v[h.tops[cond[k].list[i]]]
                          ELSE \A i \in DOMAIN cond[k].list : v[h.tops[cond[k].list[i]]]
<1>1. PICK size \in Nat : Joined(cond, h, k, size)
  BY DEF Described
<1>2. PICK list : list = cond[k].list
  OBVIOUS
<1>3. PICK op \in {"AND", "OR"} : op = cond[k].is
  BY DEF IsList
<1>4. list \in Seq(1 .. k - 1) /\ list # <<>> /\ Len(cond) \in Nat
  BY <1>2, ConditionsAre
<1>5. PICK n \in Nat : n = Len(list) /\ n # 0 /\ DOMAIN list = 1 .. n /\ \A i \in 1 .. n : list[i] \in 1 .. k - 1
  BY <1>4, LenProperties, EmptySeq, ElementOfSeq
<1>6. h.nodes \in Seq(Nodes(cond)) /\ Len(h.tops) = Len(cond)
  BY DEF Heap, Heaps
<1>7. PICK N \in Nat : N = Len(h.nodes)
  BY <1>6, LenProperties
<1>8. \A i \in 1 .. Len(cond) : h.tops[i] \in 1 .. N
  BY <1>7 DEF Heap
<1>9. \A i \in 1 .. n : h.tops[list[i]] \in 1 .. N
  <2>1. \A i \in 1 .. k - 1 : i \in 1 .. Len(cond)
    BY <1>4
  <2> QED
    BY <1>5, <1>8, <2>1
<1>10. PICK b : b = [i \in 1 .. n |-> v[h.tops[list[i]]]]
  OBVIOUS
<1>11. v \in [1 .. N -> BOOLEAN]
  BY <1>7 DEF Truths
<1>12. b \in [1 .. n -> BOOLEAN] /\ \A i \in 1 .. n : b[i] = v[h.tops[list[i]]]
  BY <1>9, <1>10, <1>11
<1>13. /\ size + n - 1 <= N
       /\ \A j \in 1 .. n - 1 :
            h.nodes[size + j] = Pair(op, h.tops[list[n - j]], IF j = 1 THEN h.tops[list[n]] ELSE size + j - 1)
       /\ h.tops[k] = IF n = 1 THEN h.tops[list[1]] ELSE size + n - 1
  BY <1>1, <1>2, <1>3, <1>5, <1>7 DEF Joined
<1> DEFINE or == op = "OR" /\ ~all
<1>14. v[h.tops[k]] <=> IF or THEN \E i \in 1 .. n : b[i] ELSE \A i \in 1 .. n : b[i]
  <2>1. CASE n = 1
    <3>1. v[h.tops[k]] = b[1] /\ 1 \in 1 .. n /\ \A i \in 1 .. n : i = 1
      BY <1>12, <1>13, <2>1
    <3> HIDE DEF or
    <3> QED
      BY <3>1
  <2>2. CASE n # 1
    <3>1. PICK p : p = [j \in 1 .. n - 1 |-> v[size + j]]
      OBVIOUS
    <3>2. \A j \in 1 .. n - 1 : size + j \in 1 .. N
      BY <1>13
    <3>3. p \in [1 .. n - 1 -> BOOLEAN] /\ \A j \in 1 .. n - 1 : p[j] = v[size + j]
      BY <1>11, <3>1, <3>2
    <3>4. ASSUME NEW j \in 1 .. n - 1
          PROVE  p[j] <=> IF or THEN b[n - j] \/ (IF j = 1 THEN b[n] ELSE p[j - 1])
                          ELSE b[n - j] /\ (IF j = 1 THEN b[n] ELSE p[j - 1])
      <4>1. PICK x \in 1 .. N : x = size + j
        BY <3>2
      <4>2. PICK i \in 1 .. n : i = n - j
        OBVIOUS
      <4>3. n \in 1 .. n
        BY <1>5
      <4>4. PICK r : r = IF j = 1 THEN h.tops[list[n]] ELSE size + j - 1
        OBVIOUS
      <4>5. h.nodes[x] = Pair(op, h.tops[list[i]], r)
        BY <1>13, <4>1, <4>2, <4>4
      <4>6. h.nodes[x].left = h.tops[list[i]] /\ h.nodes[x].right = r /\ h.nodes[x].op = op
        BY <4>5 DEF Pair
      <4>7. h.nodes[x].left # 0
        BY <1>9, <4>6
      <4>8. v[x] = IF or THEN v[h.tops[list[i]]] \/ v[r] ELSE v[h.tops[list[i]]] /\ v[r]
        <5>1. v[x] = IF h.nodes[x].left = 0 THEN leaf[x]
                     ELSE IF h.nodes[x].op = "OR" /\ ~all THEN v[h.nodes[x].left] \/ v[h.nodes[x].right]
                     ELSE v[h.nodes[x].left] /\ v[h.nodes[x].right]
          BY <1>7, Zenon DEF Truths
        <5> QED
          BY <4>6, <4>7, <5>1, Zenon
      <4>9. v[r] = IF j = 1 THEN b[n] ELSE p[j - 1]
        <5>1. CASE j = 1
          BY <1>12, <4>3, <4>4, <5>1
        <5>2. CASE j # 1
          <6>1. PICK m \in 1 .. n - 1 : m = j - 1 /\ size + m = size + j - 1
            BY <5>2
          <6> QED
            BY <3>3, <4>4, <5>2, <6>1
        <5> QED
          BY <5>1, <5>2
      <4>10. v[x] = p[j] /\ v[h.tops[list[i]]] = b[n - j]
        BY <1>12, <3>3, <4>1, <4>2
      <4> HIDE DEF or
      <4> QED
        BY <4>8, <4>9, <4>10, Zenon
    <3>5. or \in BOOLEAN /\ n > 1
      BY <1>5, <2>2
    <3> HIDE DEF or
    <3>6. p[n - 1] <=> IF or THEN \E i \in 1 .. n : b[i] ELSE \A i \in 1 .. n : b[i]
      <4>1. PICK o \in BOOLEAN : o = or
        BY <3>5
      <4>2. JoinUp(n, b, p, o)
        BY <3>4, <4>1 DEF JoinUp
      <4>3. p[n - 1] <=> IF o THEN \E i \in 1 .. n : b[i] ELSE \A i \in 1 .. n : b[i]
        BY <1>12, <3>3, <3>5, <4>2, PairsOfList
      <4> QED
        BY <4>1, <4>3
    <3>7. PICK m \in 1 .. n - 1 : m = n - 1 /\ size + m = size + n - 1
      BY <3>5
    <3>8. v[h.tops[k]] = p[n - 1]
      BY <1>13, <2>2, <3>3, <3>7
    <3> QED
      BY <3>6, <3>8, Zenon
  <2> QED
    BY <2>1, <2>2
<1>15. /\ (\E i \in 1 .. n : b[i]) <=> \E i \in DOMAIN list : v[h.tops[list[i]]]
       /\ (\A i \in 1 .. n : b[i]) <=> \A i \in DOMAIN list : v[h.tops[list[i]]]
  BY <1>5, <1>12
<1> QED
  BY <1>2, <1>3, <1>14, <1>15, Zenon

\* Induction over filters.
LEMMA OnNodes ==
  ASSUME NEW filters, Ordered(filters), NEW T,
         \A k \in DOMAIN filters : (filters[k].left # 0 => filters[k].left \in T /\ filters[k].right \in T) => k \in T
  PROVE  \A k \in DOMAIN filters : k \in T
<1>1. PICK N \in Nat :
        /\ DOMAIN filters = 1 .. N
        /\ \A k \in 1 .. N : filters[k].left # 0 =>
             filters[k].left \in 1 .. k - 1 /\ filters[k].right \in 1 .. k - 1
  BY DEF Ordered
<1> DEFINE U == {n \in 0 .. N : \A k \in 1 .. N : k <= n => k \in T}
<1>2. 0 \in U
  OBVIOUS
<1>3. ASSUME NEW n \in 0 .. N - 1, n \in U PROVE n + 1 \in U
  <2>1. ASSUME NEW k \in 1 .. N, k <= n + 1 PROVE k \in T
    <3>1. ASSUME filters[k].left # 0 PROVE filters[k].left \in T /\ filters[k].right \in T
      <4>1. PICK a, b \in 1 .. k - 1 : a = filters[k].left /\ b = filters[k].right
        BY <1>1, <3>1
      <4>2. a \in 1 .. N /\ b \in 1 .. N /\ a <= n /\ b <= n
        BY <2>1
      <4> QED
        BY <1>3, <4>1, <4>2
    <3> QED
      BY <1>1, <3>1
  <2> QED
    BY <2>1
<1> HIDE DEF U
<1>4. \A n \in 0 .. N : n \in U
  BY <1>2, <1>3, UpTo
<1> SUFFICES ASSUME NEW k \in 1 .. N PROVE k \in T
  BY <1>1
<1>5. k \in U
  BY <1>4
<1> QED
  BY <1>5 DEF U

\* What a leaf and a pair are on the wire.
LEMMA WireLeaf ==
  ASSUME NEW filters, NEW wire, IsWire(wire, filters), NEW k \in DOMAIN filters, NEW size \in Nat,
         filters[k].left = 0
  PROVE  wire[k][size] = <<Put(filters[k], 0, 0)>>
<1>1. wire[k][size] = Placed(filters, wire, k, size)
  BY DEF IsWire, Below
<1> QED
  BY <1>1 DEF Placed

Split(filters, wire, k, size, s, l, r, c, a, b) ==
  /\ a = Len(l) /\ b = Len(r) /\ a \in Nat /\ b \in Nat
  /\ s = wire[k][size]
  /\ l = wire[filters[k].left][size + 1] /\ r = wire[filters[k].right][size + a + 1]
  /\ c = Put(filters[k], size, size + a)
  /\ Len(s) = 1 + a + b /\ s[1] = c
  /\ \A i \in 1 .. a : s[i + 1] = l[i]
  /\ \A i \in 1 .. b : s[i + 1 + a] = r[i]

\* What is written for a pair: the pair, what is below its left, what is below
\* its right.
LEMMA WirePair ==
  ASSUME NEW filters, NEW wire, IsWire(wire, filters), NEW k \in DOMAIN filters, NEW size \in Nat,
         filters[k].left # 0, filters[k].left \in DOMAIN filters, filters[k].right \in DOMAIN filters
  PROVE  \E a, b \in Nat : \E s, l, r, c : Split(filters, wire, k, size, s, l, r, c, a, b)
<1>1. wire[k][size] = Placed(filters, wire, k, size)
  BY DEF IsWire, Below
<1>2. PICK a \in Nat : a = size + 1
  OBVIOUS
<1>3. PICK l \in Seq(Puts(filters)) : l = wire[filters[k].left][a]
  BY DEF IsWire
<1>4. PICK b \in Nat : b = size + Len(l)
  BY LenProperties
<1>5. PICK d \in Nat : d = size + Len(l) + 1
  BY LenProperties
<1>6. PICK r \in Seq(Puts(filters)) : r = wire[filters[k].right][d]
  BY DEF IsWire
<1>7. \A x, y \in Nat : Put(filters[k], x, y) \in Puts(filters)
  BY DEF Puts
<1>8. PICK c \in Puts(filters) : c = Put(filters[k], size, b)
  BY <1>7
<1>9. wire[k][size] = <<c>> \o l \o r
  <2>1. wire[filters[k].left][size + 1] = l /\ wire[filters[k].right][size + Len(l) + 1] = r
    BY <1>2, <1>3, <1>5, <1>6
  <2> QED
    BY <1>1, <1>4, <1>8, <2>1, Zenon DEF Placed
<1>10. Parts(wire[k][size], c, l, r)
  BY <1>9, ThreeParts
<1>11. PICK x, y \in Nat : x = Len(l) /\ y = Len(r)
  BY LenProperties
<1>12. PICK s : s = wire[k][size]
  OBVIOUS
<1>13. /\ Len(s) = 1 + x + y /\ s[1] = c
       /\ \A i \in 1 .. x : s[i + 1] = l[i]
       /\ \A i \in 1 .. y : s[i + 1 + x] = r[i]
  BY <1>10, <1>11, <1>12 DEF Parts
<1>14. Split(filters, wire, k, size, s, l, r, c, x, y)
  BY <1>2, <1>3, <1>4, <1>5, <1>6, <1>8, <1>11, <1>12, <1>13 DEF Split
<1> QED
  BY <1>14

\* A leaf and a pair as the server has them.
LEMMA PutIs ==
  ASSUME NEW n, NEW x, NEW y
  PROVE  LET c == DbCond(Put(n, x, y)) IN
         /\ c.left = x /\ c.right = y
         /\ n.op \in {"AND", "OR"} => c.op = n.op
         /\ n.op \notin {"AND", "OR"} => c.op \notin {"AND", "OR"} /\ c.field = n.field /\ c.value = n.value
<1>1. CASE n.op \in {"AND", "OR"}
  <2>1. PICK p : p = [op |-> n.op, field |-> NoField, value |-> Unset, left |-> x, right |-> y]
    OBVIOUS
  <2>2. Put(n, x, y) = p
    BY <1>1, <2>1 DEF Put
  <2>3. DbCond(p).left = x /\ DbCond(p).right = y /\ DbCond(p).op = n.op
    BY <1>1, <2>1 DEF DbCond
  <2> QED
    BY <1>1, <2>2, <2>3
<1>2. CASE n.op \notin {"AND", "OR"}
  <2>1. PICK p : p = [op |-> n.op, field |-> n.field, value |-> n.value, left |-> x, right |-> y]
    OBVIOUS
  <2>2. Put(n, x, y) = p
    BY <1>2, <2>1 DEF Put, set_key_value
  <2>3. /\ DbCond(p).left = x /\ DbCond(p).right = y /\ DbCond(p).op = "EQUAL"
        /\ DbCond(p).field = n.field /\ DbCond(p).value = n.value
    BY <1>2, <2>1 DEF DbCond
  <2> QED
    BY <1>2, <2>2, <2>3
<1> QED
  BY <1>1, <1>2

HeapFacts(h) ==
  /\ Ordered(h.nodes) /\ DOMAIN h.nodes = 1 .. Len(h.nodes) /\ Len(h.nodes) \in Nat
  /\ \A n \in DOMAIN h.nodes :
       IF h.nodes[n].left = 0 THEN h.nodes[n].right = 0 /\ h.nodes[n].op \notin {"AND", "OR"}
       ELSE /\ h.nodes[n].left \in DOMAIN h.nodes /\ h.nodes[n].right \in DOMAIN h.nodes
            /\ h.nodes[n].op \in {"AND", "OR"}

\* What the evaluation needs of a heap.
LEMMA HeapFactsHold ==
  ASSUME NEW cond, NEW k \in Nat, NEW h, Heap(cond, k, h), Leaves(h)
  PROVE  HeapFacts(h)
<1>1. h.nodes \in Seq(Nodes(cond))
  BY DEF Heap, Heaps
<1>2. PICK N \in Nat : N = Len(h.nodes) /\ DOMAIN h.nodes = 1 .. N
  BY <1>1, LenProperties
<1>3. \A n \in 1 .. N :
        IF h.nodes[n].left = 0 THEN h.nodes[n].right = 0
        ELSE /\ h.nodes[n].left \in 1 .. n - 1 /\ h.nodes[n].right \in 1 .. n - 1
             /\ h.nodes[n].op \in {"AND", "OR"}
  BY <1>2 DEF Heap
<1>4. Ordered(h.nodes)
  BY <1>2, <1>3 DEF Ordered
<1>5. ASSUME NEW n \in 1 .. N
      PROVE  IF h.nodes[n].left = 0 THEN h.nodes[n].right = 0 /\ h.nodes[n].op \notin {"AND", "OR"}
             ELSE /\ h.nodes[n].left \in 1 .. N /\ h.nodes[n].right \in 1 .. N
                  /\ h.nodes[n].op \in {"AND", "OR"}
  <2>1. CASE h.nodes[n].left = 0
    <3>1. h.nodes[n].op \notin {"AND", "OR"}
      BY <1>2, <2>1 DEF Leaves
    <3> QED
      BY <1>3, <2>1, <3>1
  <2>2. CASE h.nodes[n].left # 0
    <3>1. PICK a, b \in 1 .. n - 1 : a = h.nodes[n].left /\ b = h.nodes[n].right
      BY <1>3, <2>2
    <3>2. a \in 1 .. N /\ b \in 1 .. N
      OBVIOUS
    <3> QED
      BY <1>3, <2>2, <3>1, <3>2
  <2> QED
    BY <2>1, <2>2
<1> QED
  BY <1>2, <1>4, <1>5 DEF HeapFacts

-----------------------------------------------------------------------------
(* The Database's view of the conditions.                                  *)

FitsAt(c) == c.op \in {"AND", "OR"} \/ OfSchema(c.field, c.value)

AllFit(s) == \A i \in 1 .. Len(s) : FitsAt(DbCond(s[i]))

LeavesFit(filters, leaf) == \A n \in DOMAIN filters : leaf[n] <=> OfSchema(filters[n].field, filters[n].value)

\* The conditions on the wire fit the schema when the leaves do.
LEMMA WireFits ==
  ASSUME NEW h, HeapFacts(h), NEW wire, IsWire(wire, h.nodes), NEW leaf, NEW v, Truths(h.nodes, leaf, TRUE, v),
         LeavesFit(h.nodes, leaf)
  PROVE  \A k \in DOMAIN h.nodes : \A size \in Nat : AllFit(wire[k][size]) <=> v[k]
<1> DEFINE filters == h.nodes
           Fine(k) == \A size \in Nat : AllFit(wire[k][size]) <=> v[k]
           T == {k \in DOMAIN filters : Fine(k)}
<1>1. ASSUME NEW k \in DOMAIN filters, filters[k].left # 0 => Fine(filters[k].left) /\ Fine(filters[k].right),
             NEW size \in Nat
      PROVE  AllFit(wire[k][size]) <=> v[k]
  <2>0. v[k] = IF filters[k].left = 0 THEN leaf[k] ELSE v[filters[k].left] /\ v[filters[k].right]
    BY DEF Truths, HeapFacts
  <2>1. CASE filters[k].left = 0
    <3>1. PICK c : c = Put(filters[k], 0, 0)
      OBVIOUS
    <3>2. wire[k][size] = <<c>>
      BY <2>1, <3>1, WireLeaf
    <3>3. filters[k].op \notin {"AND", "OR"}
      BY <2>1 DEF HeapFacts
    <3>4. /\ DbCond(c).op \notin {"AND", "OR"} /\ DbCond(c).field = filters[k].field
          /\ DbCond(c).value = filters[k].value
      BY <3>1, <3>3, PutIs
    <3>5. FitsAt(DbCond(c)) <=> leaf[k]
      BY <3>4 DEF FitsAt, LeavesFit
    <3>6. AllFit(<<c>>) <=> FitsAt(DbCond(c))
      <4>1. Len(<<c>>) = 1 /\ <<c>>[1] = c /\ 1 \in 1 .. 1 /\ \A i \in 1 .. 1 : i = 1
        OBVIOUS
      <4> HIDE DEF FitsAt
      <4> QED
        BY <4>1 DEF AllFit
    <3> QED
      BY <2>0, <2>1, <3>2, <3>5, <3>6
  <2>2. CASE filters[k].left # 0
    <3>1. /\ filters[k].left \in DOMAIN filters /\ filters[k].right \in DOMAIN filters
          /\ filters[k].op \in {"AND", "OR"}
      BY <2>2 DEF HeapFacts
    <3>0. PICK a, b \in Nat : \E s, l, r, c : Split(filters, wire, k, size, s, l, r, c, a, b)
      BY <2>2, <3>1, WirePair
    <3>2. PICK s, l, r, c : Split(filters, wire, k, size, s, l, r, c, a, b)
      BY <3>0
    <3>3. a = Len(l) /\ b = Len(r) /\ a \in Nat /\ b \in Nat
      BY <3>2 DEF Split
    <3>5. s = wire[k][size]
      BY <3>2 DEF Split
    <3>6. /\ l = wire[filters[k].left][size + 1] /\ r = wire[filters[k].right][size + a + 1]
          /\ c = Put(filters[k], size, size + a)
      BY <3>2, Zenon DEF Split
    <3>7. /\ Len(s) = 1 + a + b /\ s[1] = c
          /\ \A i \in 1 .. a : s[i + 1] = l[i]
          /\ \A i \in 1 .. b : s[i + 1 + a] = r[i]
      BY <3>2, Zenon DEF Split
    <3>8. FitsAt(DbCond(c))
      <4>1. DbCond(c).op = filters[k].op
        BY <3>1, <3>6, PutIs
      <4> QED
        BY <3>1, <4>1 DEF FitsAt
    <3>9. AllFit(l) <=> v[filters[k].left]
      <4>1. PICK x \in Nat : x = size + 1
        OBVIOUS
      <4> QED
        BY <1>1, <2>2, <3>6, <4>1
    <3>10. AllFit(r) <=> v[filters[k].right]
      <4>1. PICK x \in Nat : x = size + a + 1
        OBVIOUS
      <4> QED
        BY <1>1, <2>2, <3>6, <4>1
    <3>11. AllFit(s) <=> AllFit(l) /\ AllFit(r)
      <4>1. /\ \A i \in 1 .. a : i + 1 \in 1 .. 1 + a + b
            /\ \A i \in 1 .. b : i + 1 + a \in 1 .. 1 + a + b
            /\ \A i \in 1 .. 1 + a + b :
                 i = 1 \/ (\E j \in 1 .. a : i = j + 1) \/ \E j \in 1 .. b : i = j + 1 + a
        <5>1. ASSUME NEW i \in 1 .. 1 + a + b, i # 1, i > a + 1
              PROVE  \E j \in 1 .. b : i = j + 1 + a
          <6>1. i - (1 + a) \in 1 .. b /\ i = (i - (1 + a)) + 1 + a
            BY <5>1
          <6> QED
            BY <6>1
        <5>2. ASSUME NEW i \in 1 .. 1 + a + b, i # 1, i <= a + 1
              PROVE  \E j \in 1 .. a : i = j + 1
          <6>1. i - 1 \in 1 .. a /\ i = (i - 1) + 1
            BY <5>2
          <6> QED
            BY <6>1
        <5> QED
          BY <5>1, <5>2
      <4>2. ASSUME AllFit(s) PROVE AllFit(l) /\ AllFit(r)
        <5>1. \A i \in 1 .. 1 + a + b : FitsAt(DbCond(s[i]))
          BY <3>7, <4>2 DEF AllFit
        <5>2. \A i \in 1 .. a : FitsAt(DbCond(l[i]))
          BY <3>7, <4>1, <5>1
        <5>3. \A i \in 1 .. b : FitsAt(DbCond(r[i]))
          BY <3>7, <4>1, <5>1
        <5> QED
          BY <3>3, <5>2, <5>3 DEF AllFit
      <4>3. ASSUME AllFit(l), AllFit(r) PROVE AllFit(s)
        <5>1. (\A i \in 1 .. a : FitsAt(DbCond(l[i]))) /\ \A i \in 1 .. b : FitsAt(DbCond(r[i]))
          BY <3>3, <4>3 DEF AllFit
        <5>2. ASSUME NEW i \in 1 .. 1 + a + b PROVE FitsAt(DbCond(s[i]))
          <6>1. CASE i = 1
            BY <3>7, <3>8, <6>1
          <6>2. ASSUME NEW j \in 1 .. a, i = j + 1 PROVE FitsAt(DbCond(s[i]))
            BY <3>7, <5>1, <6>2
          <6>3. ASSUME NEW j \in 1 .. b, i = j + 1 + a PROVE FitsAt(DbCond(s[i]))
            BY <3>7, <5>1, <6>3
          <6> QED
            BY <4>1, <6>1, <6>2, <6>3
        <5> QED
          BY <3>7, <5>2 DEF AllFit
      <4> QED
        BY <4>2, <4>3
    <3> QED
      BY <2>0, <2>2, <3>5, <3>9, <3>10, <3>11
  <2> QED
    BY <2>1, <2>2
<1>2. \A k \in DOMAIN filters : (filters[k].left # 0 => filters[k].left \in T /\ filters[k].right \in T) => k \in T
  <2>1. \A k \in DOMAIN filters : (filters[k].left # 0 => Fine(filters[k].left) /\ Fine(filters[k].right)) => Fine(k)
    BY <1>1
  <2> HIDE DEF Fine
  <2> QED
    BY <2>1
<1>3. Ordered(filters)
  BY DEF HeapFacts
<1>4. \A k \in DOMAIN filters : k \in T
  <2> HIDE DEF T
  <2> QED
    BY <1>2, <1>3, OnNodes
<1> QED
  BY <1>4

\* What CheckConditionals makes of the condition k, of those behind it.
CheckAt(cs, row, check, k) ==
  LET c == cs[k] IN
  IF c.left = 0 /\ c.right = 0 THEN CheckLeaf(c, row)
  ELSE LET l == check[c.left + 1] IN
       IF c.right = 0 THEN l
       ELSE IF l = (IF c.op = "AND" THEN "yes" ELSE "no") THEN check[c.right + 1]
       ELSE l

IsCheck(check, cs, row) == \A k \in DOMAIN cs : check[k] = CheckAt(cs, row, check, k)

Word(b) == IF b THEN "yes" ELSE "no"

\* s is in cs from the position size on.
Within(s, cs, size) ==
  \A i \in 1 .. Len(s) : size + i - 1 \in DOMAIN cs /\ cs[size + i - 1] = DbCond(s[i])

LeavesHold(filters, leaf, row) ==
  \A n \in DOMAIN filters : leaf[n] <=> row[filters[n].field] = filters[n].value

DbFits(cs) == \A k \in DOMAIN cs : FitsAt(cs[k])

Checking(h, wire, leaf, v, row, cs, check) ==
  /\ HeapFacts(h) /\ IsWire(wire, h.nodes) /\ Truths(h.nodes, leaf, FALSE, v)
  /\ IsCheck(check, cs, row) /\ DbFits(cs) /\ LeavesHold(h.nodes, leaf, row)

\* A condition on the wire is checked as its node is true.
LEMMA WireChecks ==
  ASSUME NEW h, NEW wire, NEW leaf, NEW v, NEW row, NEW cs, NEW check,
         Checking(h, wire, leaf, v, row, cs, check)
  PROVE  \A k \in DOMAIN h.nodes : \A size \in Nat \ {0} :
           Within(wire[k][size], cs, size) => check[size] = Word(v[k])
<1> SUFFICES ASSUME HeapFacts(h), IsWire(wire, h.nodes), Truths(h.nodes, leaf, FALSE, v), IsCheck(check, cs, row),
                    DbFits(cs), LeavesHold(h.nodes, leaf, row)
             PROVE  \A k \in DOMAIN h.nodes : \A size \in Nat \ {0} :
                      Within(wire[k][size], cs, size) => check[size] = Word(v[k])
  BY DEF Checking
<1> DEFINE filters == h.nodes
           Fine(k) == \A size \in Nat \ {0} : Within(wire[k][size], cs, size) => check[size] = Word(v[k])
           T == {k \in DOMAIN filters : Fine(k)}
<1>1. ASSUME NEW k \in DOMAIN filters, filters[k].left # 0 => Fine(filters[k].left) /\ Fine(filters[k].right),
             NEW size \in Nat \ {0}, Within(wire[k][size], cs, size)
      PROVE  check[size] = Word(v[k])
  <2>0. /\ v[k] = IF filters[k].left = 0 THEN leaf[k]
                  ELSE IF filters[k].op = "OR" THEN v[filters[k].left] \/ v[filters[k].right]
                  ELSE v[filters[k].left] /\ v[filters[k].right]
        /\ \A n \in DOMAIN filters : v[n] \in BOOLEAN
    BY DEF Truths, HeapFacts
  <2>1. CASE filters[k].left = 0
    <3>1. PICK c : c = Put(filters[k], 0, 0)
      OBVIOUS
    <3>2. wire[k][size] = <<c>>
      BY <2>1, <3>1, WireLeaf
    <3>3. filters[k].op \notin {"AND", "OR"}
      BY <2>1 DEF HeapFacts
    <3>4. PICK d : d = DbCond(c)
      OBVIOUS
    <3>5. /\ d.left = 0 /\ d.right = 0 /\ d.op \notin {"AND", "OR"}
          /\ d.field = filters[k].field /\ d.value = filters[k].value
      BY <3>1, <3>3, <3>4, PutIs
    <3>6. size \in DOMAIN cs /\ cs[size] = d
      <4>1. Len(<<c>>) = 1 /\ <<c>>[1] = c /\ 1 \in 1 .. 1 /\ size + 1 - 1 = size
        OBVIOUS
      <4> QED
        BY <1>1, <3>2, <3>4, <4>1 DEF Within
    <3>7. check[size] = CheckLeaf(d, row)
      BY <3>5, <3>6 DEF CheckAt, IsCheck
    <3>8. d.field \in Fields /\ (leaf[k] <=> row[d.field] = d.value)
      <4>1. d.field \in Fields
        BY <3>5, <3>6 DEF DbFits, FitsAt, OfSchema
      <4>2. leaf[k] <=> row[d.field] = d.value
        BY <3>5 DEF LeavesHold
      <4> QED
        BY <4>1, <4>2
    <3>9. CheckLeaf(d, row) = Word(leaf[k])
      BY <3>8 DEF CheckLeaf, Word
    <3> QED
      BY <2>0, <2>1, <3>7, <3>9
  <2>2. CASE filters[k].left # 0
    <3>1. /\ filters[k].left \in DOMAIN filters /\ filters[k].right \in DOMAIN filters
          /\ filters[k].op \in {"AND", "OR"}
      BY <2>2 DEF HeapFacts
    <3>0. PICK a, b \in Nat : \E s, l, r, c : Split(filters, wire, k, size, s, l, r, c, a, b)
      BY <2>2, <3>1, WirePair
    <3>2. PICK s, l, r, c : Split(filters, wire, k, size, s, l, r, c, a, b)
      BY <3>0
    <3>3. a = Len(l) /\ b = Len(r) /\ a \in Nat /\ b \in Nat
      BY <3>2 DEF Split
    <3>5. s = wire[k][size]
      BY <3>2 DEF Split
    <3>6. /\ l = wire[filters[k].left][size + 1] /\ r = wire[filters[k].right][size + a + 1]
          /\ c = Put(filters[k], size, size + a)
      BY <3>2, Zenon DEF Split
    <3>7. /\ Len(s) = 1 + a + b /\ s[1] = c
          /\ \A i \in 1 .. a : s[i + 1] = l[i]
          /\ \A i \in 1 .. b : s[i + 1 + a] = r[i]
      BY <3>2, Zenon DEF Split
    <3>8. \A i \in 1 .. 1 + a + b : size + i - 1 \in DOMAIN cs /\ cs[size + i - 1] = DbCond(s[i])
      BY <1>1, <3>5, <3>7 DEF Within
    <3>9. PICK d : d = DbCond(c)
      OBVIOUS
    <3>10. d.left = size /\ d.right = size + a /\ d.op = filters[k].op
      BY <3>1, <3>6, <3>9, PutIs
    <3>11. size \in DOMAIN cs /\ cs[size] = d
      <4>1. 1 \in 1 .. 1 + a + b /\ size + 1 - 1 = size
        OBVIOUS
      <4> QED
        BY <3>7, <3>8, <3>9, <4>1
    <3>12. check[size + 1] = Word(v[filters[k].left])
      <4>1. PICK x \in Nat \ {0} : x = size + 1
        OBVIOUS
      <4>2. ASSUME NEW i \in 1 .. a PROVE x + i - 1 \in DOMAIN cs /\ cs[x + i - 1] = DbCond(l[i])
        <5>1. PICK j \in 1 .. 1 + a + b : j = i + 1 /\ size + j - 1 = x + i - 1
          BY <4>1
        <5> QED
          BY <3>7, <3>8, <5>1
      <4>3. Within(l, cs, x)
        BY <3>3, <4>2 DEF Within
      <4> QED
        BY <1>1, <2>2, <3>6, <4>1, <4>3
    <3>13. check[size + a + 1] = Word(v[filters[k].right])
      <4>1. PICK x \in Nat \ {0} : x = size + a + 1
        OBVIOUS
      <4>2. ASSUME NEW i \in 1 .. b PROVE x + i - 1 \in DOMAIN cs /\ cs[x + i - 1] = DbCond(r[i])
        <5>1. PICK j \in 1 .. 1 + a + b : j = i + 1 + a /\ size + j - 1 = x + i - 1
          <6>1. i + 1 + a \in 1 .. 1 + a + b /\ size + (i + 1 + a) - 1 = x + i - 1
            BY <4>1
          <6> QED
            BY <6>1
        <5> QED
          BY <3>7, <3>8, <5>1
      <4>3. Within(r, cs, x)
        BY <3>3, <4>2 DEF Within
      <4>4. r = wire[filters[k].right][x]
        BY <3>6, <4>1
      <4> QED
        BY <1>1, <2>2, <4>1, <4>3, <4>4
    <3>14. check[size] = IF check[size + 1] = (IF d.op = "AND" THEN "yes" ELSE "no") THEN check[size + a + 1]
                         ELSE check[size + 1]
      <4>1. ~(d.left = 0 /\ d.right = 0) /\ d.right # 0
        BY <3>10
      <4>2. check[size] = CheckAt(cs, row, check, size)
        BY <3>11 DEF IsCheck
      <4> QED
        BY <3>10, <3>11, <4>1, <4>2 DEF CheckAt
    <3>15. v[filters[k].left] \in BOOLEAN /\ v[filters[k].right] \in BOOLEAN
      BY <2>0, <3>1
    <3> QED
      BY <2>0, <2>2, <3>1, <3>10, <3>12, <3>13, <3>14, <3>15 DEF Word
  <2> QED
    BY <2>1, <2>2
<1>2. \A k \in DOMAIN filters : (filters[k].left # 0 => filters[k].left \in T /\ filters[k].right \in T) => k \in T
  <2>1. \A k \in DOMAIN filters : (filters[k].left # 0 => Fine(filters[k].left) /\ Fine(filters[k].right)) => Fine(k)
    BY <1>1
  <2> HIDE DEF Fine
  <2> QED
    BY <2>1
<1>3. Ordered(filters)
  BY DEF HeapFacts
<1>4. \A k \in DOMAIN filters : k \in T
  <2> HIDE DEF T
  <2> QED
    BY <1>2, <1>3, OnNodes
<1> QED
  BY <1>4

\* Operands are behind the condition that names them.
Forward(cs, N) ==
  \A k \in 1 .. N :
    \/ cs[k].left = 0 /\ cs[k].right = 0
    \/ cs[k].left + 1 \in k + 1 .. N /\ cs[k].right + 1 \in k + 1 .. N

Outcomes == {"yes", "no", "throw"}

\* The function in the definition of Check is one.
LEMMA CheckIsCheck ==
  ASSUME NEW cs, NEW N \in Nat \ {0}, DOMAIN cs = 1 .. N, Forward(cs, N), NEW row
  PROVE  \E check : IsCheck(check, cs, row) /\ Check(cs, row) = check[1]
<1> DEFINE D == 1 .. N
           rank == [k \in D |-> N - k]
           step == [k \in D |-> [f \in [D -> Outcomes] |-> CheckAt(cs, row, f, k)]]
           check[k \in DOMAIN cs] ==
             LET c == cs[k] IN
             IF c.left = 0 /\ c.right = 0 THEN CheckLeaf(c, row)
             ELSE LET l == check[c.left + 1] IN
                  IF c.right = 0 THEN l
                  ELSE IF l = (IF c.op = "AND" THEN "yes" ELSE "no") THEN check[c.right + 1]
                  ELSE l
<1>1. Check(cs, row) = check[1]
  BY DEF Check
<1>2. rank \in [D -> 0 .. N] /\ \A k \in D : rank[k] = N - k
  <2>1. \A k \in D : N - k \in 0 .. N
    OBVIOUS
  <2> QED
    BY <2>1
<1>3. \A k \in D : \/ cs[k].left = 0 /\ cs[k].right = 0
                   \/ /\ cs[k].left + 1 \in D /\ rank[cs[k].left + 1] < rank[k]
                      /\ cs[k].right + 1 \in D /\ rank[cs[k].right + 1] < rank[k]
  <2> SUFFICES ASSUME NEW k \in D, ~(cs[k].left = 0 /\ cs[k].right = 0)
               PROVE  /\ cs[k].left + 1 \in D /\ rank[cs[k].left + 1] < rank[k]
                      /\ cs[k].right + 1 \in D /\ rank[cs[k].right + 1] < rank[k]
    OBVIOUS
  <2>1. PICK a, b \in k + 1 .. N : a = cs[k].left + 1 /\ b = cs[k].right + 1
    BY DEF Forward
  <2>2. a \in D /\ b \in D /\ N - a < N - k /\ N - b < N - k
    OBVIOUS
  <2> QED
    BY <1>2, <2>1, <2>2
<1> HIDE DEF D, rank
<1>4. \A c : CheckLeaf(c, row) \in Outcomes
  BY DEF CheckLeaf, Outcomes
<1>5. \A k \in D : \A f \in [D -> Outcomes] : CheckAt(cs, row, f, k) \in Outcomes
  <2> SUFFICES ASSUME NEW k \in D, NEW f \in [D -> Outcomes] PROVE CheckAt(cs, row, f, k) \in Outcomes
    OBVIOUS
  <2>1. CASE cs[k].left = 0 /\ cs[k].right = 0
    BY <1>4, <2>1 DEF CheckAt
  <2>2. CASE ~(cs[k].left = 0 /\ cs[k].right = 0)
    <3>1. f[cs[k].left + 1] \in Outcomes /\ f[cs[k].right + 1] \in Outcomes
      BY <1>3, <2>2
    <3> QED
      BY <2>2, <3>1 DEF CheckAt
  <2> QED
    BY <2>1, <2>2
<1>6. /\ step \in [D -> [[D -> Outcomes] -> Outcomes]]
      /\ \A k \in D : \A f \in [D -> Outcomes] : step[k][f] = CheckAt(cs, row, f, k)
  BY <1>5
<1> HIDE DEF step
<1>7. Local(D, Outcomes, rank, step)
  <2>1. ASSUME NEW k \in D, NEW f \in [D -> Outcomes], NEW g \in [D -> Outcomes],
               \A j \in D : rank[j] < rank[k] => f[j] = g[j]
        PROVE  step[k][f] = step[k][g]
    <3>1. \/ cs[k].left = 0 /\ cs[k].right = 0
          \/ f[cs[k].left + 1] = g[cs[k].left + 1] /\ f[cs[k].right + 1] = g[cs[k].right + 1]
      BY <1>3, <2>1
    <3>2. CheckAt(cs, row, f, k) = CheckAt(cs, row, g, k)
      BY <3>1 DEF CheckAt
    <3> QED
      BY <1>6, <3>2
  <2> QED
    BY <2>1, Zenon DEF Local
<1>8. PICK h : Solves(h, D, Outcomes, step)
  <2>1. "no" \in Outcomes
    BY DEF Outcomes
  <2> QED
    BY <1>2, <1>6, <1>7, <2>1, Recursion
<1>9. h = [k \in DOMAIN cs |-> CheckAt(cs, row, h, k)]
  BY <1>6, <1>8 DEF Solves, D
<1>10. \E f : f = [k \in DOMAIN cs |-> CheckAt(cs, row, f, k)]
  BY <1>9, Zenon
<1>11. check = [k \in DOMAIN cs |-> CheckAt(cs, row, check, k)]
  <2>1. check = CHOOSE f : f = [k \in DOMAIN cs |-> CheckAt(cs, row, f, k)]
    BY Zenon DEF CheckAt
  <2> HIDE DEF check
  <2> QED
    BY <1>10, <2>1, Zenon
<1> HIDE DEF check
<1>12. IsCheck(check, cs, row)
  BY <1>11, Zenon DEF IsCheck
<1> QED
  BY <1>1, <1>12

-----------------------------------------------------------------------------
(* What a command says and what the Database makes of it.                  *)

IntFits(l) == l.type = "int" => l.val \in -Half .. Half - 1

\* The numbers typed are numbers of an int, the ids too.
IntsFit ==
  \A t \in Texts :
    /\ t.verb = "insert" => t.parent \in -Half .. Half - 1
    /\ \A i \in DOMAIN t.list : IntFits(t.list[i].value)
    /\ t.verb # "insert" => \A k \in DOMAIN t.cond : IsList(t.cond[k]) \/ IntFits(t.cond[k].value)

\* No $lt, $lte, $gt, $gte or $ne is typed.
OnlyEqualities ==
  \A t \in Texts : t.verb # "insert" => \A k \in DOMAIN t.cond : t.cond[k].is # "comp"

\* Conditions that mean what is typed: no list of one, no comparison but
\* equality, no number that is not an int.
Simple(cond) ==
  /\ Conditions(cond) /\ NoSingles(cond)
  /\ \A k \in DOMAIN cond : cond[k].is # "comp" /\ (IsList(cond[k]) \/ IntFits(cond[k].value))

\* atoi leaves the numbers of an int as they are.
LEMMA AtoiFits ==
  ASSUME NEW n \in -Half .. Half - 1
  PROVE  Atoi(n) = n
<1>1. PICK h \in Nat \ {0} : h = Half
  BY PipelineAssumption
<1>2. PICK m \in Nat : m = n + h /\ m < 2 * h
  <2>1. n + h \in Nat /\ n + h < 2 * h
    BY <1>1
  <2> QED
    BY <2>1
<1>3. \A d \in Nat \ {0} : m < d => m % d = m
  BY <1>2
<1>4. PICK d \in Nat \ {0} : d = 2 * h
  BY <1>1
<1>5. m % d = m
  BY <1>2, <1>3, <1>4
<1> QED
  BY <1>1, <1>2, <1>4, <1>5 DEF Atoi

\* So a literal of the grammar has the typed value.
LEMMA LiteralFits ==
  ASSUME NEW l \in [type : STRING, val : Int], IntFits(l)
  PROVE  Literal(l) = l
<1>1. CASE l.type = "int"
  <2>1. l.val \in -Half .. Half - 1
    BY <1>1 DEF IntFits
  <2>2. Atoi(l.val) = l.val
    BY <2>1, AtoiFits
  <2> QED
    BY <1>1, <2>2 DEF Literal
<1>2. CASE l.type # "int"
  BY <1>2 DEF Literal
<1> QED
  BY <1>1, <1>2

\* The top of a list of fitting conditions fits.
LEMMA FitsTop ==
  ASSUME NEW cond, Simple(cond), NEW h, Heap(cond, Len(cond), h), NEW leaf, NEW v, Truths(h.nodes, leaf, TRUE, v),
         LeavesFit(h.nodes, leaf), \A k \in 1 .. Len(cond) : Described(cond, h, k)
  PROVE  v[h.tops[Len(cond)]] <=> Fits(cond)
<1>1. PICK N \in Nat \ {0} : N = Len(cond) /\ DOMAIN cond = 1 .. N
  BY ConditionsAre DEF Simple
<1>2. Conditions(cond)
  BY DEF Simple
<1> DEFINE u(k) == v[h.tops[k]]
<1>3. ASSUME NEW k \in 1 .. N, IsList(cond[k])
      PROVE  /\ u(k) <=> \A i \in DOMAIN cond[k].list : u(cond[k].list[i])
             /\ \A i \in DOMAIN cond[k].list : cond[k].list[i] \in 1 .. k - 1
  <2>1. cond[k].list \in Seq(1 .. k - 1)
    BY <1>1, <1>2, <1>3, ConditionsAre
  <2>2. \A i \in DOMAIN cond[k].list : cond[k].list[i] \in 1 .. k - 1
    BY <2>1, ElementOfSeq, LenProperties
  <2>3. u(k) <=> \A i \in DOMAIN cond[k].list : u(cond[k].list[i])
    BY <1>1, <1>2, <1>3, ListTruth
  <2> QED
    BY <2>2, <2>3
<1>4. ASSUME NEW k \in 1 .. N, ~IsList(cond[k])
      PROVE  u(k) <=> OfSchema(cond[k].field, cond[k].value)
  <2>1. PICK n \in DOMAIN h.nodes : n = h.tops[k]
    <3>1. h.tops[k] \in 1 .. Len(h.nodes) /\ h.nodes \in Seq(Nodes(cond))
      BY <1>1 DEF Heap, Heaps
    <3> QED
      BY <3>1, LenProperties
  <2>2. h.nodes[n].left = 0 /\ h.nodes[n].field = cond[k].field /\ h.nodes[n].value = Literal(cond[k].value)
    BY <1>1, <1>4, <2>1 DEF Described, IsLeaf
  <2>3. Literal(cond[k].value) = cond[k].value
    <3>1. cond[k].value \in [type : STRING, val : Int]
      BY <1>1, <1>2, <1>4, ConditionsAre
    <3>2. IntFits(cond[k].value)
      BY <1>1, <1>4 DEF Simple
    <3> QED
      BY <3>1, <3>2, LiteralFits
  <2>4. n \in 1 .. Len(h.nodes)
    <3>1. h.nodes \in Seq(Nodes(cond))
      BY DEF Heap, Heaps
    <3> QED
      BY <3>1, LenProperties
  <2>5. v[n] = leaf[n]
    BY <2>2, <2>4 DEF Truths
  <2>6. leaf[n] <=> OfSchema(h.nodes[n].field, h.nodes[n].value)
    BY DEF LeavesFit
  <2> QED
    BY <2>1, <2>2, <2>3, <2>5, <2>6
<1> HIDE DEF u
<1>5. ASSUME Fits(cond) PROVE u(N)
  <2> DEFINE T == {n \in 0 .. N : \A k \in 1 .. N : k <= n => u(k)}
  <2>1. 0 \in T
    OBVIOUS
  <2>2. ASSUME NEW n \in 0 .. N - 1, n \in T PROVE n + 1 \in T
    <3>1. PICK k \in 1 .. N : k = n + 1
      OBVIOUS
    <3>2. \A j \in 1 .. k - 1 : u(j)
      BY <2>2, <3>1
    <3>3. u(k)
      <4>1. CASE IsList(cond[k])
        BY <1>3, <3>2, <4>1
      <4>2. CASE ~IsList(cond[k])
        BY <1>1, <1>4, <1>5, <4>2 DEF Fits
      <4> QED
        BY <4>1, <4>2
    <3>4. \A j \in 1 .. N : j <= n + 1 => j = k \/ j \in 1 .. k - 1
      BY <3>1
    <3> QED
      BY <3>2, <3>3, <3>4
  <2> HIDE DEF T
  <2>3. \A n \in 0 .. N : n \in T
    BY <2>1, <2>2, UpTo
  <2>4. N \in T
    BY <2>3
  <2> QED
    BY <2>4 DEF T
<1>6. ASSUME u(N) PROVE Fits(cond)
  <2> DEFINE T == {n \in 0 .. N - 1 : \A k \in 1 .. N : k >= N - n => u(k)}
  <2>1. 0 \in T
    BY <1>6
  <2>2. ASSUME NEW n \in 0 .. (N - 1) - 1, n \in T PROVE n + 1 \in T
    <3>1. PICK k \in 1 .. N : k = N - (n + 1) /\ k # N
      OBVIOUS
    <3>2. \A j \in k + 1 .. N : u(j)
      BY <2>2, <3>1
    <3>3. PICK j \in k + 1 .. N : IsList(cond[j]) /\ k \in ToSet(cond[j].list)
      BY <1>1, <1>2, <3>1 DEF Conditions
    <3>4. PICK i \in DOMAIN cond[j].list : cond[j].list[i] = k
      BY <3>3 DEF ToSet
    <3>5. u(k)
      BY <1>3, <3>2, <3>3, <3>4
    <3>6. \A i1 \in 1 .. N : i1 >= N - (n + 1) => i1 = k \/ i1 \in k + 1 .. N
      BY <3>1
    <3> QED
      BY <3>2, <3>5, <3>6
  <2> HIDE DEF T
  <2>3. \A n \in 0 .. N - 1 : n \in T
    <3>1. N - 1 \in Nat
      OBVIOUS
    <3> QED
      BY <2>1, <2>2, <3>1, UpTo
  <2>4. PICK n \in 0 .. N - 1 : n = N - 1
    OBVIOUS
  <2>5. n \in T
    BY <2>3
  <2>6. \A k \in 1 .. N : u(k)
    <3>1. \A k \in 1 .. N : k >= N - n
      BY <2>4
    <3> QED
      BY <2>5, <3>1 DEF T
  <2> QED
    BY <1>1, <1>4, <2>6 DEF Fits
<1> QED
  BY <1>1, <1>5, <1>6 DEF u

\* What the condition k says, of what those of its list say.
SaidAt(cond, row, says, k) ==
  LET c == cond[k] IN
  \/ c.is = "key" /\ row[c.field] = c.value
  \/ c.is = "comp" /\ Compare(c.rel, row[c.field].val, c.value.val)
  \/ c.is = "AND" /\ \A i \in DOMAIN c.list : says[c.list[i]]
  \/ c.is = "OR" /\ \E i \in DOMAIN c.list : says[c.list[i]]

\* The top of a list of conditions is true where the list says so.
LEMMA SaysTop ==
  ASSUME NEW cond, Simple(cond), NEW h, Heap(cond, Len(cond), h), NEW leaf, NEW v, Truths(h.nodes, leaf, FALSE, v),
         NEW row, LeavesHold(h.nodes, leaf, row), \A k \in 1 .. Len(cond) : Described(cond, h, k)
  PROVE  Says(cond, row) = v[h.tops[Len(cond)]]
<1>1. PICK N \in Nat \ {0} : N = Len(cond) /\ DOMAIN cond = 1 .. N
  BY ConditionsAre DEF Simple
<1>2. Conditions(cond)
  BY DEF Simple
<1>3. h.nodes \in Seq(Nodes(cond)) /\ DOMAIN h.nodes = 1 .. Len(h.nodes)
  <2>1. h.nodes \in Seq(Nodes(cond))
    BY DEF Heap, Heaps
  <2> QED
    BY <2>1, LenProperties
<1> DEFINE u == [k \in 1 .. N |-> v[h.tops[k]]]
           says[k \in DOMAIN cond] ==
             LET c == cond[k] IN
             \/ c.is = "key" /\ row[c.field] = c.value
             \/ c.is = "comp" /\ Compare(c.rel, row[c.field].val, c.value.val)
             \/ c.is = "AND" /\ \A i \in DOMAIN c.list : says[c.list[i]]
             \/ c.is = "OR" /\ \E i \in DOMAIN c.list : says[c.list[i]]
<1>4. Says(cond, row) = says[Len(cond)]
  BY DEF Says
<1>5. /\ u \in [1 .. N -> BOOLEAN]
      /\ \A k \in 1 .. N : u[k] = v[h.tops[k]]
  <2>1. \A k \in 1 .. N : h.tops[k] \in 1 .. Len(h.nodes)
    BY <1>1 DEF Heap
  <2>2. v \in [1 .. Len(h.nodes) -> BOOLEAN]
    BY DEF Truths
  <2> QED
    BY <2>1, <2>2
<1> HIDE DEF u
<1>6. ASSUME NEW k \in 1 .. N
      PROVE  IsList(cond[k]) => \A i \in DOMAIN cond[k].list : cond[k].list[i] \in 1 .. k - 1
  <2> SUFFICES ASSUME IsList(cond[k]) PROVE \A i \in DOMAIN cond[k].list : cond[k].list[i] \in 1 .. k - 1
    OBVIOUS
  <2>1. cond[k].list \in Seq(1 .. k - 1)
    BY <1>1, <1>2, ConditionsAre
  <2> QED
    BY <2>1, ElementOfSeq, LenProperties
<1>7. ASSUME NEW k \in 1 .. N
      PROVE  \/ cond[k].is = "key" /\ (u[k] <=> row[cond[k].field] = cond[k].value)
             \/ cond[k].is = "AND" /\ (u[k] <=> \A i \in DOMAIN cond[k].list : u[cond[k].list[i]])
             \/ cond[k].is = "OR" /\ (u[k] <=> \E i \in DOMAIN cond[k].list : u[cond[k].list[i]])
  <2>1. CASE IsList(cond[k])
    <3>1. v[h.tops[k]] <=> IF cond[k].is = "OR" /\ ~FALSE
                           THEN \E i \in DOMAIN cond[k].list : v[h.tops[cond[k].list[i]]]
                           ELSE \A i \in DOMAIN cond[k].list : v[h.tops[cond[k].list[i]]]
      BY <1>1, <1>2, <2>1, ListTruth
    <3>2. \A i \in DOMAIN cond[k].list : u[cond[k].list[i]] = v[h.tops[cond[k].list[i]]]
      <4>1. \A j \in 1 .. k - 1 : j \in 1 .. N
        OBVIOUS
      <4> QED
        BY <1>5, <1>6, <2>1, <4>1
    <3>3. cond[k].is = "AND" \/ cond[k].is = "OR"
      BY <2>1 DEF IsList
    <3>4. CASE cond[k].is = "AND"
      BY <1>5, <3>1, <3>2, <3>4
    <3>5. CASE cond[k].is = "OR"
      BY <1>5, <3>1, <3>2, <3>5
    <3> QED
      BY <3>3, <3>4, <3>5
  <2>2. CASE ~IsList(cond[k])
    <3>1. cond[k].is = "key"
      BY <1>1, <1>2, <2>2, ConditionsAre DEF IsList, Simple
    <3>2. PICK n \in 1 .. Len(h.nodes) : n = h.tops[k] /\ n \in DOMAIN h.nodes
      BY <1>1, <1>3 DEF Heap
    <3>3. h.nodes[n].left = 0 /\ h.nodes[n].field = cond[k].field /\ h.nodes[n].value = Literal(cond[k].value)
      BY <1>1, <2>2, <3>2 DEF Described, IsLeaf
    <3>4. Literal(cond[k].value) = cond[k].value
      <4>1. cond[k].value \in [type : STRING, val : Int]
        BY <1>1, <1>2, <2>2, ConditionsAre
      <4>2. IntFits(cond[k].value)
        BY <1>1, <2>2 DEF Simple
      <4> QED
        BY <4>1, <4>2, LiteralFits
    <3>5. v[n] = leaf[n]
      BY <3>2, <3>3 DEF Truths
    <3>6. leaf[n] <=> row[h.nodes[n].field] = h.nodes[n].value
      BY <3>2 DEF LeavesHold
    <3>7. u[k] = leaf[n]
      BY <1>5, <3>2, <3>5
    <3>8. leaf[n] <=> row[cond[k].field] = cond[k].value
      BY <3>3, <3>4, <3>6
    <3>9. u[k] <=> row[cond[k].field] = cond[k].value
      BY <3>7, <3>8, Zenon
    <3> QED
      BY <3>1, <3>9
  <2> QED
    BY <2>1, <2>2
<1>8. ASSUME NEW k \in 1 .. N, NEW f, \A j \in 1 .. k - 1 : f[j] = u[j]
      PROVE  u[k] = SaidAt(cond, row, f, k)
  <2>0. u[k] \in BOOLEAN
    BY <1>5
  <2>1. CASE cond[k].is = "key" /\ (u[k] <=> row[cond[k].field] = cond[k].value)
    <3>1. SaidAt(cond, row, f, k) = (row[cond[k].field] = cond[k].value)
      BY <2>1 DEF SaidAt
    <3> QED
      BY <2>0, <2>1, <3>1
  <2>2. CASE cond[k].is = "AND" /\ (u[k] <=> \A i \in DOMAIN cond[k].list : u[cond[k].list[i]])
    <3>1. \A i \in DOMAIN cond[k].list : u[cond[k].list[i]] = f[cond[k].list[i]]
      BY <1>6, <1>8, <2>2 DEF IsList
    <3>2. SaidAt(cond, row, f, k) = \A i \in DOMAIN cond[k].list : f[cond[k].list[i]]
      BY <2>2 DEF SaidAt
    <3>3. u[k] <=> \A i \in DOMAIN cond[k].list : f[cond[k].list[i]]
      BY <2>2, <3>1
    <3> QED
      BY <2>0, <3>2, <3>3
  <2>3. CASE cond[k].is = "OR" /\ (u[k] <=> \E i \in DOMAIN cond[k].list : u[cond[k].list[i]])
    <3>1. \A i \in DOMAIN cond[k].list : u[cond[k].list[i]] = f[cond[k].list[i]]
      BY <1>6, <1>8, <2>3 DEF IsList
    <3>2. SaidAt(cond, row, f, k) = \E i \in DOMAIN cond[k].list : f[cond[k].list[i]]
      BY <2>3 DEF SaidAt
    <3>3. u[k] <=> \E i \in DOMAIN cond[k].list : f[cond[k].list[i]]
      BY <2>3, <3>1
    <3> QED
      BY <2>0, <3>2, <3>3
  <2> QED
    BY <1>7, <2>1, <2>2, <2>3
<1>9. u = [k \in DOMAIN cond |-> SaidAt(cond, row, u, k)]
  <2>1. \A k \in 1 .. N : u[k] = SaidAt(cond, row, u, k)
    BY <1>8
  <2> QED
    BY <1>1, <1>5, <2>1
<1>10. \E f : f = [k \in DOMAIN cond |-> SaidAt(cond, row, f, k)]
  BY <1>9, Zenon
<1>11. says = [k \in DOMAIN cond |-> SaidAt(cond, row, says, k)]
  <2>1. says = CHOOSE f : f = [k \in DOMAIN cond |-> SaidAt(cond, row, f, k)]
    BY Zenon DEF SaidAt
  <2> HIDE DEF says
  <2> QED
    BY <1>10, <2>1, Zenon
<1> HIDE DEF says
<1>12. \A k \in 1 .. N : says[k] = SaidAt(cond, row, says, k)
  BY <1>1, <1>11, Zenon
<1> DEFINE T == {n \in 0 .. N : \A k \in 1 .. N : k <= n => says[k] = u[k]}
<1>13. 0 \in T
  OBVIOUS
<1>14. ASSUME NEW n \in 0 .. N - 1, n \in T PROVE n + 1 \in T
  <2>1. PICK k \in 1 .. N : k = n + 1
    OBVIOUS
  <2>2. \A j \in 1 .. k - 1 : says[j] = u[j]
    BY <1>14, <2>1
  <2>3. says[k] = u[k]
    BY <1>8, <1>12, <2>2
  <2>4. \A j \in 1 .. N : j <= n + 1 => j = k \/ j \in 1 .. k - 1
    BY <2>1
  <2> QED
    BY <2>2, <2>3, <2>4
<1> HIDE DEF T
<1>15. \A n \in 0 .. N : n \in T
  BY <1>13, <1>14, UpTo
<1>16. N \in T
  BY <1>15
<1>17. says[N] = u[N]
  BY <1>16 DEF T
<1> QED
  BY <1>1, <1>4, <1>5, <1>17

\* What the server has of a condition it is sent.
LEMMA PutLinks ==
  ASSUME NEW n, NEW x, NEW y
  PROVE  Put(n, x, y).left = x /\ Put(n, x, y).right = y
<1>1. CASE n.op \in {"AND", "OR"}
  BY <1>1 DEF Put
<1>2. CASE n.op \notin {"AND", "OR"}
  BY <1>2 DEF Put
<1> QED
  BY <1>1, <1>2

\* On the wire every position points forward.
LEMMA SentForward ==
  ASSUME NEW filters, NEW w \in Seq(Puts(filters)), w # <<>>, Block(w, 1)
  PROVE  /\ DOMAIN DbConds(w) = 1 .. Len(w) /\ Len(w) \in Nat \ {0}
         /\ \A k \in 1 .. Len(w) : DbConds(w)[k] = DbCond(w[k])
         /\ Forward(DbConds(w), Len(w))
<1>1. PICK N \in Nat \ {0} : N = Len(w) /\ DOMAIN w = 1 .. N
  BY LenProperties, EmptySeq
<1>2. DOMAIN DbConds(w) = 1 .. N /\ \A k \in 1 .. N : DbConds(w)[k] = DbCond(w[k])
  BY <1>1 DEF DbConds
<1>3. ASSUME NEW k \in 1 .. N
      PROVE  DbCond(w[k]).left = w[k].left /\ DbCond(w[k]).right = w[k].right
  <2>1. w[k] \in Puts(filters)
    BY <1>1, ElementOfSeq
  <2>2. PICK i \in DOMAIN filters, x, y \in Nat : w[k] = Put(filters[i], x, y)
    BY <2>1 DEF Puts
  <2>3. DbCond(w[k]).left = x /\ DbCond(w[k]).right = y
    BY <2>2, PutIs
  <2>4. w[k].left = x /\ w[k].right = y
    BY <2>2, PutLinks
  <2> QED
    BY <2>3, <2>4
<1>4. ASSUME NEW k \in 1 .. N
      PROVE  \/ w[k].left = 0 /\ w[k].right = 0
             \/ w[k].left + 1 \in k + 1 .. N /\ w[k].right + 1 \in k + 1 .. N
  <2>1. IF w[k].left = 0 THEN w[k].right = 0
        ELSE w[k].left \in 1 + k - 1 .. 1 + N - 2 /\ w[k].right \in 1 + k - 1 .. 1 + N - 2
    BY <1>1 DEF Block
  <2>2. CASE w[k].left # 0
    <3>1. PICK a, b \in k .. N - 1 : a = w[k].left /\ b = w[k].right
      BY <2>1, <2>2
    <3>2. a + 1 \in k + 1 .. N /\ b + 1 \in k + 1 .. N
      OBVIOUS
    <3> QED
      BY <3>1, <3>2
  <2> QED
    BY <2>1, <2>2
<1>5. Forward(DbConds(w), N)
  BY <1>2, <1>3, <1>4 DEF Forward
<1> QED
  BY <1>1, <1>2, <1>5

\* What is sent fits the schema as what was typed does, and is checked as
\* what was typed says.
LEMMA Meaning ==
  ASSUME NEW cond, Simple(cond)
  PROVE  LET h == Parsed(cond)
             cs == DbConds(Write(h.nodes, Last(h.tops)))
         IN /\ DbFits(cs) <=> Fits(cond)
            /\ Fits(cond) => \A row : Check(cs, row) = Word(Says(cond, row))
<1>1. Conditions(cond) /\ NoSingles(cond)
  BY DEF Simple
<1>2. PICK h : h = Parsed(cond)
  OBVIOUS
<1>3. PICK N \in Nat \ {0} : N = Len(cond)
  BY <1>1, ConditionsAre
<1>4. Heap(cond, N, h)
  BY <1>1, <1>2, <1>3, ParsedHeap
<1>5. Leaves(h) /\ \A k \in 1 .. Len(cond) : Described(cond, h, k)
  BY <1>1, <1>2, ParsedPlain
<1>6. HeapFacts(h)
  BY <1>4, <1>5, HeapFactsHold
<1>7. h.tops \in Seq(Nat) /\ Len(h.tops) = N
  BY <1>4 DEF Heap, Heaps
<1>8. PICK top \in DOMAIN h.nodes : top = h.tops[N] /\ top = Last(h.tops)
  <2>1. h.tops[N] \in 1 .. Len(h.nodes)
    BY <1>4 DEF Heap
  <2>2. Last(h.tops) = h.tops[N]
    BY <1>7 DEF Last
  <2> QED
    BY <1>6, <2>1, <2>2 DEF HeapFacts
<1>9. PICK wire : IsWire(wire, h.nodes) /\ Write(h.nodes, top) = wire[top][1]
  BY <1>6, WriteIsWire DEF HeapFacts
<1>10. PICK w : w = Write(h.nodes, top)
  OBVIOUS
<1>11. w \in Seq(Puts(h.nodes)) /\ w # <<>> /\ Block(w, 1)
  BY <1>3, <1>4, <1>8, <1>10, WriteBlock
<1>12. PICK cs : cs = DbConds(w)
  OBVIOUS
<1>13. PICK L \in Nat \ {0} : /\ L = Len(w) /\ DOMAIN cs = 1 .. L
                              /\ \A k \in 1 .. L : cs[k] = DbCond(w[k])
                              /\ Forward(cs, L)
  BY <1>11, <1>12, SentForward
<1>14. DbFits(cs) <=> AllFit(wire[top][1])
  BY <1>9, <1>10, <1>13 DEF DbFits, AllFit
<1>15. DbFits(cs) <=> Fits(cond)
  <2>1. PICK leaf : leaf = [n \in 1 .. Len(h.nodes) |-> OfSchema(h.nodes[n].field, h.nodes[n].value)]
    OBVIOUS
  <2>2. /\ leaf \in [1 .. Len(h.nodes) -> BOOLEAN]
        /\ \A n \in 1 .. Len(h.nodes) : leaf[n] <=> OfSchema(h.nodes[n].field, h.nodes[n].value)
    BY <2>1 DEF OfSchema
  <2>3. LeavesFit(h.nodes, leaf)
    BY <1>6, <2>2 DEF LeavesFit, HeapFacts
  <2>4. PICK v : Truths(h.nodes, leaf, TRUE, v)
    BY <1>4, <2>2, TruthsExist
  <2>5. AllFit(wire[top][1]) <=> v[top]
    BY <1>6, <1>9, <2>3, <2>4, WireFits
  <2>6. v[top] <=> Fits(cond)
    BY <1>3, <1>4, <1>5, <1>8, <2>3, <2>4, FitsTop
  <2> QED
    BY <1>14, <2>5, <2>6
<1>16. ASSUME Fits(cond), NEW row PROVE Check(cs, row) = Word(Says(cond, row))
  <2>1. PICK leaf : leaf = [n \in 1 .. Len(h.nodes) |-> row[h.nodes[n].field] = h.nodes[n].value]
    OBVIOUS
  <2>2. /\ leaf \in [1 .. Len(h.nodes) -> BOOLEAN]
        /\ \A n \in 1 .. Len(h.nodes) : leaf[n] <=> row[h.nodes[n].field] = h.nodes[n].value
    BY <2>1
  <2>3. LeavesHold(h.nodes, leaf, row)
    BY <1>6, <2>2 DEF LeavesHold, HeapFacts
  <2>4. PICK v : Truths(h.nodes, leaf, FALSE, v)
    BY <1>4, <2>2, TruthsExist
  <2>5. PICK check : IsCheck(check, cs, row) /\ Check(cs, row) = check[1]
    BY <1>13, CheckIsCheck
  <2>6. Within(wire[top][1], cs, 1)
    <3>1. \A i \in 1 .. L : 1 + i - 1 = i
      OBVIOUS
    <3> QED
      BY <1>9, <1>10, <1>13, <3>1 DEF Within
  <2>7. check[1] = Word(v[top])
    <3>1. DbFits(cs)
      BY <1>15, <1>16
    <3>2. Checking(h, wire, leaf, v, row, cs, check)
      BY <1>6, <1>9, <2>3, <2>4, <2>5, <3>1 DEF Checking
    <3>3. \A k \in DOMAIN h.nodes : \A size \in Nat \ {0} :
            Within(wire[k][size], cs, size) => check[size] = Word(v[k])
      BY <3>2, WireChecks
    <3>4. 1 \in Nat \ {0}
      OBVIOUS
    <3> QED
      BY <2>6, <3>3, <3>4
  <2>8. Says(cond, row) = v[top]
    BY <1>3, <1>4, <1>5, <1>8, <2>3, <2>4, SaysTop
  <2> QED
    BY <2>5, <2>7, <2>8
<1> QED
  BY <1>2, <1>8, <1>10, <1>12, <1>15, <1>16

\* What of a command is sent.
SentParent(t) == IF t.verb = "insert" THEN Atoi(t.parent) ELSE 0

SentList(t) == IF t.verb \in {"insert", "update"} THEN NewVals(t.list) ELSE <<>>

SentCond(t) == IF t.verb = "insert" THEN <<>> ELSE Write(Parsed(t.cond).nodes, Last(Parsed(t.cond).tops))

IsRow(r) == r = [parent |-> r.parent, fields |-> [k \in Fields |-> r.fields[k]]]

RowsFit == \A id \in DOMAIN rows : id \in Nat \ {0} /\ IsRow(rows[id])

\* At each stage it is the typed command that is under way.
PathInv ==
  /\ stage \in {"parsed", "sent", "received"} => text \in Texts
  /\ stage = "parsed" => query = Command(text)
  /\ stage = "sent" =>
       /\ request.verb = text.verb /\ request.schema = text.schema
       /\ request.parent = SentParent(text)
       /\ request.list = SentList(text) /\ request.cond = SentCond(text)
  /\ stage = "received" =>
       /\ args.verb = text.verb /\ args.schema = text.schema
       /\ args.parent = SentParent(text)
       /\ args.fields = MapOf(SentList(text)) /\ args.conds = DbConds(SentCond(text))
  /\ RowsFit

\* The initial state satisfies the invariant.
LEMMA InitPathInv == PathInit => PathInv
  BY DEF PathInit, PathInv, RowsFit

\* The parts of a parsed command.
LEMMA CommandIs ==
  ASSUME NEW t
  PROVE  /\ Command(t).verb = t.verb /\ Command(t).schema = t.schema
         /\ Command(t).parent = SentParent(t) /\ Command(t).list = SentList(t)
         /\ t.verb # "insert" => /\ Command(t).nodes = Parsed(t.cond).nodes
                                 /\ Command(t).cond = Last(Parsed(t.cond).tops)
<1>1. CASE t.verb = "insert"
  BY <1>1 DEF Command, SentParent, SentList
<1>2. CASE t.verb # "insert"
  BY <1>2 DEF Command, SentParent, SentList
<1> QED
  BY <1>1, <1>2

\* The request is that of the typed command.
LEMMA SendPathInv == PathInv /\ Send => PathInv'
<1> SUFFICES ASSUME PathInv, Send PROVE PathInv'
  OBVIOUS
<1>1. stage = "parsed" /\ stage' = "sent" /\ request' = Request /\ text \in Texts /\ query = Command(text)
  BY DEF Send, PathInv
<1>2. /\ Request.verb = text.verb /\ Request.schema = text.schema /\ Request.parent = SentParent(text)
      /\ Request.cond = SentCond(text)
  BY <1>1, CommandIs DEF Request, SentCond
<1>3. Request.list = SentList(text)
  <2>1. query.list = SentList(text)
    BY <1>1, CommandIs
  <2>2. Request.list = [i \in DOMAIN SentList(text) |-> SentList(text)[i]]
    BY <2>1 DEF Request, set_key_value
  <2>3. CASE text.verb \in {"insert", "update"}
    <3>1. SentList(text) = [i \in DOMAIN text.list |-> NewVal(text.list[i])]
      BY <2>3 DEF SentList, NewVals
    <3> QED
      BY <2>2, <3>1
  <2>4. CASE text.verb \notin {"insert", "update"}
    <3>1. SentList(text) = <<>>
      BY <2>4 DEF SentList
    <3> QED
      BY <2>2, <3>1
  <2> QED
    BY <2>3, <2>4
<1>4. RowsFit'
  BY DEF Send, PathInv, RowsFit, IsRow
<1> QED
  BY <1>1, <1>2, <1>3, <1>4 DEF Send, PathInv

\* An updated element has the parent it had and the fields of the schema.
LEMMA UpdatedRow ==
  ASSUME NEW r, IsRow(r)
  PROVE  /\ IsRow(Updated(r))
         /\ Updated(r) = [parent |-> r.parent,
                          fields |-> [k \in Fields |-> IF k \in DOMAIN args.fields THEN args.fields[k] ELSE r.fields[k]]]
<1>1. PICK f : f = [k \in Fields |-> IF k \in DOMAIN args.fields THEN args.fields[k] ELSE r.fields[k]]
  OBVIOUS
<1>2. Updated(r) = [r EXCEPT !.fields = f]
  BY <1>1 DEF Updated
<1>3. PICK p, g : r = [parent |-> p, fields |-> g] /\ p = r.parent
  BY DEF IsRow
<1>4. [r EXCEPT !.fields = f] = [parent |-> p, fields |-> f]
  BY <1>3
<1>5. f = [k \in Fields |-> f[k]]
  BY <1>1
<1> QED
  BY <1>1, <1>2, <1>3, <1>4, <1>5 DEF IsRow

\* An answer leaves elements of the schema behind.
LEMMA AnswerRowsFit == PathInv /\ Answer => RowsFit'
<1> SUFFICES ASSUME PathInv, Answer PROVE RowsFit'
  OBVIOUS
<1>1. RowsFit
  BY DEF PathInv
<1>2. CASE AnswerInsert
  <2>1. /\ args.verb = "insert" /\ Accepted /\ stage = "received"
        /\ \E id \in {IdStep * n : n \in 1 .. MaxRows} \ DOMAIN rows :
             rows' = [k \in DOMAIN rows \cup {id} |->
                        IF k = id THEN [parent |-> args.parent, fields |-> args.fields] ELSE rows[k]]
    BY <1>2 DEF AnswerInsert, Call
  <2>2. PICK id \in {IdStep * n : n \in 1 .. MaxRows} \ DOMAIN rows :
          rows' = [k \in DOMAIN rows \cup {id} |->
                     IF k = id THEN [parent |-> args.parent, fields |-> args.fields] ELSE rows[k]]
    BY <2>1
  <2>3. id \in Nat \ {0}
    <3>1. PICK n \in 1 .. MaxRows : id = IdStep * n
      BY <2>2
    <3>2. IdStep \in Nat \ {0} /\ (n = 1 \/ n = 2)
      BY PipelineAssumption
    <3>3. IdStep * 1 \in Nat \ {0} /\ IdStep * 2 \in Nat \ {0}
      BY <3>2
    <3> QED
      BY <3>1, <3>2, <3>3
  <2>4. PICK r : r = [parent |-> args.parent, fields |-> args.fields]
    OBVIOUS
  <2>5. IsRow(r)
    <3>1. DOMAIN args.fields = Fields
      BY <2>1 DEF Accepted, Whole
    <3>2. args.fields = MapOf(SentList(text))
      BY <2>1 DEF PathInv
    <3>3. args.fields = [k \in Fields |-> args.fields[k]]
      BY <3>1, <3>2 DEF MapOf
    <3> QED
      BY <2>4, <3>3 DEF IsRow
  <2>6. \A k \in DOMAIN rows' : IF k = id THEN rows'[k] = r ELSE k \in DOMAIN rows /\ rows'[k] = rows[k]
    BY <2>2, <2>4
  <2> QED
    BY <1>1, <2>3, <2>5, <2>6 DEF RowsFit, IsRow
<1>3. CASE rows' = rows
  BY <1>1, <1>3 DEF RowsFit, IsRow
<1>4. ASSUME NEW S, rows' = [id \in DOMAIN rows |-> IF id \in S THEN Updated(rows[id]) ELSE rows[id]]
      PROVE  RowsFit'
  <2>1. \A id \in DOMAIN rows : IsRow(rows[id]) /\ IsRow(Updated(rows[id]))
    BY <1>1, UpdatedRow DEF RowsFit
  <2>2. /\ DOMAIN rows' = DOMAIN rows
        /\ \A id \in DOMAIN rows : rows'[id] = Updated(rows[id]) \/ rows'[id] = rows[id]
    BY <1>4
  <2>3. \A id \in DOMAIN rows : IsRow(rows'[id])
    BY <2>1, <2>2
  <2> QED
    BY <1>1, <2>2, <2>3 DEF RowsFit, IsRow
<1>5. ASSUME NEW S, rows' = [id \in Stay(S) |-> rows[id]]
      PROVE  RowsFit'
  <2>1. Stay(S) \subseteq DOMAIN rows
    BY DEF Stay
  <2>2. DOMAIN rows' \subseteq DOMAIN rows /\ \A id \in DOMAIN rows' : rows'[id] = rows[id]
    BY <1>5, <2>1
  <2> QED
    BY <1>1, <2>2 DEF RowsFit, IsRow
<1>6. CASE AnswerFind
  BY <1>3, <1>6 DEF AnswerFind
<1>7. CASE AnswerUpdate
  BY <1>4, <1>7 DEF AnswerUpdate
<1>8. CASE AnswerDelete
  BY <1>5, <1>8 DEF AnswerDelete
<1>9. CASE AnswerNot
  BY <1>3, <1>9 DEF AnswerNot
<1>10. CASE AnswerThrow
  <2>1. PICK seen :
          rows' = CASE args.verb = "find" -> rows
                    [] args.verb = "update" ->
                         [id \in DOMAIN rows |-> IF id \in seen THEN Updated(rows[id]) ELSE rows[id]]
                    [] args.verb = "delete" -> [id \in Stay(seen) |-> rows[id]]
    BY <1>10 DEF AnswerThrow
  <2>2. args.verb \in {"find", "update", "delete"}
    BY <1>10 DEF AnswerThrow, Call
  <2>3. CASE args.verb = "find"
    BY <1>3, <2>1, <2>3
  <2>4. CASE args.verb = "update"
    <3>1. rows' = [id \in DOMAIN rows |-> IF id \in seen THEN Updated(rows[id]) ELSE rows[id]]
      BY <2>1, <2>4
    <3> QED
      BY <1>4, <3>1
  <2>5. CASE args.verb = "delete"
    <3>1. rows' = [id \in Stay(seen) |-> rows[id]]
      BY <2>1, <2>5
    <3> QED
      BY <1>5, <3>1
  <2> QED
    BY <2>2, <2>3, <2>4, <2>5
<1> QED
  BY <1>2, <1>6, <1>7, <1>8, <1>9, <1>10 DEF Answer

\* Every step keeps the invariant.
LEMMA NextPathInv == PathInv /\ [PathNext]_pathVars => PathInv'
<1> SUFFICES ASSUME PathInv, [PathNext]_pathVars PROVE PathInv'
  OBVIOUS
<1>0. ASSUME rows' = rows PROVE RowsFit'
  BY <1>0 DEF PathInv, RowsFit, IsRow
<1>1. CASE Parse
  <2>1. stage' = "parsed" /\ text' \in Texts /\ query' = Command(text') /\ rows' = rows
    BY <1>1 DEF Parse
  <2> QED
    BY <1>0, <2>1 DEF PathInv
<1>2. CASE Send
  BY <1>2, SendPathInv
<1>3. CASE Receive
  <2>1. /\ stage = "sent" /\ stage' = "received" /\ text' = text /\ rows' = rows
        /\ args' = [verb |-> request.verb, schema |-> request.schema, parent |-> request.parent,
                    fields |-> MapOf(request.list), conds |-> DbConds(request.cond)]
    BY <1>3 DEF Receive
  <2>2. /\ args'.verb = text.verb /\ args'.schema = text.schema /\ args'.parent = SentParent(text)
        /\ args'.fields = MapOf(SentList(text)) /\ args'.conds = DbConds(SentCond(text))
    BY <2>1 DEF PathInv
  <2> QED
    BY <1>0, <2>1, <2>2 DEF PathInv
<1>4. CASE Answer
  <2>1. stage' = "answered"
    BY <1>4 DEF Answer, AnswerInsert, AnswerFind, AnswerUpdate, AnswerDelete, AnswerNot, AnswerThrow, Call
  <2> QED
    BY <1>4, <2>1, AnswerRowsFit DEF PathInv
<1>5. CASE Prompt
  <2>1. stage' = "prompt" /\ rows' = rows
    BY <1>5 DEF Prompt
  <2> QED
    BY <1>0, <2>1 DEF PathInv
<1>6. CASE UNCHANGED pathVars
  BY <1>0, <1>6 DEF pathVars, PathInv
<1>7. CASE Full
  BY <1>6, <1>7 DEF Full
<1> QED
  BY <1>1, <1>2, <1>3, <1>4, <1>5, <1>6, <1>7 DEF PathNext

\* The pairs of a list of numbers of an int are sent as they are typed.
LEMMA ListSent ==
  ASSUME IntsFit, NEW t \in Texts
  PROVE  NewVals(t.list) = t.list
<1>1. t.list \in Seq([key : STRING, value : [type : STRING, val : Int]])
  BY PipelineAssumption
<1>2. PICK list : list = t.list
  OBVIOUS
<1>3. ASSUME NEW i \in DOMAIN list PROVE NewVal(list[i]) = list[i]
  <2>1. list[i] \in [key : STRING, value : [type : STRING, val : Int]]
    <3>1. PICK Pairs : Pairs = [key : STRING, value : [type : STRING, val : Int]]
      OBVIOUS
    <3>2. list \in Seq(Pairs)
      BY <1>1, <1>2, <3>1
    <3>3. i \in 1 .. Len(list)
      BY <1>3, <3>2, LenProperties
    <3> QED
      BY <3>1, <3>2, <3>3, ElementOfSeq
  <2>2. PICK p \in [key : STRING, value : [type : STRING, val : Int]] : p = list[i]
    BY <2>1
  <2>3. IntFits(p.value)
    BY <1>2, <1>3, <2>2 DEF IntsFit
  <2>4. Literal(p.value) = p.value
    BY <2>3, LiteralFits
  <2>5. NewVal(p) = p
    BY <2>4 DEF NewVal
  <2> QED
    BY <2>2, <2>5
<1>4. NewVals(list) = [i \in DOMAIN list |-> list[i]]
  BY <1>3 DEF NewVals
<1>5. list = [i \in DOMAIN list |-> list[i]]
  BY <1>1, <1>2
<1> QED
  BY <1>2, <1>4, <1>5

\* Of the pairs with a key the last stays.
LEMMA LastStays ==
  ASSUME text.list \in Seq([key : STRING, value : [type : STRING, val : Int]])
  PROVE  MapOf(text.list) = [k \in TypedKeys |-> TypedLast(k)]
<1>1. PICK list : list = text.list
  OBVIOUS
<1>2. PICK N \in Nat : N = Len(list) /\ DOMAIN list = 1 .. N
  BY <1>1, LenProperties
<1>3. ASSUME NEW k \in TypedKeys
      PROVE  list[CHOOSE i \in DOMAIN list : list[i].key = k /\ \A j \in i + 1 .. Len(list) : list[j].key # k].value
             = TypedLast(k)
  <2>1. PICK places : places = {i \in DOMAIN list : list[i].key = k}
    OBVIOUS
  <2>2. places \subseteq 0 .. N /\ places # {}
    BY <1>1, <1>2, <2>1 DEF TypedKeys
  <2>3. PICK m \in places : \A i \in places : i <= m
    BY <2>2, Greatest
  <2>4. m \in DOMAIN list /\ list[m].key = k /\ \A j \in m + 1 .. Len(list) : list[j].key # k
    <3>1. \A j \in m + 1 .. N : j \in DOMAIN list /\ ~(j <= m)
      BY <1>2, <2>1
    <3> QED
      BY <1>2, <2>1, <2>3, <3>1
  <2>5. ASSUME NEW i \in DOMAIN list, list[i].key = k, \A j \in i + 1 .. Len(list) : list[j].key # k
        PROVE  i = m
    <3>1. i \in places /\ i <= m
      BY <2>1, <2>3, <2>5
    <3>2. CASE i < m
      <4>1. m \in i + 1 .. Len(list)
        BY <1>2, <2>4, <3>2
      <4> QED
        BY <2>4, <2>5, <4>1
    <3> QED
      BY <1>2, <2>4, <3>1, <3>2
  <2>6. (CHOOSE i \in DOMAIN list : list[i].key = k /\ \A j \in i + 1 .. Len(list) : list[j].key # k) = m
    <3> DEFINE P(i) == i \in DOMAIN list /\ list[i].key = k /\ \A j \in i + 1 .. Len(list) : list[j].key # k
    <3>1. P(m) /\ \A i : P(i) => i = m
      BY <2>4, <2>5
    <3>2. (CHOOSE i \in DOMAIN list : list[i].key = k /\ \A j \in i + 1 .. Len(list) : list[j].key # k)
          = CHOOSE i : P(i)
      BY Zenon
    <3> HIDE DEF P
    <3> QED
      BY <3>1, <3>2, Zenon
  <2>7. (CHOOSE i \in places : \A j \in places : j <= i) = m
    <3> DEFINE P(i) == i \in places /\ \A j \in places : j <= i
    <3>1. ASSUME NEW i, P(i) PROVE i = m
      <4>1. i \in 0 .. N /\ m \in 0 .. N /\ i <= m /\ m <= i
        BY <2>2, <2>3, <3>1
      <4> QED
        BY <4>1
    <3>2. (CHOOSE i \in places : \A j \in places : j <= i) = CHOOSE i : P(i)
      BY Zenon
    <3>3. P(m)
      BY <2>3
    <3> HIDE DEF P
    <3> QED
      BY <3>1, <3>2, <3>3, Zenon
  <2>8. TypedLast(k) = list[CHOOSE i \in places : \A j \in places : j <= i].value
    BY <1>1, <2>1, Zenon DEF TypedLast
  <2> QED
    BY <2>6, <2>7, <2>8, Zenon
<1>4. TypedKeys = {list[i].key : i \in DOMAIN list}
  BY <1>1 DEF TypedKeys
<1>5. MapOf(list) = [k \in TypedKeys |->
        list[CHOOSE i \in DOMAIN list : list[i].key = k /\ \A j \in i + 1 .. Len(list) : list[j].key # k].value]
  BY <1>4, Zenon DEF MapOf
<1> DEFINE e(k) ==
      list[CHOOSE i \in DOMAIN list : list[i].key = k /\ \A j \in i + 1 .. Len(list) : list[j].key # k].value
<1>6. MapOf(list) = [k \in TypedKeys |-> e(k)]
  BY <1>5, Zenon
<1>7. \A k \in TypedKeys : e(k) = TypedLast(k)
  BY <1>3, Zenon
<1> HIDE DEF e
<1>8. [k \in TypedKeys |-> e(k)] = [k \in TypedKeys |-> TypedLast(k)]
  BY <1>7
<1> QED
  BY <1>1, <1>6, <1>8

\* What the Database gets has the values as they were typed.
LEMMA Received ==
  ASSUME IntsFit, OnlyEqualities, PathInv, stage = "received", Plain
  PROVE  /\ text \in Texts /\ args.verb = text.verb /\ args.schema = text.schema
         /\ text.verb \in {"insert", "update"} => args.fields = [k \in TypedKeys |-> TypedLast(k)]
         /\ text.verb = "insert" => args.parent = text.parent /\ args.conds = <<>>
         /\ text.verb # "insert" =>
              /\ DbFits(args.conds) <=> Fits(text.cond)
              /\ Fits(text.cond) => \A row : Check(args.conds, row) = Word(Says(text.cond, row))
<1>1. /\ text \in Texts /\ args.verb = text.verb /\ args.schema = text.schema
      /\ args.parent = SentParent(text)
      /\ args.fields = MapOf(SentList(text)) /\ args.conds = DbConds(SentCond(text))
  BY DEF PathInv
<1>2. ASSUME text.verb \in {"insert", "update"}
      PROVE  args.fields = [k \in TypedKeys |-> TypedLast(k)]
  <2>1. SentList(text) = NewVals(text.list)
    BY <1>2 DEF SentList
  <2>2. NewVals(text.list) = text.list
    BY <1>1, ListSent
  <2>3. text.list \in Seq([key : STRING, value : [type : STRING, val : Int]])
    BY <1>1, PipelineAssumption
  <2> QED
    BY <1>1, <2>1, <2>2, <2>3, LastStays
<1>3. ASSUME text.verb = "insert"
      PROVE  args.parent = text.parent /\ args.conds = <<>>
  <2>1. args.parent = text.parent
    <3>1. text.parent \in -Half .. Half - 1
      BY <1>1, <1>3 DEF IntsFit
    <3>2. args.parent = Atoi(text.parent)
      BY <1>1, <1>3 DEF SentParent
    <3> QED
      BY <3>1, <3>2, AtoiFits
  <2>2. args.conds = DbConds(<<>>)
    BY <1>1, <1>3 DEF SentCond
  <2>3. DbConds(<<>>) = <<>>
    BY DEF DbConds
  <2> QED
    BY <2>1, <2>2, <2>3
<1>4. ASSUME text.verb # "insert"
      PROVE  /\ DbFits(args.conds) <=> Fits(text.cond)
             /\ Fits(text.cond) => \A row : Check(args.conds, row) = Word(Says(text.cond, row))
  <2>1. Simple(text.cond)
    <3>1. Conditions(text.cond)
      BY <1>1, <1>4, PipelineAssumption
    <3>2. NoSingles(text.cond)
      BY <1>4 DEF Plain, NoSingles
    <3>3. \A k \in DOMAIN text.cond : text.cond[k].is # "comp"
      BY <1>1, <1>4 DEF OnlyEqualities
    <3>4. \A k \in DOMAIN text.cond : IsList(text.cond[k]) \/ IntFits(text.cond[k].value)
      BY <1>1, <1>4 DEF IntsFit
    <3> QED
      BY <3>1, <3>2, <3>3, <3>4 DEF Simple
  <2>2. args.conds = DbConds(Write(Parsed(text.cond).nodes, Last(Parsed(text.cond).tops)))
    BY <1>1, <1>4 DEF SentCond
  <2> QED
    BY <2>1, <2>2, Meaning
<1> QED
  BY <1>1, <1>2, <1>3, <1>4

\* The Database accepts a command if and only if it can be carried out.
LEMMA AcceptedIsSensible ==
  ASSUME IntsFit, OnlyEqualities, PathInv, stage = "received", Plain
  PROVE  Accepted <=> Sensible
<1>1. /\ text \in Texts /\ args.verb = text.verb /\ args.schema = text.schema
      /\ text.verb \in {"insert", "find", "update", "delete"}
  BY Received, PipelineAssumption
<1>2. 0 \notin DOMAIN rows
  BY DEF PathInv, RowsFit
<1> DEFINE fits == \A k \in TypedKeys : k \in Fields /\ TypedLast(k).type = Schema[k]
           below == text.parent \in IF DOMAIN rows = {} THEN {0} ELSE DOMAIN rows
<1>3. CASE text.verb = "insert"
  <2>1. /\ args.fields = [k \in TypedKeys |-> TypedLast(k)]
        /\ args.parent = text.parent /\ args.conds = <<>>
    BY <1>3, Received
  <2>2. Whole(args.fields) <=> TypedKeys = Fields /\ fits
    BY <2>1 DEF Whole, OfSchema
  <2>3. (IF args.parent = 0 THEN DOMAIN rows = {} ELSE args.parent \in DOMAIN rows) <=> below
    BY <1>2, <2>1
  <2>4. DOMAIN args.conds = {}
    BY <2>1
  <2>5. Accepted <=> text.schema = "SCHEMA" /\ TypedKeys = Fields /\ fits /\ below
    <3> HIDE DEF fits, below
    <3> QED
      BY <1>1, <1>3, <2>2, <2>3, <2>4 DEF Accepted
  <2>6. Sensible <=> text.schema = "SCHEMA" /\ fits /\ TypedKeys = Fields /\ below
    BY <1>3 DEF Sensible
  <2> QED
    BY <2>5, <2>6
<1>4. CASE text.verb # "insert"
  <2>1. DbFits(args.conds) <=> Fits(text.cond)
    BY <1>4, Received
  <2>2. DbFits(args.conds) <=>
          \A k \in DOMAIN args.conds :
            args.conds[k].op \in {"AND", "OR"} \/ OfSchema(args.conds[k].field, args.conds[k].value)
    BY DEF DbFits, FitsAt
  <2>3. CASE text.verb = "update"
    <3>1. args.fields = [k \in TypedKeys |-> TypedLast(k)]
      BY <2>3, Received
    <3>2. (\A k \in DOMAIN args.fields : OfSchema(k, args.fields[k])) <=> fits
      BY <3>1 DEF OfSchema
    <3>3. Accepted <=> text.schema = "SCHEMA" /\ Fits(text.cond) /\ fits
      <4> HIDE DEF fits
      <4> QED
        BY <1>1, <2>1, <2>2, <2>3, <3>2 DEF Accepted
    <3>4. Sensible <=> text.schema = "SCHEMA" /\ fits /\ Fits(text.cond)
      BY <2>3 DEF Sensible
    <3> QED
      BY <3>3, <3>4
  <2>4. CASE text.verb # "update"
    <3>1. Accepted <=> text.schema = "SCHEMA" /\ Fits(text.cond)
      BY <1>1, <1>4, <2>1, <2>2, <2>4 DEF Accepted
    <3>2. Sensible <=> text.schema = "SCHEMA" /\ Fits(text.cond)
      BY <1>4, <2>4 DEF Sensible
    <3> QED
      BY <3>1, <3>2
  <2> QED
    BY <2>3, <2>4
<1> QED
  BY <1>3, <1>4

\* No condition of an accepted command throws, and those elements are selected
\* that the typed condition describes.
LEMMA SelectedAsMeant ==
  ASSUME IntsFit, OnlyEqualities, PathInv, stage = "received", Plain, Accepted, args.verb # "insert"
  PROVE  Said("throw") = {} /\ Said("yes") = Meant
<1>1. args.verb = text.verb /\ Sensible
  BY Received, AcceptedIsSensible
<1>2. Fits(text.cond)
  BY <1>1 DEF Sensible
<1>3. \A row : Check(args.conds, row) = Word(Says(text.cond, row))
  BY <1>1, <1>2, Received
<1>4. ASSUME NEW id \in DOMAIN rows
      PROVE  /\ Check(args.conds, rows[id].fields) # "throw"
             /\ Check(args.conds, rows[id].fields) = "yes" <=> Says(text.cond, rows[id].fields)
  <2>1. Check(args.conds, rows[id].fields) = Word(Says(text.cond, rows[id].fields))
    BY <1>3
  <2> QED
    BY <2>1 DEF Word
<1> QED
  BY <1>4 DEF Said, Meant

\* A deletion removes a selected element if and only if it removes all below it.
LEMMA Removed ==
  ASSUME NEW S, S \subseteq DOMAIN rows, NEW id \in DOMAIN rows
  PROVE  id \notin Stay(S) <=>
           id \in S /\ \A k \in DOMAIN rows : rows[k].parent = id => k \notin Stay(S)
<1> DEFINE Closed(T) == \A k \in DOMAIN rows : rows[k].parent \in T => k \in T
<1> DEFINE Gone == UNION {T \in SUBSET S : Closed(T)}
<1>1. Stay(S) = DOMAIN rows \ Gone
  BY DEF Stay
<1>2. Gone \subseteq S
  OBVIOUS
<1>3. \A x : x \in Gone <=> \E T \in SUBSET S : Closed(T) /\ x \in T
  OBVIOUS
<1>4. Closed(Gone)
  <2>1. SUFFICES ASSUME NEW k \in DOMAIN rows, rows[k].parent \in Gone PROVE k \in Gone
    OBVIOUS
  <2>2. PICK T \in SUBSET S : Closed(T) /\ rows[k].parent \in T
    BY <1>3, <2>1
  <2> QED
    BY <1>3, <2>2
<1>5. ASSUME id \in S, \A k \in DOMAIN rows : rows[k].parent = id => k \in Gone
      PROVE  id \in Gone
  <2>1. PICK T : T = Gone \cup {id}
    OBVIOUS
  <2>2. T \in SUBSET S
    BY <1>2, <1>5, <2>1
  <2>3. Closed(T)
    BY <1>4, <1>5, <2>1
  <2> QED
    BY <1>3, <2>1, <2>2, <2>3
<1>6. id \in Gone <=> id \in S /\ \A k \in DOMAIN rows : rows[k].parent = id => k \in Gone
  BY <1>2, <1>4, <1>5
<1> HIDE DEF Gone
<1> QED
  BY <1>1, <1>6

\* Whether the command can be carried out, as the value the response holds.
SensibleIs(b) == Sensible = b

\* A conjunction has one of the two values.
LEMMA SensibleValue == (Sensible => SensibleIs(TRUE)) /\ (~Sensible => SensibleIs(FALSE))
  BY Zenon DEF SensibleIs, Sensible

\* The elements of an answer to find.
Shown == {[id |-> id, fields |-> rows[id].fields] : id \in Meant}

\* What the steps of an answer do, said of the typed command.
Answered ==
  /\ stage = "received" /\ text \in Texts
  /\ \/ ~Sensible /\ rows' = rows /\ response' = NoResponse
     \/ /\ Sensible /\ text.verb = "insert"
        /\ \E id \in {IdStep * n : n \in 1 .. MaxRows} \ DOMAIN rows :
             /\ rows' = [k \in DOMAIN rows \cup {id} |->
                  IF k = id THEN [parent |-> text.parent, fields |-> [f \in TypedKeys |-> TypedLast(f)]]
                  ELSE rows[k]]
             /\ response' = [ok |-> TRUE, id |-> id, elements |-> {}]
     \/ /\ Sensible /\ text.verb = "find" /\ rows' = rows
        /\ response' = [ok |-> TRUE, id |-> 0, elements |-> Shown]
     \/ /\ Sensible /\ text.verb = "update"
        /\ args.fields = [k \in TypedKeys |-> TypedLast(k)]
        /\ rows' = [id \in DOMAIN rows |-> IF id \in Meant THEN Updated(rows[id]) ELSE rows[id]]
        /\ response' = [ok |-> TRUE, id |-> 0, elements |-> {}]
     \/ /\ Sensible /\ text.verb = "delete"
        /\ rows' = [id \in Stay(Meant) |-> rows[id]]
        /\ response' = [ok |-> TRUE, id |-> 0, elements |-> {}]

\* An answer to a plain command is one of these.
LEMMA AnswerIs ==
  ASSUME IntsFit, OnlyEqualities, PathInv, Plain, Answer
  PROVE  Answered
<1>1. stage = "received"
  BY DEF Answer, AnswerInsert, AnswerFind, AnswerUpdate, AnswerDelete, AnswerNot, AnswerThrow, Call
<1>2. text \in Texts /\ args.verb = text.verb
  BY <1>1, Received
<1>3. Accepted <=> Sensible
  BY <1>1, AcceptedIsSensible
<1>4. ASSUME Accepted, args.verb # "insert" PROVE Said("throw") = {} /\ Said("yes") = Meant
  BY <1>1, <1>4, SelectedAsMeant
<1>5. text.verb \in {"insert", "update"} => args.fields = [k \in TypedKeys |-> TypedLast(k)]
  BY <1>1, Received
<1>6. CASE AnswerInsert
  <2>1. args.verb = "insert" /\ Accepted
    BY <1>6 DEF AnswerInsert, Call
  <2>2. args.parent = text.parent /\ args.fields = [k \in TypedKeys |-> TypedLast(k)]
    BY <1>1, <1>2, <2>1, Received
  <2>3. PICK id \in {IdStep * n : n \in 1 .. MaxRows} \ DOMAIN rows :
          /\ rows' = [k \in DOMAIN rows \cup {id} |->
                        IF k = id THEN [parent |-> args.parent, fields |-> args.fields] ELSE rows[k]]
          /\ response' = [ok |-> TRUE, id |-> id, elements |-> {}]
    BY <1>6 DEF AnswerInsert
  <2>4. rows' = [k \in DOMAIN rows \cup {id} |->
                  IF k = id THEN [parent |-> text.parent, fields |-> [f \in TypedKeys |-> TypedLast(f)]]
                  ELSE rows[k]]
    BY <2>2, <2>3
  <2> QED
    BY <1>1, <1>2, <1>3, <2>1, <2>3, <2>4 DEF Answered
<1>7. CASE AnswerFind
  <2>1. args.verb = "find" /\ Accepted
    BY <1>7 DEF AnswerFind, Call
  <2>2. Said("yes") = Meant
    BY <1>4, <2>1
  <2> QED
    BY <1>1, <1>2, <1>3, <1>7, <2>1, <2>2 DEF AnswerFind, Answered, Shown
<1>8. CASE AnswerUpdate
  <2>1. args.verb = "update" /\ Accepted
    BY <1>8 DEF AnswerUpdate, Call
  <2>2. Said("yes") = Meant
    BY <1>4, <2>1
  <2> QED
    BY <1>1, <1>2, <1>3, <1>5, <1>8, <2>1, <2>2 DEF AnswerUpdate, Answered
<1>9. CASE AnswerDelete
  <2>1. args.verb = "delete" /\ Accepted
    BY <1>9 DEF AnswerDelete, Call
  <2>2. Said("yes") = Meant
    BY <1>4, <2>1
  <2> QED
    BY <1>1, <1>2, <1>3, <1>9, <2>1, <2>2 DEF AnswerDelete, Answered
<1>10. CASE AnswerNot
  BY <1>1, <1>2, <1>3, <1>10 DEF AnswerNot, Answered
<1>11. CASE AnswerThrow
  <2>1. Accepted /\ args.verb # "insert" /\ Said("throw") # {}
    BY <1>11 DEF AnswerThrow, Call
  <2> QED
    BY <1>4, <2>1
<1> QED
  BY <1>6, <1>7, <1>8, <1>9, <1>10, <1>11 DEF Answer

\* Only an answer makes the stage "answered".
LEMMA AnswerStep ==
  ASSUME PathNext, stage' = "answered", pathVars' # pathVars
  PROVE  Answer
<1>1. ~Parse
  BY DEF Parse
<1>2. ~Send
  BY DEF Send
<1>3. ~Receive
  BY DEF Receive
<1>4. ~Prompt
  BY DEF Prompt
<1>5. ~Full
  BY DEF Full
<1> QED
  BY <1>1, <1>2, <1>3, <1>4, <1>5 DEF PathNext

\* A step to the prompt's answer prints what was asked for.
LEMMA RightStep ==
  ASSUME IntsFit, OnlyEqualities
  PROVE  PathInv /\ [PathNext]_pathVars => [stage' = "answered" /\ Plain => Right]_pathVars
<1> SUFFICES ASSUME PathInv, PathNext, stage' = "answered", Plain, pathVars' # pathVars PROVE Right
  OBVIOUS
<1>1. Answered
  BY AnswerStep, AnswerIs
<1>2. \/ ~Sensible /\ response' = NoResponse
      \/ Sensible /\ text.verb # "find" /\ \E id : response' = [ok |-> TRUE, id |-> id, elements |-> {}]
      \/ Sensible /\ response' = [ok |-> TRUE, id |-> 0, elements |-> Shown]
  BY <1>1, Zenon DEF Answered
<1>3. CASE ~Sensible /\ response' = NoResponse
  <2>1. SensibleIs(FALSE) /\ response'.ok = FALSE
    BY <1>3, SensibleValue DEF NoResponse
  <2> QED
    BY <1>3, <2>1 DEF Right, SensibleIs
<1>4. CASE Sensible /\ text.verb # "find" /\ \E id : response' = [ok |-> TRUE, id |-> id, elements |-> {}]
  <2>1. PICK id : response' = [ok |-> TRUE, id |-> id, elements |-> {}]
    BY <1>4
  <2>2. SensibleIs(TRUE) /\ response'.ok = TRUE
    BY <1>4, <2>1, SensibleValue
  <2> QED
    BY <1>4, <2>2 DEF Right, SensibleIs
<1>5. CASE Sensible /\ response' = [ok |-> TRUE, id |-> 0, elements |-> Shown]
  <2>1. SensibleIs(TRUE) /\ response'.ok = TRUE /\ response'.elements = Shown
    BY <1>5, SensibleValue
  <2>2. response'.ok = Sensible
    BY <2>1 DEF SensibleIs
  <2> QED
    BY <2>1, <2>2, Zenon DEF Right, Shown
<1> QED
  BY <1>2, <1>3, <1>4, <1>5, Zenon

\* The step DoneAsTyped asks for.
AsTyped ==
  CASE ~Sensible \/ text.verb = "find" -> rows' = rows
    [] Sensible /\ text.verb = "update" ->
         rows' = [id \in DOMAIN rows |->
           [parent |-> rows[id].parent,
            fields |-> [k \in Fields |->
              IF id \in Meant /\ k \in TypedKeys THEN TypedLast(k) ELSE rows[id].fields[k]]]]
    [] Sensible /\ text.verb = "insert" ->
         /\ response'.id \notin DOMAIN rows
         /\ rows' = [id \in DOMAIN rows \cup {response'.id} |->
              IF id # response'.id THEN rows[id]
              ELSE [parent |-> text.parent, fields |-> [k \in Fields |-> TypedLast(k)]]]
    [] Sensible /\ text.verb = "delete" ->
         /\ DOMAIN rows' \subseteq DOMAIN rows
         /\ \A id \in DOMAIN rows' : rows'[id] = rows[id]
         /\ \A id \in DOMAIN rows :
              id \notin DOMAIN rows' <=>
                id \in Meant /\ \A k \in DOMAIN rows : rows[k].parent = id => k \notin DOMAIN rows'

\* A step to the prompt's answer changes the elements as it was typed.
LEMMA AsTypedStep ==
  ASSUME IntsFit, OnlyEqualities
  PROVE  PathInv /\ [PathNext]_pathVars => [stage' = "answered" /\ Plain => AsTyped]_pathVars
<1> SUFFICES ASSUME PathInv, PathNext, stage' = "answered", Plain, pathVars' # pathVars PROVE AsTyped
  OBVIOUS
<1>1. Answered
  BY AnswerStep, AnswerIs
<1>2. CASE ~Sensible /\ rows' = rows
  BY <1>2 DEF AsTyped
<1>3. CASE Sensible /\ text.verb = "find" /\ rows' = rows
  BY <1>3 DEF AsTyped
<1>4. CASE /\ Sensible /\ text.verb = "insert"
           /\ \E id \in {IdStep * n : n \in 1 .. MaxRows} \ DOMAIN rows :
                /\ rows' = [k \in DOMAIN rows \cup {id} |->
                     IF k = id THEN [parent |-> text.parent, fields |-> [f \in TypedKeys |-> TypedLast(f)]]
                     ELSE rows[k]]
                /\ response' = [ok |-> TRUE, id |-> id, elements |-> {}]
  <2>1. PICK id : /\ id \notin DOMAIN rows
                  /\ rows' = [k \in DOMAIN rows \cup {id} |->
                       IF k = id THEN [parent |-> text.parent, fields |-> [f \in TypedKeys |-> TypedLast(f)]]
                       ELSE rows[k]]
                  /\ response'.id = id
    BY <1>4
  <2>2. TypedKeys = Fields
    BY <1>4 DEF Sensible
  <2>3. PICK row : row = [parent |-> text.parent, fields |-> [f \in Fields |-> TypedLast(f)]]
    OBVIOUS
  <2>4. rows' = [k \in DOMAIN rows \cup {id} |-> IF k # id THEN rows[k] ELSE row]
    BY <2>1, <2>2, <2>3
  <2>5. /\ response'.id \notin DOMAIN rows
        /\ rows' = [k \in DOMAIN rows \cup {response'.id} |->
              IF k # response'.id THEN rows[k]
              ELSE [parent |-> text.parent, fields |-> [f \in Fields |-> TypedLast(f)]]]
    BY <2>1, <2>3, <2>4
  <2> QED
    BY <1>4, <2>5 DEF AsTyped
<1>5. CASE /\ Sensible /\ text.verb = "update"
           /\ args.fields = [k \in TypedKeys |-> TypedLast(k)]
           /\ rows' = [id \in DOMAIN rows |-> IF id \in Meant THEN Updated(rows[id]) ELSE rows[id]]
  <2> DEFINE typed(id) ==
        [parent |-> rows[id].parent,
         fields |-> [k \in Fields |->
           IF id \in Meant /\ k \in TypedKeys THEN TypedLast(k) ELSE rows[id].fields[k]]]
  <2>1. ASSUME NEW id \in DOMAIN rows
        PROVE  (IF id \in Meant THEN Updated(rows[id]) ELSE rows[id]) = typed(id)
    <3>1. IsRow(rows[id])
      BY DEF PathInv, RowsFit
    <3>2. CASE id \in Meant
      <4>1. PICK g : g = [k \in Fields |-> IF k \in DOMAIN args.fields THEN args.fields[k] ELSE rows[id].fields[k]]
        OBVIOUS
      <4>2. Updated(rows[id]) = [parent |-> rows[id].parent, fields |-> g]
        BY <3>1, <4>1, UpdatedRow
      <4>3. DOMAIN args.fields = TypedKeys /\ \A k \in TypedKeys : args.fields[k] = TypedLast(k)
        BY <1>5
      <4>4. g = [k \in Fields |->
                   IF id \in Meant /\ k \in TypedKeys THEN TypedLast(k) ELSE rows[id].fields[k]]
        BY <3>2, <4>1, <4>3
      <4> QED
        BY <3>2, <4>2, <4>4
    <3>3. CASE id \notin Meant
      <4>1. typed(id) = [parent |-> rows[id].parent, fields |-> [k \in Fields |-> rows[id].fields[k]]]
        BY <3>3
      <4> QED
        BY <3>1, <3>3, <4>1 DEF IsRow
    <3> QED
      BY <3>2, <3>3
  <2>2. rows' = [id \in DOMAIN rows |-> typed(id)]
    <3> HIDE DEF typed
    <3> QED
      BY <1>5, <2>1
  <2> QED
    BY <1>5, <2>2 DEF AsTyped
<1>6. CASE Sensible /\ text.verb = "delete" /\ rows' = [id \in Stay(Meant) |-> rows[id]]
  <2>1. Meant \subseteq DOMAIN rows
    BY DEF Meant
  <2>2. DOMAIN rows' = Stay(Meant) /\ \A id \in DOMAIN rows' : rows'[id] = rows[id]
    BY <1>6
  <2>3. Stay(Meant) \subseteq DOMAIN rows
    BY DEF Stay
  <2>4. \A id \in DOMAIN rows :
          id \notin DOMAIN rows' <=>
            id \in Meant /\ \A k \in DOMAIN rows : rows[k].parent = id => k \notin DOMAIN rows'
    BY <2>1, <2>2, Removed
  <2> QED
    BY <1>6, <2>2, <2>3, <2>4 DEF AsTyped
<1> QED
  BY <1>1, <1>2, <1>3, <1>4, <1>5, <1>6 DEF Answered

\* On its way a command stays the one that was typed.
LEMMA PathInvHolds == PathSpec => []PathInv
  BY InitPathInv, NextPathInv, PTL DEF PathSpec

\* The elements printed for a find are those the typed conditions describe, and
\* True is printed for the commands that can be carried out and for no other:
\* whatever the fields of the one schema and however many conditions, fields and
\* commands there are, with at most two elements in the file, parents that are
\* elements or are refused, numbers of an int (lexer.l hands them to atoi) and
\* equality as the comparison (main.cpp of the client writes no other).
THEOREM AnswerAsAsked ==
  ASSUME IntsFit, OnlyEqualities
  PROVE  PathSpec => AnswerRight
<1>1. PathInv /\ [PathNext]_pathVars => [stage' = "answered" /\ Plain => Right]_pathVars
  BY RightStep
<1> QED
  BY <1>1, PathInvHolds, PTL DEF PathSpec, AnswerRight

\* Under the same conditions, one schema and at most two elements among them, a
\* command is done as it was typed: an insertion
\* adds one element, an update sets the typed fields where the conditions hold,
\* a deletion removes the described elements with none left below, a command
\* that does not fit changes nothing, and no step of CheckConditionals throws
\* half way.
THEOREM EveryCommandDone ==
  ASSUME IntsFit, OnlyEqualities
  PROVE  PathSpec => DoneAsTyped
<1>1. PathInv /\ [PathNext]_pathVars => [stage' = "answered" /\ Plain => AsTyped]_pathVars
  BY AsTypedStep
<1>2. DoneAsTyped <=> [][stage' = "answered" /\ Plain => AsTyped]_pathVars
  BY DEF DoneAsTyped, AsTyped
<1> QED
  BY <1>1, <1>2, PathInvHolds, PTL DEF PathSpec
=============================================================================
