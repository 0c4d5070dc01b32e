---------------------------- MODULE SuppressProofs ----------------------------
(***************************************************************************)
(* What a marker covers, and what the editor's commands change of it: the  *)
(* proofs that Suppress satisfies its properties, for every text.          *)
(*                                                                         *)
(* The scanner's scopes are ranges of bytes it finds by walking; Silences  *)
(* says of a marker and a code token, with no walk, what that comes to.    *)
(* The documentation is compared with Silences, and Silences is what a     *)
(* command, which only puts tokens in, leaves alone.                       *)
(***************************************************************************)
EXTENDS Suppress, ReachabilityProofs, SequenceTheorems

-----------------------------------------------------------------------------
(* Texts, their lines, and the first of a set of positions *)

LEMMA Positions ==
  ASSUME NEW src, WellFormed(src)
  PROVE  Len(src) \in Nat /\ DOMAIN src = 1 .. Len(src) /\ Eof(src) = Len(src) + 1
<1> QED
  BY DEF WellFormed, Eof

LEMMA Kinds ==
  ASSUME NEW src, WellFormed(src), NEW i \in DOMAIN src
  PROVE  src[i].t \in {"code", "open", "close", "ws", "cr", "nl", "block", "comment"}
<1>1. src[i] \in Tokens
  BY DEF WellFormed
<1> QED
  BY <1>1 DEF Tokens

LEMMA MinOf ==
  ASSUME NEW S, S \subseteq Nat, S # {}
  PROVE  Min(S) \in S /\ \A y \in S : Min(S) <= y
<1>1. PICK x \in S : \A y \in S : x <= y
  BY SmallestNumber
<1> QED
  BY <1>1 DEF Min

LEMMA MaxOf ==
  ASSUME NEW n \in Nat, NEW S, S \subseteq 0 .. n, S # {}
  PROVE  Max(S) \in S /\ \A y \in S : y <= Max(S)
<1> DEFINE T == {n - x : x \in S}
<1>1. PICK t \in T : \A y \in T : t <= y
  <2>1. \A x \in S : n - x \in Nat
    OBVIOUS
  <2>2. T \subseteq Nat /\ T # {}
    BY <2>1
  <2> HIDE DEF T
  <2> QED
    BY <2>2, SmallestNumber
<1>2. PICK x \in S : t = n - x
  BY <1>1
<1>3. \A y \in S : y <= x
  BY <1>1, <1>2
<1> QED
  BY <1>2, <1>3 DEF Max

LEMMA FirstOfIs ==
  ASSUME NEW src, WellFormed(src), NEW hits, hits \subseteq 1 .. Len(src)
  PROVE  /\ FirstOf(src, hits) \in 1 .. Eof(src)
         /\ FirstOf(src, hits) # Eof(src) => FirstOf(src, hits) \in hits
         /\ \A y \in hits : FirstOf(src, hits) <= y
<1>1. Len(src) \in Nat /\ Eof(src) = Len(src) + 1
  BY Positions
<1>2. CASE hits = {}
  BY <1>1, <1>2 DEF FirstOf
<1>3. CASE hits # {}
  <2>1. hits \subseteq Nat
    BY <1>1
  <2>2. FirstOf(src, hits) = Min(hits)
    BY <1>3 DEF FirstOf
  <2>3. Min(hits) \in hits /\ \A y \in hits : Min(hits) <= y
    BY <2>1, <1>3, MinOf
  <2> DEFINE k == Min(hits)
  <2> HIDE DEF k
  <2>4. k \in 1 .. Len(src) /\ k \in hits /\ \A y \in hits : k <= y
    BY <2>3 DEF k
  <2>5. k \in 1 .. Len(src) + 1
    BY <2>4, <1>1
  <2> QED
    BY <1>1, <2>2, <2>4, <2>5 DEF k
<1> QED
  BY <1>2, <1>3

\* No newline from a to before b.
Same(src, a, b) == \A k \in a .. b - 1 : src[k].t # "nl"

LEMMA EndOfLine ==
  ASSUME NEW src, WellFormed(src), NEW i \in 1 .. Eof(src)
  PROVE  LET e == end_of_line(src, i)
         IN  e \in i .. Eof(src) /\ (e # Eof(src) => src[e].t = "nl") /\ Same(src, i, e)
<1> DEFINE hits == {j \in i .. Len(src) : src[j].t = "nl"}
           e == end_of_line(src, i)
<1>1. Len(src) \in Nat /\ Eof(src) = Len(src) + 1
  BY Positions
<1>2. e = FirstOf(src, hits)
  BY DEF end_of_line
<1>3. hits \subseteq 1 .. Len(src)
  BY <1>1
<1>4. /\ e \in 1 .. Eof(src)
      /\ e # Eof(src) => e \in hits
      /\ \A y \in hits : e <= y
  <2> HIDE DEF hits, e
  <2> QED
    BY <1>2, <1>3, FirstOfIs
<1> HIDE DEF e
<1>5. e \in i .. Eof(src) /\ (e # Eof(src) => src[e].t = "nl")
  BY <1>1, <1>4
<1>6. Same(src, i, e)
  BY <1>1, <1>4 DEF Same
<1> QED
  BY <1>5, <1>6 DEF e

LEMMA LineStart ==
  ASSUME NEW src, WellFormed(src), NEW i \in 1 .. Eof(src)
  PROVE  LET l == line_start(src, i)
         IN  l \in 1 .. i /\ Same(src, l, i) /\ (l # 1 => src[l - 1].t = "nl")
<1> DEFINE S == {0} \cup {j \in 1 .. i - 1 : src[j].t = "nl"}
           l == line_start(src, i)
<1>1. Len(src) \in Nat /\ Eof(src) = Len(src) + 1
  BY Positions
<1>2. l = Max(S) + 1
  BY DEF line_start
<1>3. S \subseteq 0 .. i - 1 /\ S # {} /\ i - 1 \in Nat
  BY <1>1
<1>4. Max(S) \in S /\ \A y \in S : y <= Max(S)
  <2> HIDE DEF S
  <2> QED
    BY <1>3, MaxOf
<1> HIDE DEF l
<1>5. l \in 1 .. i /\ (l # 1 => src[l - 1].t = "nl")
  BY <1>1, <1>2, <1>4
<1>6. Same(src, l, i)
  BY <1>1, <1>2, <1>4 DEF Same
<1> QED
  BY <1>5, <1>6 DEF l

\* Two positions are on one line when they are on the same side of every newline.
LEMMA SameStart ==
  ASSUME NEW src, WellFormed(src), NEW a \in 1 .. Eof(src), NEW b \in 1 .. Eof(src), a <= b
  PROVE  line_start(src, a) = line_start(src, b) <=> Same(src, a, b)
<1> DEFINE l == line_start(src, a)
           k == line_start(src, b)
<1>1. Len(src) \in Nat /\ Eof(src) = Len(src) + 1
  BY Positions
<1>2. l \in 1 .. a /\ Same(src, l, a) /\ (l # 1 => src[l - 1].t = "nl")
  BY LineStart
<1>3. k \in 1 .. b /\ Same(src, k, b) /\ (k # 1 => src[k - 1].t = "nl")
  BY LineStart
<1> HIDE DEF l, k
<1>4. ASSUME l = k PROVE Same(src, a, b)
  BY <1>1, <1>2, <1>3, <1>4 DEF Same
<1>5. ASSUME Same(src, a, b) PROVE l = k
  <2>1. ~(l < k)
    BY <1>1, <1>2, <1>3, <1>5 DEF Same
  <2>2. ~(k < l)
    BY <1>1, <1>2, <1>3, <1>5 DEF Same
  <2> QED
    BY <1>1, <1>2, <1>3, <2>1, <2>2
<1> QED
  BY <1>4, <1>5 DEF l, k

\* A position is at or after its line's start and no newline stands between.
LEMMA OnItsLine ==
  ASSUME NEW src, WellFormed(src), NEW a \in 1 .. Eof(src), NEW b \in 1 .. Eof(src), a <= b
  PROVE  line_start(src, b) <= a <=> Same(src, a, b)
<1> DEFINE k == line_start(src, b)
<1>1. Len(src) \in Nat /\ Eof(src) = Len(src) + 1
  BY Positions
<1>3. k \in 1 .. b /\ Same(src, k, b) /\ (k # 1 => src[k - 1].t = "nl")
  BY LineStart
<1> HIDE DEF k
<1>4. ASSUME k <= a PROVE Same(src, a, b)
  BY <1>1, <1>3, <1>4 DEF Same
<1>5. ASSUME Same(src, a, b) PROVE k <= a
  BY <1>1, <1>3, <1>5 DEF Same
<1> QED
  BY <1>4, <1>5 DEF k

-----------------------------------------------------------------------------
(* The walk to the next line of code *)

FirstInk(src, i) == FirstOf(src, {k \in i .. Len(src) : src[k].t # "ws"})

LEMMA InkIs ==
  ASSUME NEW src, WellFormed(src), NEW i \in 1 .. Eof(src)
  PROVE  LET j == FirstInk(src, i)
         IN  /\ j \in i .. Eof(src)
             /\ j # Eof(src) => src[j].t # "ws"
             /\ \A k \in i .. j - 1 : src[k].t = "ws"
<1> DEFINE hits == {k \in i .. Len(src) : src[k].t # "ws"}
           j == FirstInk(src, i)
<1>1. Len(src) \in Nat /\ Eof(src) = Len(src) + 1
  BY Positions
<1>2. j = FirstOf(src, hits)
  BY DEF FirstInk
<1>3. hits \subseteq 1 .. Len(src)
  BY <1>1
<1>4. /\ j \in 1 .. Eof(src)
      /\ j # Eof(src) => j \in hits
      /\ \A y \in hits : j <= y
  <2> HIDE DEF hits, j
  <2> QED
    BY <1>2, <1>3, FirstOfIs
<1> HIDE DEF j
<1>5. j \in i .. Eof(src) /\ (j # Eof(src) => src[j].t # "ws")
  BY <1>1, <1>4
<1>6. \A k \in i .. j - 1 : src[k].t = "ws"
  BY <1>1, <1>4
<1> QED
  BY <1>5, <1>6 DEF j

LEMMA PastIs ==
  ASSUME NEW src, WellFormed(src), NEW i \in 1 .. Eof(src)
  PROVE  /\ past(src, i) \in i .. Eof(src)
         /\ i # Eof(src) => past(src, i) = i + 1
         /\ i = Eof(src) => past(src, i) = i
<1> QED
  BY Positions DEF past

\* What one line of the walk comes to.
LineIs(src, f, i) ==
  LET j == FirstInk(src, i)
  IN f[i] = IF j = Eof(src) THEN [lo |-> j, hi |-> j]
            ELSE IF src[j].t \in {"nl", "block"} THEN f[j + 1]
            ELSE IF src[j].t = "comment" THEN f[past(src, end_of_line(src, j))]
            ELSE [lo |-> i, hi |-> end_of_line(src, j)]

LEMMA WalkToCode ==
  ASSUME NEW src, WellFormed(src), NEW from \in 1 .. Eof(src)
  PROVE  \E f : /\ next_code_line(src, from) = f[past(src, from)]
                /\ \A i \in 1 .. Eof(src) : LineIs(src, f, i)
<1> DEFINE D == 1 .. Eof(src)
           K == Eof(src)
           J(i) == FirstInk(src, i)
           stop == {i \in D : J(i) = Eof(src) \/ src[J(i)].t \notin {"nl", "block", "comment"}}
           base == [i \in D |-> IF J(i) = Eof(src) THEN [lo |-> J(i), hi |-> J(i)]
                                ELSE [lo |-> i, hi |-> end_of_line(src, J(i))]]
           nx == [i \in D |-> IF src[J(i)].t \in {"nl", "block"} THEN J(i) + 1
                              ELSE past(src, end_of_line(src, J(i)))]
           m == [i \in D |-> K - i]
           Is(f) == f = [i \in D |->
                           LET j == FirstOf(src, {k \in i .. Len(src) : src[k].t # "ws"})
                           IN IF j = Eof(src) THEN [lo |-> j, hi |-> j]
                              ELSE IF src[j].t \in {"nl", "block"} THEN f[j + 1]
                              ELSE IF src[j].t = "comment" THEN f[past(src, end_of_line(src, j))]
                              ELSE [lo |-> i, hi |-> end_of_line(src, j)]]
<1>1. Len(src) \in Nat /\ Eof(src) = Len(src) + 1
  BY Positions
<1>2. \A i \in D \ stop : nx[i] \in D /\ m[nx[i]] < m[i]
  <2> TAKE i \in D \ stop
  <2>1. J(i) \in i .. Eof(src) /\ J(i) # Eof(src)
    BY InkIs
  <2>2. i \in D /\ J(i) \in 1 .. Eof(src)
    BY <2>1, <1>1
  <2>3. end_of_line(src, J(i)) \in J(i) .. Eof(src) /\ (src[J(i)].t # "nl" => end_of_line(src, J(i)) # J(i))
    BY <2>1, <2>2, EndOfLine
  <2>4. src[J(i)].t # "nl" => past(src, end_of_line(src, J(i))) \in J(i) + 1 .. Eof(src)
    BY <1>1, <2>2, <2>3, PastIs
  <2>5. nx[i] \in J(i) + 1 .. Eof(src)
    BY <2>1, <2>4, <1>1
  <2> HIDE DEF nx, J
  <2> QED
    BY <2>1, <2>5, <1>1
<1>3. m \in [D -> 0 .. K] /\ K \in Nat
  BY <1>1
<1>4. PICK f : LeadsTo(f, D, stop, base, nx)
  <2> HIDE DEF stop, base, nx, m, D, K
  <2> QED
    BY <1>2, <1>3, WalkExists
<1>5. Is(f)
  <2>1. \A i \in D : f[i] = IF J(i) = Eof(src) THEN [lo |-> J(i), hi |-> J(i)]
                            ELSE IF src[J(i)].t \in {"nl", "block"} THEN f[J(i) + 1]
                            ELSE IF src[J(i)].t = "comment" THEN f[past(src, end_of_line(src, J(i)))]
                            ELSE [lo |-> i, hi |-> end_of_line(src, J(i))]
    <3> HIDE DEF J
    <3> QED
      BY <1>4 DEF LeadsTo
  <2> HIDE DEF D
  <2> QED
    BY <1>4, <2>1 DEF LeadsTo, FirstInk
<1>6. Is(CHOOSE g : Is(g))
  <2> HIDE DEF Is
  <2> QED
    BY <1>5, Zenon
<1> DEFINE h == CHOOSE g : Is(g)
<1>7. next_code_line(src, from) = h[past(src, from)]
  BY DEF next_code_line
<1>8. \A i \in D : LineIs(src, h, i)
  <2>1. Is(h)
    BY <1>6
  <2> HIDE DEF h, D
  <2> QED
    BY <2>1 DEF LineIs, FirstInk
<1> HIDE DEF h
<1> QED
  BY <1>7, <1>8

\* The walk from i covers the code token at p: p is on the first line with
\* code, and no line that holds a bare carriage return comes before.
Finds(src, i, p) ==
  i <= p /\ \A q \in i .. p : (IsCode(src, q) => Same(src, q, p)) /\ ~BareCr(src, q)
Within(scope, p) == scope.lo <= p /\ p < scope.hi

\* Nothing but blanks and block comments stands before i on its line.
Fresh(src, i) == \A k \in 1 .. i - 1 : Same(src, k, i) => src[k].t \in {"ws", "block"}

LEMMA BareIs ==
  ASSUME NEW src, WellFormed(src), NEW i \in DOMAIN src
  PROVE  BareCr(src, i) <=> src[i].t = "cr" /\ Fresh(src, i)
<1>1. Len(src) \in Nat /\ Eof(src) = Len(src) + 1 /\ i \in 1 .. Len(src) /\ i \in 1 .. Eof(src)
  BY Positions
<1>2. line_start(src, i) \in 1 .. i
  BY <1>1, LineStart
<1>3. \A k \in 1 .. i - 1 : line_start(src, i) <= k <=> Same(src, k, i)
  <2> TAKE k \in 1 .. i - 1
  <2>1. k \in 1 .. Eof(src) /\ k <= i
    BY <1>1
  <2> QED
    BY <1>1, <2>1, OnItsLine
<1>4. \A k : k \in line_start(src, i) .. i - 1 <=> k \in 1 .. i - 1 /\ line_start(src, i) <= k
  BY <1>1, <1>2
<1>5. (\A k \in line_start(src, i) .. i - 1 : src[k].t \in {"ws", "block"}) <=> Fresh(src, i)
  BY <1>3, <1>4 DEF Fresh
<1> QED
  BY <1>5 DEF BareCr

LEMMA FreshStart ==
  ASSUME NEW src, WellFormed(src), NEW i \in DOMAIN src, src[i].t = "nl"
  PROVE  Fresh(src, i + 1)
<1> QED
  BY Positions DEF Fresh, Same

LEMMA FreshOn ==
  ASSUME NEW src, WellFormed(src), NEW i \in 1 .. Eof(src), NEW j \in i .. Eof(src), Fresh(src, i),
         \A k \in i .. j - 1 : src[k].t \in {"ws", "block"}
  PROVE  Fresh(src, j)
<1>1. Len(src) \in Nat /\ Eof(src) = Len(src) + 1
  BY Positions
<1>2. ASSUME NEW k \in 1 .. j - 1, Same(src, k, j) PROVE src[k].t \in {"ws", "block"}
  <2>1. CASE k >= i
    BY <1>1, <2>1
  <2>2. CASE k < i
    <3>1. Same(src, k, i) /\ k \in 1 .. i - 1
      BY <1>1, <1>2, <2>2 DEF Same
    <3> QED
      BY <3>1 DEF Fresh
  <2> QED
    BY <1>1, <2>1, <2>2
<1> QED
  BY <1>2 DEF Fresh

\* Tokens that are neither code nor a bare carriage return are passed over.
LEMMA FindsOn ==
  ASSUME NEW src, WellFormed(src), NEW i \in 1 .. Eof(src), NEW j \in i .. Eof(src), NEW p \in DOMAIN src,
         IsCode(src, p),
         \A q \in i .. j - 1 : ~IsCode(src, q) /\ ~BareCr(src, q)
  PROVE  Finds(src, i, p) <=> Finds(src, j, p)
<1>1. Len(src) \in Nat /\ Eof(src) = Len(src) + 1 /\ p \in 1 .. Len(src)
  BY Positions
<1>2. i <= p <=> j <= p
  BY <1>1
<1>3. ASSUME Finds(src, i, p) PROVE Finds(src, j, p)
  BY <1>1, <1>2, <1>3 DEF Finds
<1>4. ASSUME Finds(src, j, p) PROVE Finds(src, i, p)
  <2>1. \A q \in i .. p : q \in j .. p \/ q \in i .. j - 1
    BY <1>1
  <2> QED
    BY <1>2, <1>4, <2>1 DEF Finds
<1> QED
  BY <1>3, <1>4

\* A comment stands at the end of its line.
LEMMA CommentEnds ==
  ASSUME NEW src, WellFormed(src), NEW m \in DOMAIN src, src[m].t = "comment"
  PROVE  LET e == end_of_line(src, m)
         IN  /\ e \in m + 1 .. Eof(src)
             /\ \A q \in m .. e - 1 : ~IsCode(src, q) /\ ~BareCr(src, q) /\ src[q].t # "nl"
             /\ e # Eof(src) => src[e].t = "nl"
<1> DEFINE e == end_of_line(src, m)
<1>1. Len(src) \in Nat /\ Eof(src) = Len(src) + 1 /\ m \in 1 .. Len(src) /\ m \in 1 .. Eof(src)
  BY Positions
<1>2. e \in m .. Eof(src) /\ (e # Eof(src) => src[e].t = "nl") /\ Same(src, m, e)
  BY <1>1, EndOfLine
<1> HIDE DEF e
<1>3. e # m
  BY <1>1, <1>2
<1>4. \A q \in m .. e - 1 : q = m \/ (q = m + 1 /\ src[q].t = "cr")
  <2>1. ASSUME NEW q \in m .. e - 1, q # m PROVE q = m + 1 /\ src[q].t = "cr"
    <3>1. m + 1 \in DOMAIN src /\ src[m + 1].t \in {"cr", "nl"}
      BY <1>1, <1>2, <2>1, Positions DEF WellFormed
    <3>2. src[m + 1].t = "cr"
      BY <1>1, <1>2, <2>1, <3>1 DEF Same
    <3>3. src[m + 2].t = "nl" /\ m + 1 < Len(src)
      BY <3>1, <3>2, <1>1 DEF WellFormed
    <3>4. ~(q >= m + 2)
      BY <1>1, <1>2, <2>1, <3>3 DEF Same
    <3> QED
      BY <1>1, <2>1, <3>2, <3>4
  <2> QED
    BY <2>1
<1>5. \A q \in m .. e - 1 : ~IsCode(src, q) /\ src[q].t # "nl"
  BY <1>4 DEF IsCode, Code
<1>6. \A q \in m .. e - 1 : ~BareCr(src, q)
  <2> TAKE q \in m .. e - 1
  <2>1. CASE q = m
    BY <2>1 DEF BareCr
  <2>2. CASE q = m + 1 /\ src[q].t = "cr"
    <3>1. q \in DOMAIN src /\ m \in 1 .. q - 1
      BY <1>1, <1>2, <2>2, Positions
    <3>2. Same(src, m, q)
      BY <1>1, <2>2 DEF Same
    <3>3. ~Fresh(src, q)
      BY <3>1, <3>2 DEF Fresh
    <3> QED
      BY <3>1, <3>3, BareIs
  <2> QED
    BY <1>4, <2>1, <2>2
<1> QED
  BY <1>1, <1>2, <1>3, <1>5, <1>6 DEF e

LEMMA FindsPast ==
  ASSUME NEW src, WellFormed(src), NEW m \in DOMAIN src, src[m].t = "comment",
         NEW p \in DOMAIN src, IsCode(src, p)
  PROVE  LET k == past(src, end_of_line(src, m))
         IN  /\ k \in m + 1 .. Eof(src)
             /\ Fresh(src, k) \/ k = Eof(src)
             /\ Finds(src, m, p) <=> Finds(src, k, p)
<1> DEFINE e == end_of_line(src, m)
           k == past(src, e)
<1>1. Len(src) \in Nat /\ Eof(src) = Len(src) + 1 /\ m \in 1 .. Len(src)
  BY Positions
<1>2. /\ e \in m + 1 .. Eof(src)
      /\ \A q \in m .. e - 1 : ~IsCode(src, q) /\ ~BareCr(src, q) /\ src[q].t # "nl"
      /\ e # Eof(src) => src[e].t = "nl"
  BY CommentEnds
<1> HIDE DEF e
<1>3. /\ k \in e .. Eof(src)
      /\ e # Eof(src) => k = e + 1
      /\ e = Eof(src) => k = e
  BY <1>1, <1>2, PastIs
<1>4. k \in m + 1 .. Eof(src) /\ (e # Eof(src) => Fresh(src, k))
  <2>1. ASSUME e # Eof(src) PROVE Fresh(src, e + 1)
    BY <1>1, <1>2, <2>1, FreshStart
  <2> QED
    BY <1>1, <1>2, <1>3, <2>1
<1>5. \A q \in m .. k - 1 : ~IsCode(src, q) /\ ~BareCr(src, q)
  <2> TAKE q \in m .. k - 1
  <2>1. CASE q \in m .. e - 1
    BY <1>2, <2>1
  <2>2. CASE q = e /\ e # Eof(src)
    BY <1>2, <2>2 DEF IsCode, Code, BareCr
  <2> QED
    BY <1>1, <1>2, <1>3, <2>1, <2>2
<1>6. Finds(src, m, p) <=> Finds(src, k, p)
  <2> HIDE DEF k
  <2>1. m \in 1 .. Eof(src) /\ k \in m .. Eof(src)
    BY <1>1, <1>4
  <2> QED
    BY <1>5, <2>1, FindsOn
<1> QED
  BY <1>3, <1>4, <1>6 DEF e

Right(src, f, i) ==
  \A p \in DOMAIN src : IsCode(src, p) => (Within(f[i], p) <=> Finds(src, i, p))

LEMMA WalkFinds ==
  ASSUME NEW src, WellFormed(src), NEW f, \A i \in 1 .. Eof(src) : LineIs(src, f, i)
  PROVE  \A i \in 1 .. Eof(src) : Fresh(src, i) \/ i = Eof(src) => Right(src, f, i)
<1> DEFINE T == {i \in 1 .. Eof(src) : (Fresh(src, i) \/ i = Eof(src)) /\ ~Right(src, f, i)}
<1>1. Len(src) \in Nat /\ Eof(src) = Len(src) + 1 /\ DOMAIN src = 1 .. Len(src)
  BY Positions
<1>2. SUFFICES ASSUME T # {} PROVE FALSE
  OBVIOUS
<1>3. PICK i \in T : \A y \in T : y <= i
  <2>1. T \subseteq 0 .. Eof(src) /\ Eof(src) \in Nat
    BY <1>1
  <2> HIDE DEF T
  <2> QED
    BY <1>2, <2>1, MaxOf
<1>4. i \in 1 .. Eof(src) /\ (Fresh(src, i) \/ i = Eof(src)) /\ ~Right(src, f, i)
  BY <1>3
<1>5. \A k \in i + 1 .. Eof(src) : Fresh(src, k) \/ k = Eof(src) => Right(src, f, k)
  BY <1>1, <1>3, <1>4
<1> HIDE DEF T
<1> DEFINE j == FirstInk(src, i)
<1>6. /\ j \in i .. Eof(src)
      /\ j # Eof(src) => src[j].t # "ws"
      /\ \A k \in i .. j - 1 : src[k].t = "ws"
  BY <1>4, InkIs
<1>7. LineIs(src, f, i)
  BY <1>4
<1>8. \A q \in i .. j - 1 : ~IsCode(src, q) /\ ~BareCr(src, q)
  BY <1>6 DEF IsCode, Code, BareCr
<1>9. ASSUME NEW p \in DOMAIN src, IsCode(src, p) PROVE Finds(src, i, p) <=> Finds(src, j, p)
  <2> HIDE DEF j
  <2> QED
    BY <1>4, <1>6, <1>8, <1>9, FindsOn
<1>10. CASE j = Eof(src)
  <2>1. f[i] = [lo |-> j, hi |-> j]
    BY <1>7, <1>10 DEF LineIs
  <2> HIDE DEF j
  <2>2. \A p \in DOMAIN src : ~Within(f[i], p) /\ ~Finds(src, j, p)
    BY <1>1, <1>10, <2>1 DEF Within, Finds
  <2> QED
    BY <1>4, <1>9, <2>2 DEF Right
<1>11. CASE j # Eof(src) /\ src[j].t \in {"nl", "block"}
  <2>1. f[i] = f[j + 1]
    BY <1>7, <1>11 DEF LineIs
  <2> HIDE DEF j
  <2>2. j \in DOMAIN src /\ j + 1 \in i + 1 .. Eof(src) /\ i # Eof(src)
    BY <1>1, <1>4, <1>6, <1>11
  <2>3. Fresh(src, j + 1)
    <3>1. CASE src[j].t = "nl"
      BY <2>2, <3>1, FreshStart
    <3>2. CASE src[j].t = "block"
      <4>1. \A k \in i .. (j + 1) - 1 : src[k].t \in {"ws", "block"}
        BY <1>1, <1>4, <1>6, <3>2
      <4>2. j + 1 \in i .. Eof(src)
        BY <1>1, <1>4, <2>2
      <4> QED
        BY <1>4, <2>2, <4>1, <4>2, FreshOn
    <3> QED
      BY <1>11, <3>1, <3>2
  <2>4. Right(src, f, j + 1)
    BY <1>5, <2>2, <2>3
  <2>5. ASSUME NEW p \in DOMAIN src, IsCode(src, p) PROVE Finds(src, j, p) <=> Finds(src, j + 1, p)
    <3>1. j \in 1 .. Eof(src) /\ j + 1 \in j .. Eof(src)
      BY <1>1, <1>4, <1>6, <2>2
    <3>2. \A q \in j .. (j + 1) - 1 : ~IsCode(src, q) /\ ~BareCr(src, q)
      <4> TAKE q \in j .. (j + 1) - 1
      <4>1. q = j
        BY <3>1, <1>1
      <4> QED
        BY <1>11, <4>1 DEF IsCode, Code, BareCr
    <3> QED
      BY <2>5, <3>1, <3>2, FindsOn
  <2> QED
    BY <1>4, <1>9, <2>1, <2>4, <2>5 DEF Right
<1>12. CASE j # Eof(src) /\ src[j].t = "comment"
  <2> DEFINE k == past(src, end_of_line(src, j))
  <2>1. f[i] = f[k]
    BY <1>7, <1>12 DEF LineIs
  <2> HIDE DEF j
  <2>2. j \in DOMAIN src
    BY <1>1, <1>4, <1>6, <1>12
  <2>3. ASSUME NEW p \in DOMAIN src, IsCode(src, p)
        PROVE  k \in j + 1 .. Eof(src) /\ (Fresh(src, k) \/ k = Eof(src)) /\ (Finds(src, j, p) <=> Finds(src, k, p))
    BY <1>12, <2>2, <2>3, FindsPast
  <2> HIDE DEF k
  <2>4. ASSUME NEW p \in DOMAIN src, IsCode(src, p) PROVE Within(f[i], p) <=> Finds(src, i, p)
    <3>1. k \in i + 1 .. Eof(src) /\ (Fresh(src, k) \/ k = Eof(src))
      BY <1>1, <1>4, <1>6, <2>3, <2>4
    <3>2. Right(src, f, k)
      BY <1>5, <3>1
    <3> QED
      BY <1>9, <2>1, <2>3, <2>4, <3>2 DEF Right
  <2> QED
    BY <1>4, <2>4 DEF Right
<1>13. CASE j # Eof(src) /\ (IsCode(src, j) \/ src[j].t = "cr")
  <2> DEFINE e == end_of_line(src, j)
  <2>1. f[i] = [lo |-> i, hi |-> e]
    BY <1>7, <1>13 DEF LineIs, IsCode, Code
  <2> HIDE DEF j
  <2>2. j \in DOMAIN src /\ j \in 1 .. Eof(src) /\ i # Eof(src)
    BY <1>1, <1>4, <1>6, <1>13
  <2>3. e \in j .. Eof(src) /\ (e # Eof(src) => src[e].t = "nl") /\ Same(src, j, e)
    BY <2>2, EndOfLine
  <2> HIDE DEF e
  <2>4. CASE IsCode(src, j)
    <3>1. ASSUME NEW p \in DOMAIN src, IsCode(src, p), Within(f[i], p) PROVE Finds(src, j, p)
      <4>1. j <= p /\ p < e
        <5>1. i <= p /\ p < e
          BY <2>1, <3>1 DEF Within
        <5>2. p \notin i .. j - 1
          BY <1>8, <3>1
        <5> QED
          BY <1>1, <1>4, <2>2, <5>1, <5>2
      <4>2. ASSUME NEW q \in j .. p PROVE Same(src, q, p)
        BY <1>1, <2>2, <2>3, <4>1 DEF Same
      <4>3. ASSUME NEW q \in j .. p PROVE ~BareCr(src, q)
        <5>1. CASE q = j
          BY <2>4, <5>1 DEF BareCr, IsCode, Code
        <5>2. CASE q # j
          <6>1. j \in 1 .. q - 1 /\ Same(src, j, q) /\ q \in DOMAIN src
            BY <1>1, <2>2, <2>3, <4>1, <5>2 DEF Same
          <6>2. ~Fresh(src, q)
            BY <2>4, <6>1 DEF Fresh, IsCode, Code
          <6> QED
            BY <6>1, <6>2, BareIs
        <5> QED
          BY <5>1, <5>2
      <4> QED
        BY <4>1, <4>2, <4>3 DEF Finds
    <3>2. ASSUME NEW p \in DOMAIN src, IsCode(src, p), Finds(src, j, p) PROVE Within(f[i], p)
      <4>1. j <= p /\ Same(src, j, p)
        BY <1>1, <2>2, <2>4, <3>2 DEF Finds
      <4>2. p < e
        <5>1. src[p].t # "nl"
          BY <3>2 DEF IsCode, Code
        <5> QED
          BY <1>1, <2>2, <2>3, <4>1, <5>1 DEF Same
      <4> QED
        BY <1>1, <1>4, <1>6, <2>1, <4>1, <4>2 DEF Within
    <3> QED
      BY <1>4, <1>9, <3>1, <3>2 DEF Right
  <2>5. CASE src[j].t = "cr"
    <3>1. src[j + 1].t = "nl" /\ j < Len(src)
      BY <2>2, <2>5 DEF WellFormed
    <3>2. e <= j + 1
      BY <1>1, <2>2, <2>3, <3>1 DEF Same
    <3>3. BareCr(src, j)
      <4>1. \A k \in i .. j - 1 : src[k].t \in {"ws", "block"}
        BY <1>6
      <4>2. Fresh(src, i)
        BY <1>4, <2>2
      <4>3. Fresh(src, j)
        BY <1>4, <1>6, <4>1, <4>2, FreshOn
      <4> QED
        BY <2>2, <2>5, <4>3, BareIs
    <3>4. ASSUME NEW p \in DOMAIN src, IsCode(src, p) PROVE ~Within(f[i], p) /\ ~Finds(src, j, p)
      <4>1. p # j
        BY <2>5, <3>4 DEF IsCode, Code
      <4>2. ~Finds(src, j, p)
        BY <1>1, <2>2, <3>3 DEF Finds
      <4>3. ~Within(f[i], p)
        <5>1. Within(f[i], p) => i <= p /\ p < e
          BY <2>1 DEF Within
        <5>2. p \notin i .. j - 1
          BY <1>8, <3>4
        <5> QED
          BY <1>1, <1>4, <2>2, <2>3, <3>2, <4>1, <5>1, <5>2
      <4> QED
        BY <4>2, <4>3
    <3> QED
      BY <1>4, <1>9, <3>4 DEF Right
  <2> QED
    BY <1>13, <2>4, <2>5
<1> QED
  <2>1. j # Eof(src) => src[j].t \in {"code", "open", "close", "ws", "cr", "nl", "block", "comment"}
    <3> HIDE DEF j
    <3>1. j # Eof(src) => j \in DOMAIN src
      BY <1>1, <1>4, <1>6
    <3> QED
      BY <3>1, Kinds
  <2> QED
    BY <1>6, <1>10, <1>11, <1>12, <1>13, <2>1 DEF IsCode, Code

LEMMA NextLineFinds ==
  ASSUME NEW src, WellFormed(src), NEW m \in DOMAIN src, src[m].t = "comment",
         NEW p \in DOMAIN src, IsCode(src, p)
  PROVE  Within(next_code_line(src, end_of_line(src, m)), p) <=> Finds(src, m, p)
<1> DEFINE e == end_of_line(src, m)
           k == past(src, e)
<1>1. Len(src) \in Nat /\ Eof(src) = Len(src) + 1 /\ m \in 1 .. Len(src)
  BY Positions
<1>2. e \in 1 .. Eof(src)
  BY <1>1, CommentEnds
<1>3. /\ k \in m + 1 .. Eof(src)
      /\ Fresh(src, k) \/ k = Eof(src)
      /\ Finds(src, m, p) <=> Finds(src, k, p)
  BY FindsPast
<1>4. PICK f : /\ next_code_line(src, e) = f[k]
               /\ \A i \in 1 .. Eof(src) : LineIs(src, f, i)
  <2> HIDE DEF e
  <2> QED
    BY <1>2, WalkToCode
<1>5. k \in 1 .. Eof(src)
  BY <1>1, <1>3
<1> HIDE DEF e, k
<1>6. Right(src, f, k)
  BY <1>3, <1>4, <1>5, WalkFinds
<1> QED
  BY <1>3, <1>4, <1>6 DEF Right, e

-----------------------------------------------------------------------------
(* Braces *)

Count(src, c, a, b) == Cardinality({k \in a .. b : src[k].t = c})
Depth(src, a, b) == Count(src, "open", a, b) - Count(src, "close", a, b)
Inside(src, a, p) == \A k \in a .. p - 1 : Depth(src, a, k) > 0

LEMMA CountIs ==
  ASSUME NEW src, NEW c, NEW a \in Int, NEW b \in Int
  PROVE  IsFiniteSet({k \in a .. b : src[k].t = c}) /\ Count(src, c, a, b) \in Nat
<1>1. IsFiniteSet(a .. b)
  BY FS_Interval
<1>2. IsFiniteSet({k \in a .. b : src[k].t = c})
  BY <1>1, FS_Subset
<1> QED
  BY <1>2, FS_CardinalityType DEF Count

LEMMA CountOn ==
  ASSUME NEW src, NEW c, NEW a \in Int, NEW b \in Int, a <= b
  PROVE  Count(src, c, a, b) = Count(src, c, a, b - 1) + (IF src[b].t = c THEN 1 ELSE 0)
<1> DEFINE S == {k \in a .. b - 1 : src[k].t = c}
<1>1. IsFiniteSet(S) /\ Count(src, c, a, b - 1) \in Nat
  BY CountIs
<1>2. CASE src[b].t = c
  <2>1. {k \in a .. b : src[k].t = c} = S \cup {b}
    BY <1>2
  <2>2. b \notin S
    OBVIOUS
  <2> QED
    BY <1>1, <1>2, <2>1, <2>2, FS_AddElement DEF Count
<1>3. CASE src[b].t # c
  <2>1. {k \in a .. b : src[k].t = c} = S
    BY <1>3
  <2>2. Count(src, c, a, b) = Count(src, c, a, b - 1)
    BY <2>1 DEF Count
  <2> HIDE DEF S
  <2> QED
    BY <1>1, <1>3, <2>2
<1> QED
  BY <1>2, <1>3

LEMMA CountNone ==
  ASSUME NEW src, NEW c, NEW a \in Int
  PROVE  Count(src, c, a, a - 1) = 0
<1>1. {k \in a .. a - 1 : src[k].t = c} = {}
  OBVIOUS
<1> QED
  BY <1>1, FS_EmptySet DEF Count

LEMMA DepthOn ==
  ASSUME NEW src, NEW a \in Int, NEW b \in Int, a < b
  PROVE  /\ Depth(src, a, b) \in Int /\ Depth(src, a, b - 1) \in Int
         /\ Depth(src, a, b) >= Depth(src, a, b - 1) - 1
<1> b - 1 \in Int
  OBVIOUS
<1>1. /\ Count(src, "open", a, b) \in Nat /\ Count(src, "close", a, b) \in Nat
      /\ Count(src, "open", a, b - 1) \in Nat /\ Count(src, "close", a, b - 1) \in Nat
  BY CountIs
<1>2. /\ Count(src, "open", a, b) = Count(src, "open", a, b - 1) + (IF src[b].t = "open" THEN 1 ELSE 0)
      /\ Count(src, "close", a, b) = Count(src, "close", a, b - 1) + (IF src[b].t = "close" THEN 1 ELSE 0)
  BY CountOn
<1> QED
  BY <1>1, <1>2 DEF Depth

\* The first position where the counts are level is the first where the depth
\* is not positive: it falls by one at most.
LEMMA DepthFallsToZero ==
  ASSUME NEW src, NEW a \in Nat, NEW p \in Nat, a <= p, src[a].t = "open"
  PROVE  (\A k \in a + 1 .. p - 1 : Count(src, "open", a, k) # Count(src, "close", a, k)) <=> Inside(src, a, p)
<1>1. \A k \in Nat : Count(src, "open", a, k) \in Nat /\ Count(src, "close", a, k) \in Nat
  <2> TAKE k \in Nat
  <2>1. a \in Int /\ k \in Int
    OBVIOUS
  <2> QED
    BY <2>1, CountIs
<1>2. ASSUME Inside(src, a, p), NEW k \in a + 1 .. p - 1
      PROVE  Count(src, "open", a, k) # Count(src, "close", a, k)
  BY <1>1, <1>2 DEF Inside, Depth
<1>3. ASSUME \A k \in a + 1 .. p - 1 : Count(src, "open", a, k) # Count(src, "close", a, k) PROVE Inside(src, a, p)
  <2> DEFINE T == {k \in a .. p - 1 : ~(Depth(src, a, k) > 0)}
  <2>1. SUFFICES ASSUME T # {} PROVE FALSE
    BY DEF Inside
  <2>2. PICK k \in T : \A y \in T : k <= y
    <3>1. T \subseteq Nat
      OBVIOUS
    <3> HIDE DEF T
    <3> QED
      BY <2>1, <3>1, SmallestNumber
  <2>3. Depth(src, a, a) = 1
    <3>1. Count(src, "open", a, a - 1) = 0 /\ Count(src, "close", a, a - 1) = 0
      BY CountNone
    <3>2. /\ Count(src, "open", a, a) = Count(src, "open", a, a - 1) + (IF src[a].t = "open" THEN 1 ELSE 0)
          /\ Count(src, "close", a, a) = Count(src, "close", a, a - 1) + (IF src[a].t = "close" THEN 1 ELSE 0)
      BY CountOn
    <3> QED
      BY <3>1, <3>2 DEF Depth
  <2>4. k \in a + 1 .. p - 1
    BY <2>2, <2>3
  <2>5. Depth(src, a, k - 1) > 0
    BY <2>2, <2>4
  <2>6. Depth(src, a, k) \in Int /\ Depth(src, a, k) >= Depth(src, a, k - 1) - 1 /\ Depth(src, a, k - 1) \in Int
    BY <2>4, DepthOn
  <2>7. Depth(src, a, k) = 0
    BY <2>2, <2>5, <2>6
  <2> QED
    BY <1>1, <1>3, <2>4, <2>7 DEF Depth
<1> QED
  BY <1>2, <1>3

LEMMA BlockEnds ==
  ASSUME NEW src, WellFormed(src), NEW a \in DOMAIN src, src[a].t = "open", NEW p \in DOMAIN src, a <= p
  PROVE  p < end_of_block_brace(src, a) <=> Inside(src, a, p)
<1> DEFINE closed == {j \in a + 1 .. Len(src) : Count(src, "open", a, j) = Count(src, "close", a, j)}
<1>1. Len(src) \in Nat /\ Eof(src) = Len(src) + 1 /\ a \in 1 .. Len(src) /\ p \in 1 .. Len(src)
  BY Positions
<1>2. end_of_block_brace(src, a) = IF closed = {} THEN Eof(src) ELSE Min(closed) + 1
  BY DEF end_of_block_brace, Count
<1>3. p < end_of_block_brace(src, a) <=> closed \cap (a + 1 .. p - 1) = {}
  <2>1. CASE closed = {}
    BY <1>1, <1>2, <2>1
  <2>2. CASE closed # {}
    <3>1. closed \subseteq Nat /\ closed \subseteq a + 1 .. Len(src)
      BY <1>1
    <3> HIDE DEF closed
    <3>2. Min(closed) \in closed /\ \A y \in closed : Min(closed) <= y
      BY <2>2, <3>1, MinOf
    <3> DEFINE z == Min(closed)
    <3> HIDE DEF z
    <3>3. z \in closed /\ z \in a + 1 .. Len(src) /\ \A y \in closed : z <= y
      BY <3>1, <3>2 DEF z
    <3>4. end_of_block_brace(src, a) = z + 1
      BY <1>2, <2>2 DEF z
    <3>5. p < z + 1 <=> closed \cap (a + 1 .. p - 1) = {}
      <4>1. ASSUME p < z + 1 PROVE closed \cap (a + 1 .. p - 1) = {}
        BY <1>1, <3>1, <3>3, <4>1
      <4>2. ASSUME ~(p < z + 1) PROVE z \in closed \cap (a + 1 .. p - 1)
        BY <1>1, <3>3, <4>2
      <4> QED
        BY <4>1, <4>2
    <3> QED
      BY <3>4, <3>5
  <2> QED
    BY <2>1, <2>2
<1>4. closed \cap (a + 1 .. p - 1) = {} <=> \A k \in a + 1 .. p - 1 : Count(src, "open", a, k) # Count(src, "close", a, k)
  BY <1>1
<1>5. Inside(src, a, p) <=> \A k \in a + 1 .. p - 1 : Count(src, "open", a, k) # Count(src, "close", a, k)
  BY <1>1, DepthFallsToZero
<1> QED
  BY <1>3, <1>4, <1>5

-----------------------------------------------------------------------------
(* What a marker covers *)

Trails(src, m) == \E k \in 1 .. m - 1 : src[k].t # "ws" /\ Same(src, k, m)
OneLine(src, a, b) == Same(src, a, b) /\ Same(src, b, a)
TopOfFile(src, m) == \A k \in 1 .. m - 1 : ~IsCode(src, k)
FirstCode(src, m, f) ==
  /\ f \in DOMAIN src /\ m < f /\ IsCode(src, f)
  /\ \A k \in m + 1 .. f - 1 : ~IsCode(src, k)
InBlock(src, m, p) ==
  \E f \in DOMAIN src : FirstCode(src, m, f) /\ src[f].t = "open" /\ f <= p /\ Inside(src, f, p)
NoBlock(src, m) == \A f \in DOMAIN src : FirstCode(src, m, f) => src[f].t # "open"

\* The marker at m covers the code token at p.
Silences(src, m, p) ==
  \/ Trails(src, m) /\ OneLine(src, m, p)
  \/ /\ ~Trails(src, m)
     /\ \/ Wildcard \in parse_marker(src[m]) /\ TopOfFile(src, m)
        \/ InBlock(src, m, p)
        \/ NoBlock(src, m) /\ Finds(src, m, p)

LEMMA OneFirstCode ==
  ASSUME NEW src, WellFormed(src), NEW m \in DOMAIN src, NEW f, NEW g,
         FirstCode(src, m, f), FirstCode(src, m, g)
  PROVE  f = g
<1> QED
  BY Positions DEF FirstCode

LEMMA TrailsIs ==
  ASSUME NEW src, WellFormed(src), NEW m \in DOMAIN src
  PROVE  (\E i \in line_start(src, m) .. m - 1 : src[i].t # "ws") <=> Trails(src, m)
<1>1. Len(src) \in Nat /\ Eof(src) = Len(src) + 1 /\ m \in 1 .. Len(src) /\ m \in 1 .. Eof(src)
  BY Positions
<1>2. line_start(src, m) \in 1 .. m
  BY <1>1, LineStart
<1>3. \A k \in 1 .. m - 1 : line_start(src, m) <= k <=> Same(src, k, m)
  <2> TAKE k \in 1 .. m - 1
  <2>1. k \in 1 .. Eof(src) /\ k <= m
    BY <1>1
  <2> QED
    BY <1>1, <2>1, OnItsLine
<1>4. \A k : k \in line_start(src, m) .. m - 1 <=> k \in 1 .. m - 1 /\ line_start(src, m) <= k
  BY <1>1, <1>2
<1> QED
  BY <1>3, <1>4 DEF Trails

LEMMA OwnLine ==
  ASSUME NEW src, WellFormed(src), NEW m \in DOMAIN src, src[m].t = "comment",
         NEW p \in DOMAIN src, IsCode(src, p)
  PROVE  line_start(src, m) <= p /\ p < end_of_line(src, m) <=> OneLine(src, m, p)
<1> DEFINE e == end_of_line(src, m)
<1>1. Len(src) \in Nat /\ Eof(src) = Len(src) + 1 /\ m \in 1 .. Len(src) /\ p \in 1 .. Len(src)
  BY Positions
<1>2. /\ e \in m + 1 .. Eof(src)
      /\ \A q \in m .. e - 1 : ~IsCode(src, q)
      /\ e # Eof(src) => src[e].t = "nl"
  BY CommentEnds
<1> HIDE DEF e
<1>3. src[p].t # "nl"
  BY DEF IsCode, Code
<1>4. CASE p < m
  <2>1. line_start(src, m) <= p <=> Same(src, p, m)
    <3>1. p \in 1 .. Eof(src) /\ m \in 1 .. Eof(src) /\ p <= m
      BY <1>1, <1>4
    <3> QED
      BY <3>1, OnItsLine
  <2>2. Same(src, m, p) /\ p < e
    BY <1>1, <1>2, <1>4 DEF Same
  <2> QED
    BY <2>1, <2>2 DEF OneLine, e
<1>5. CASE p >= m
  <2>1. p > e
    BY <1>1, <1>2, <1>3, <1>5
  <2>2. ~Same(src, m, p)
    BY <1>1, <1>2, <2>1 DEF Same
  <2> QED
    BY <1>1, <1>2, <2>1, <2>2 DEF OneLine, e
<1> QED
  BY <1>1, <1>4, <1>5

LEMMA ScopeIs ==
  ASSUME NEW src, WellFormed(src), NEW m \in DOMAIN src, src[m].t = "comment",
         NEW p \in DOMAIN src, IsCode(src, p)
  PROVE  Within(resolve_scope(src, m), p) <=> Silences(src, m, p)
<1> DEFINE hi == end_of_line(src, m)
           hits == {j \in hi .. Len(src) : IsCode(src, j)}
           token == skip_ws_and_comments(src, hi)
           scope == resolve_scope(src, m)
<1>1. Len(src) \in Nat /\ Eof(src) = Len(src) + 1 /\ m \in 1 .. Len(src) /\ p \in 1 .. Len(src)
      /\ DOMAIN src = 1 .. Len(src)
  BY Positions
<1>2. /\ hi \in m + 1 .. Eof(src)
      /\ \A q \in m .. hi - 1 : ~IsCode(src, q)
  BY CommentEnds
<1>3. (\E i \in 1 .. m - 1 : IsCode(src, i)) <=> ~TopOfFile(src, m)
  BY DEF TopOfFile
<1>4. (\E i \in line_start(src, m) .. m - 1 : src[i].t # "ws") <=> Trails(src, m)
  BY TrailsIs
<1>5. scope = IF Trails(src, m) THEN [lo |-> line_start(src, m), hi |-> hi]
              ELSE IF TopOfFile(src, m) /\ Wildcard \in parse_marker(src[m]) THEN [lo |-> 1, hi |-> Eof(src)]
              ELSE IF token = Eof(src) THEN [lo |-> hi, hi |-> hi]
              ELSE IF src[token].t = "open" THEN [lo |-> token, hi |-> end_of_block_brace(src, token)]
              ELSE next_code_line(src, hi)
  BY <1>3, <1>4 DEF resolve_scope
<1>6. token \in 1 .. Eof(src) /\ (token # Eof(src) => FirstCode(src, m, token)) /\ (token = Eof(src) => p < m)
  <2>1. hits \subseteq 1 .. Len(src)
    BY <1>1, <1>2
  <2>2. token = FirstOf(src, hits)
    BY DEF skip_ws_and_comments
  <2>3. /\ token \in 1 .. Eof(src)
        /\ token # Eof(src) => token \in hits
        /\ \A y \in hits : token <= y
    <3> HIDE DEF hits, token
    <3> QED
      BY <2>1, <2>2, FirstOfIs
  <2> HIDE DEF token, hi
  <2>4. ASSUME token # Eof(src) PROVE FirstCode(src, m, token)
    <3>1. \A k \in m + 1 .. token - 1 : ~IsCode(src, k)
      BY <1>1, <1>2, <2>3, <2>4
    <3> QED
      BY <1>1, <1>2, <2>3, <2>4, <3>1 DEF FirstCode
  <2>5. ASSUME token = Eof(src) PROVE p < m
    <3>1. p \notin hits
      BY <1>1, <2>3, <2>5
    <3> QED
      BY <1>1, <1>2, <3>1
  <2> QED
    BY <2>3, <2>4, <2>5
<1>7. Within(next_code_line(src, hi), p) <=> Finds(src, m, p)
  BY NextLineFinds
<1>8. line_start(src, m) <= p /\ p < hi <=> OneLine(src, m, p)
  BY OwnLine
<1> SUFFICES Within(scope, p) <=> Silences(src, m, p)
  OBVIOUS
<1> HIDE DEF hi, token, scope
<1>9. CASE Trails(src, m)
  <2>1. scope = [lo |-> line_start(src, m), hi |-> hi]
    BY <1>5, <1>9
  <2>2. Within(scope, p) <=> line_start(src, m) <= p /\ p < hi
    BY <2>1 DEF Within
  <2> QED
    BY <1>8, <1>9, <2>2 DEF Silences
<1>10. CASE ~Trails(src, m) /\ TopOfFile(src, m) /\ Wildcard \in parse_marker(src[m])
  <2>1. scope = [lo |-> 1, hi |-> Eof(src)]
    BY <1>5, <1>10
  <2>2. Within(scope, p)
    BY <1>1, <2>1 DEF Within
  <2> QED
    BY <1>10, <2>2 DEF Silences
<1>11. CASE ~Trails(src, m) /\ ~(TopOfFile(src, m) /\ Wildcard \in parse_marker(src[m])) /\ token = Eof(src)
  <2>1. ~Within(scope, p)
    <3>1. scope = [lo |-> hi, hi |-> hi]
      BY <1>5, <1>11
    <3> QED
      BY <1>1, <1>2, <3>1 DEF Within
  <2>2. ~Finds(src, m, p) /\ ~InBlock(src, m, p)
    BY <1>1, <1>6, <1>11 DEF Finds, InBlock, FirstCode
  <2> QED
    BY <1>11, <2>1, <2>2 DEF Silences
<1>12. CASE ~Trails(src, m) /\ ~(TopOfFile(src, m) /\ Wildcard \in parse_marker(src[m])) /\ token # Eof(src)
  <2>1. FirstCode(src, m, token) /\ token \in DOMAIN src
    BY <1>1, <1>6, <1>12 DEF FirstCode
  <2>2. \A f \in DOMAIN src : FirstCode(src, m, f) => f = token
    BY <2>1, OneFirstCode
  <2>3. NoBlock(src, m) <=> src[token].t # "open"
    BY <2>1, <2>2 DEF NoBlock
  <2>4. CASE src[token].t = "open"
    <3>1. scope = [lo |-> token, hi |-> end_of_block_brace(src, token)]
      BY <1>5, <1>12, <2>4
    <3>2. InBlock(src, m, p) <=> token <= p /\ Inside(src, token, p)
      BY <2>1, <2>2, <2>4 DEF InBlock
    <3>3. token <= p => (p < end_of_block_brace(src, token) <=> Inside(src, token, p))
      BY <2>1, <2>4, BlockEnds
    <3>4. Within(scope, p) <=> InBlock(src, m, p)
      BY <3>1, <3>2, <3>3 DEF Within
    <3> QED
      BY <1>12, <2>3, <2>4, <3>4 DEF Silences
  <2>5. CASE src[token].t # "open"
    <3>1. scope = next_code_line(src, hi)
      BY <1>5, <1>12, <2>5
    <3>2. ~InBlock(src, m, p)
      BY <2>2, <2>5 DEF InBlock
    <3> QED
      BY <1>7, <1>12, <2>3, <2>5, <3>1, <3>2 DEF Silences
  <2> QED
    BY <2>4, <2>5
<1> QED
  BY <1>9, <1>10, <1>11, <1>12

-----------------------------------------------------------------------------
(* The documentation *)

LEMMA CodeIs ==
  ASSUME NEW src, NEW p
  PROVE  p \in CodeAt(src) <=> p \in DOMAIN src /\ IsCode(src, p)
<1> QED
  BY DEF CodeAt

LEMMA OnLineIs ==
  ASSUME NEW src, WellFormed(src), NEW m \in DOMAIN src, NEW p \in CodeAt(src)
  PROVE  p \in OnLine(src, line_start(src, m)) <=> OneLine(src, m, p)
<1>1. Len(src) \in Nat /\ Eof(src) = Len(src) + 1 /\ m \in 1 .. Len(src) /\ p \in 1 .. Len(src)
  BY Positions, CodeIs
<1>2. m \in 1 .. Eof(src) /\ p \in 1 .. Eof(src)
  BY <1>1
<1>3. p \in OnLine(src, line_start(src, m)) <=> line_start(src, p) = line_start(src, m)
  BY DEF OnLine
<1>4. CASE m <= p
  <2>1. line_start(src, m) = line_start(src, p) <=> Same(src, m, p)
    BY <1>2, <1>4, SameStart
  <2>2. Same(src, p, m)
    BY <1>1, <1>4 DEF Same
  <2> QED
    BY <1>3, <2>1, <2>2 DEF OneLine
<1>5. CASE p <= m
  <2>1. line_start(src, p) = line_start(src, m) <=> Same(src, p, m)
    BY <1>2, <1>5, SameStart
  <2>2. Same(src, m, p)
    BY <1>1, <1>5 DEF Same
  <2> QED
    BY <1>3, <2>1, <2>2 DEF OneLine
<1> QED
  BY <1>1, <1>4, <1>5

LEMMA CodeIsBefore ==
  ASSUME NEW src, WellFormed(src), NEW m \in DOMAIN src, src[m].t = "comment",
         NEW p \in CodeAt(src), OneLine(src, m, p)
  PROVE  p < m
<1>1. Len(src) \in Nat /\ Eof(src) = Len(src) + 1 /\ m \in 1 .. Len(src) /\ p \in 1 .. Len(src)
  BY Positions, CodeIs
<1>2. p < end_of_line(src, m)
  BY OwnLine, CodeIs
<1>3. /\ end_of_line(src, m) \in m + 1 .. Eof(src)
      /\ \A q \in m .. end_of_line(src, m) - 1 : ~IsCode(src, q)
  BY CommentEnds
<1>4. IsCode(src, p)
  BY CodeIs
<1> QED
  BY <1>1, <1>2, <1>3, <1>4

\* Only block comments stand before a marker that trails nothing else.
Unblocked(src, m) ==
  OnLine(src, line_start(src, m)) = {} => \A k \in 1 .. m - 1 : Same(src, k, m) => src[k].t # "block"

LEMMA TrailsCode ==
  ASSUME NEW src, WellFormed(src), NEW m \in DOMAIN src, src[m].t = "comment", Unblocked(src, m)
  PROVE  Trails(src, m) <=> OnLine(src, line_start(src, m)) # {}
<1>1. Len(src) \in Nat /\ DOMAIN src = 1 .. Len(src) /\ m \in 1 .. Len(src)
  BY Positions
<1>2. ASSUME NEW p \in OnLine(src, line_start(src, m)) PROVE Trails(src, m)
  <2>1. p \in CodeAt(src)
    BY <1>2 DEF OnLine
  <2>2. OneLine(src, m, p)
    BY <1>2, <2>1, OnLineIs
  <2>3. p < m
    BY <2>1, <2>2, CodeIsBefore
  <2>4. p \in 1 .. m - 1 /\ src[p].t # "ws"
    BY <1>1, <2>1, <2>3, CodeIs DEF IsCode, Code
  <2> QED
    BY <2>2, <2>4 DEF Trails, OneLine
<1>3. ASSUME Trails(src, m), OnLine(src, line_start(src, m)) = {} PROVE FALSE
  <2>1. PICK k \in 1 .. m - 1 : src[k].t # "ws" /\ Same(src, k, m)
    BY <1>3 DEF Trails
  <2>2. k \in DOMAIN src /\ k + 1 \in DOMAIN src /\ k # Len(src)
    <3> DEFINE n == Len(src)
    <3>1. n \in Nat /\ m \in 1 .. n
      BY <1>1
    <3> HIDE DEF n
    <3>2. k \in 1 .. n /\ k + 1 \in 1 .. n /\ k # n
      BY <3>1, <2>1
    <3> QED
      BY <1>1, <3>2 DEF n
  <2>3. src[k].t # "block"
    BY <1>3, <2>1 DEF Unblocked
  <2>4. src[k].t # "nl"
    BY <1>1, <2>1 DEF Same
  <2>5. \A q \in k + 1 .. m : src[q].t # "nl"
    BY <1>1, <2>1 DEF Same
  <2>6. src[k].t # "cr"
    <3>1. src[k].t = "cr" => src[k + 1].t = "nl"
      BY <2>2 DEF WellFormed
    <3> QED
      BY <1>1, <2>1, <2>5, <3>1
  <2>7. src[k].t # "comment"
    <3>1. src[k].t = "comment" => src[k + 1].t \in {"cr", "nl"}
      BY <2>2 DEF WellFormed
    <3>2. src[k + 1].t = "cr" => k + 1 < Len(src) /\ src[k + 2].t = "nl"
      BY <1>1, <2>2 DEF WellFormed
    <3>3. src[k + 1].t = "cr" => k + 1 # m
      OBVIOUS
    <3> QED
      BY <1>1, <2>1, <2>5, <3>1, <3>2, <3>3
  <2>8. ~IsCode(src, k)
    <3>1. OneLine(src, m, k)
      BY <1>1, <2>1 DEF OneLine, Same
    <3>2. k \in CodeAt(src) => k \in OnLine(src, line_start(src, m))
      BY <3>1, OnLineIs
    <3> QED
      BY <1>3, <2>2, <3>2, CodeIs
  <2> QED
    BY <2>1, <2>2, <2>3, <2>4, <2>6, <2>7, <2>8, Kinds DEF IsCode, Code
<1> QED
  BY <1>2, <1>3

\* What the marker at m covers, in lines and blocks.
Reaches(src, m) ==
  IF OnLine(src, line_start(src, m)) = {} /\ Wildcard \in parse_marker(src[m]) /\ BeforeAllCode(src, m)
  THEN CodeAt(src) ELSE LineOrBlock(src, m)

LEMMA ReachesIs ==
  ASSUME NEW src, WellFormed(src), NEW m \in DOMAIN src, src[m].t = "comment",
         ~BlankCr(src), Unblocked(src, m)
  PROVE  Reaches(src, m) = {p \in CodeAt(src) : Silences(src, m, p)}
<1> DEFINE below == {p \in CodeAt(src) : p > m}
           first == Min(below)
           own == OnLine(src, line_start(src, m))
<1>1. Len(src) \in Nat /\ DOMAIN src = 1 .. Len(src) /\ m \in 1 .. Len(src)
  BY Positions
<1>0. LineOrBlock(src, m) =
        IF own # {} THEN own
        ELSE IF below = {} THEN {}
        ELSE IF src[first].t = "open" THEN {p \in below : Inside(src, first, p)}
        ELSE OnLine(src, line_start(src, first))
  BY DEF LineOrBlock, Inside, Depth, Count
<1>00. BeforeAllCode(src, m) <=> below = CodeAt(src)
  BY Positions, CodeIs DEF BeforeAllCode
<1>2. Reaches(src, m) =
        IF own # {} THEN own
        ELSE IF Wildcard \in parse_marker(src[m]) /\ below = CodeAt(src) THEN CodeAt(src)
        ELSE IF below = {} THEN {}
        ELSE IF src[first].t = "open" THEN {p \in below : Inside(src, first, p)}
        ELSE OnLine(src, line_start(src, first))
  <2> HIDE DEF own, below, first
  <2>1. CASE own # {}
    BY <1>0, <2>1 DEF Reaches, own
  <2>2. CASE own = {}
    BY <1>0, <1>00, <2>2 DEF Reaches, own
  <2> QED
    BY <2>1, <2>2
<1>3. Trails(src, m) <=> own # {}
  BY TrailsCode
<1>4. own \subseteq CodeAt(src) /\ \A p \in CodeAt(src) : p \in own <=> OneLine(src, m, p)
  BY OnLineIs DEF OnLine
<1>5. CodeAt(src) \subseteq 1 .. Len(src) /\ \A p \in CodeAt(src) : IsCode(src, p)
  BY <1>1, CodeIs
<1>6. m \notin CodeAt(src)
  BY DEF CodeAt, IsCode, Code
<1>7. TopOfFile(src, m) <=> below = CodeAt(src)
  BY <1>1, <1>5, <1>6, CodeIs DEF TopOfFile
<1>8. \A q \in DOMAIN src : ~BareCr(src, q)
  BY DEF BlankCr
<1>9. CASE own # {}
  <2>1. Reaches(src, m) = own
    BY <1>2, <1>9
  <2>2. \A p \in CodeAt(src) : Silences(src, m, p) <=> p \in own
    BY <1>3, <1>4, <1>9 DEF Silences
  <2> HIDE DEF own
  <2> QED
    BY <1>4, <2>1, <2>2
<1>10. CASE own = {} /\ Wildcard \in parse_marker(src[m]) /\ below = CodeAt(src)
  <2>1. Reaches(src, m) = CodeAt(src)
    BY <1>2, <1>10
  <2>2. \A p \in CodeAt(src) : Silences(src, m, p)
    BY <1>3, <1>7, <1>10 DEF Silences
  <2> QED
    BY <2>1, <2>2
<1>11. CASE own = {} /\ ~(Wildcard \in parse_marker(src[m]) /\ below = CodeAt(src)) /\ below = {}
  <2>1. Reaches(src, m) = {}
    BY <1>2, <1>11
  <2>2. \A p \in CodeAt(src) : p < m
    BY <1>1, <1>5, <1>6, <1>11
  <2>3. \A p \in CodeAt(src) : ~InBlock(src, m, p) /\ ~Finds(src, m, p)
    BY <1>1, <1>5, <2>2 DEF InBlock, FirstCode, Finds
  <2>4. \A p \in CodeAt(src) : ~Silences(src, m, p)
    BY <1>3, <1>7, <1>11, <2>3 DEF Silences
  <2> QED
    BY <2>1, <2>4
<1>12. CASE own = {} /\ ~(Wildcard \in parse_marker(src[m]) /\ below = CodeAt(src)) /\ below # {}
  <2>1. first \in below /\ \A y \in below : first <= y
    <3>1. below \subseteq Nat /\ below # {}
      BY <1>5, <1>12
    <3> HIDE DEF below
    <3> QED
      BY <3>1, MinOf
  <2>2. \A p \in below : p \in CodeAt(src) /\ m < p /\ p \in 1 .. Len(src)
    BY <1>5
  <2> DEFINE f == first
  <2> HIDE DEF f
  <2>3. \A p \in CodeAt(src) : p < f => p < m
    <3> TAKE p \in CodeAt(src)
    <3>1. f \in 1 .. Len(src) /\ p \in 1 .. Len(src) /\ p # m
      BY <1>5, <1>6, <2>1, <2>2 DEF f
    <3>2. p > m => f <= p
      BY <2>1 DEF f
    <3> QED
      BY <1>1, <3>1, <3>2
  <2>4. FirstCode(src, m, f)
    <3>1. f \in CodeAt(src) /\ f \in 1 .. Len(src) /\ m < f
      BY <2>1, <2>2 DEF f
    <3>2. \A k \in m + 1 .. f - 1 : ~IsCode(src, k)
      <4> TAKE k \in m + 1 .. f - 1
      <4>1. k \in DOMAIN src
        BY <1>1, <3>1
      <4>2. ~(k < m)
        BY <1>1, <3>1
      <4>3. k < f
        BY <1>1, <3>1
      <4> QED
        BY <2>3, <4>1, <4>2, <4>3, CodeIs DEF f
    <3> QED
      BY <1>1, <3>1, <3>2, CodeIs DEF FirstCode
  <2>5. \A g \in DOMAIN src : FirstCode(src, m, g) => g = f
    BY <2>4, OneFirstCode
  <2>6. f \in 1 .. Len(src) /\ f \in DOMAIN src /\ m < f /\ f \in CodeAt(src) /\ IsCode(src, f)
    BY <2>1, <2>2, <1>1, <1>5 DEF f
  <2>7. \A p \in CodeAt(src) : p \in below <=> f <= p
    BY <1>1, <1>5, <2>1, <2>6 DEF f
  <2>8. \A p \in CodeAt(src) : Silences(src, m, p) <=> InBlock(src, m, p) \/ (NoBlock(src, m) /\ Finds(src, m, p))
    BY <1>3, <1>7, <1>12 DEF Silences
  <2>9. CASE src[f].t = "open"
    <3>1. Reaches(src, m) = {p \in below : Inside(src, f, p)}
      BY <1>2, <1>12, <2>9 DEF f
    <3>2. ~NoBlock(src, m)
      BY <2>4, <2>6, <2>9 DEF NoBlock
    <3>3. \A p \in CodeAt(src) : InBlock(src, m, p) <=> f <= p /\ Inside(src, f, p)
      BY <2>4, <2>5, <2>6, <2>9 DEF InBlock
    <3>4. \A p \in CodeAt(src) : Silences(src, m, p) <=> p \in below /\ Inside(src, f, p)
      BY <2>7, <2>8, <3>2, <3>3
    <3>5. \A p \in below : p \in CodeAt(src)
      OBVIOUS
    <3> HIDE DEF below
    <3> QED
      BY <3>1, <3>4, <3>5
  <2>10. CASE src[f].t # "open"
    <3>1. Reaches(src, m) = OnLine(src, line_start(src, f))
      BY <1>2, <1>12, <2>10 DEF f
    <3>2. NoBlock(src, m) /\ \A p \in CodeAt(src) : ~InBlock(src, m, p)
      BY <2>5, <2>10 DEF NoBlock, InBlock
    <3>3. ASSUME NEW p \in CodeAt(src) PROVE p \in OnLine(src, line_start(src, f)) <=> OneLine(src, f, p)
      BY <2>6, OnLineIs
    <3>4. ASSUME NEW p \in CodeAt(src), Finds(src, m, p) PROVE OneLine(src, f, p)
      <4>1. f <= p
        BY <1>1, <1>5, <1>6, <2>7, <3>4 DEF Finds
      <4>2. Same(src, f, p)
        BY <1>1, <1>5, <2>6, <3>4, <4>1 DEF Finds
      <4> QED
        BY <1>5, <2>6, <4>1, <4>2 DEF OneLine, Same
    <3>5. ASSUME NEW p \in CodeAt(src), OneLine(src, f, p) PROVE Finds(src, m, p)
      <4>1. p \in 1 .. Len(src)
        BY <1>5
      <4>2. f <= p
        <5>1. SUFFICES ASSUME p < f PROVE FALSE
          BY <2>6, <4>1
        <5>2. p < m
          BY <2>3, <5>1 DEF f
        <5>3. OneLine(src, m, p)
          BY <1>1, <2>6, <3>5, <4>1, <5>2 DEF OneLine, Same
        <5> QED
          BY <1>4, <1>12, <5>3
      <4>3. \A q \in m .. p : IsCode(src, q) => q >= f
        <5> TAKE q \in m .. p
        <5>1. q \in DOMAIN src
          BY <1>1, <4>1
        <5>2. q < f => ~IsCode(src, q)
          BY <1>1, <2>3, <2>6, <4>1, <5>1, CodeIs DEF f
        <5> QED
          BY <1>1, <2>6, <4>1, <5>2
      <4>4. \A q \in m .. p : IsCode(src, q) => Same(src, q, p)
        BY <1>1, <2>6, <3>5, <4>1, <4>3 DEF OneLine, Same
      <4>5. \A q \in m .. p : ~BareCr(src, q)
        BY <1>1, <1>8, <4>1
      <4> QED
        BY <1>1, <2>6, <4>1, <4>2, <4>4, <4>5 DEF Finds
    <3>6. \A p \in CodeAt(src) : Silences(src, m, p) <=> p \in OnLine(src, line_start(src, f))
      BY <2>8, <3>2, <3>3, <3>4, <3>5
    <3>7. OnLine(src, line_start(src, f)) \subseteq CodeAt(src)
      BY DEF OnLine
    <3> QED
      BY <3>1, <3>6, <3>7
  <2> QED
    BY <2>9, <2>10
<1> QED
  BY <1>9, <1>10, <1>11, <1>12

-----------------------------------------------------------------------------
(* Tokens put into a text *)

\* Where a position is once d tokens stand before e.
Shift(e, d, p) == IF p < e THEN p ELSE p + d

\* The tokens make a line at the top, or the end of a line that is not bare.
AtTop(new, e, d) == e = 1 /\ (d = 0 \/ new[d].t = "nl")
AtEnd(src, new, e, d) ==
  /\ e \in DOMAIN src => src[e].t \in {"cr", "nl"} /\ ~BareCr(src, e)
  /\ \A k \in e .. e + d - 1 : new[k].t # "nl"

Spread(src, new, e, d) ==
  /\ e \in 1 .. Len(src) + 1 /\ d \in Nat /\ Len(new) = Len(src) + d
  /\ \A p \in DOMAIN src : new[Shift(e, d, p)].t = src[p].t
  /\ \A k \in e .. e + d - 1 : new[k].t \in {"ws", "comment", "nl"}

Moved(src, new, e, d) ==
  /\ WellFormed(src) /\ WellFormed(new)
  /\ Spread(src, new, e, d)
  /\ AtTop(new, e, d) \/ AtEnd(src, new, e, d)

LEMMA ShiftCount ==
  ASSUME NEW e \in Nat, NEW d \in Nat, NEW A, A \subseteq Nat, IsFiniteSet(A)
  PROVE  Cardinality({Shift(e, d, x) : x \in A}) = Cardinality(A)
<1> DEFINE B == {Shift(e, d, x) : x \in A}
           f == [x \in A |-> Shift(e, d, x)]
<1>1. \A x, y \in A : Shift(e, d, x) = Shift(e, d, y) => x = y
  BY DEF Shift
<1>2. f \in [A -> B] /\ \A b \in B : \E x \in A : f[x] = b
  OBVIOUS
<1>3. f \in Bijection(A, B)
  <2>1. \A x, y \in A : f[x] = f[y] => x = y
    BY <1>1
  <2> HIDE DEF f, B
  <2>2. f \in Injection(A, B) /\ f \in Surjection(A, B)
    BY <1>2, <2>1 DEF Injection, IsInjective, Surjection
  <2> QED
    BY <2>2 DEF Bijection
<1>4. ExistsBijection(A, B)
  BY <1>3 DEF ExistsBijection
<1> HIDE DEF B
<1>5. Cardinality(B) = Cardinality(A)
  BY <1>4, FS_Bijection
<1> QED
  BY <1>5 DEF B

\* Where every position of the new text comes from.
LEMMA ShiftIs ==
  ASSUME NEW src, NEW new, NEW e, NEW d, Moved(src, new, e, d)
  PROVE  /\ Len(src) \in Nat /\ Len(new) \in Nat /\ DOMAIN src = 1 .. Len(src) /\ DOMAIN new = 1 .. Len(new)
         /\ e \in 1 .. Len(src) + 1 /\ d \in Nat /\ Len(new) = Len(src) + d
         /\ \A p \in 1 .. Len(src) : Shift(e, d, p) \in 1 .. Len(new) /\ new[Shift(e, d, p)].t = src[p].t
         /\ \A p, q \in 1 .. Len(src) : p < q <=> Shift(e, d, p) < Shift(e, d, q)
         /\ \A k \in 1 .. Len(new) : \/ k \in e .. e + d - 1
                                     \/ \E p \in 1 .. Len(src) : k = Shift(e, d, p)
<1>1. /\ Len(src) \in Nat /\ Len(new) \in Nat /\ DOMAIN src = 1 .. Len(src) /\ DOMAIN new = 1 .. Len(new)
      /\ e \in 1 .. Len(src) + 1 /\ d \in Nat /\ Len(new) = Len(src) + d
  BY Positions DEF Moved, Spread
<1>2. \A p \in 1 .. Len(src) : Shift(e, d, p) \in 1 .. Len(new) /\ new[Shift(e, d, p)].t = src[p].t
  <2> TAKE p \in 1 .. Len(src)
  <2>1. Shift(e, d, p) \in 1 .. Len(new)
    BY <1>1 DEF Shift
  <2> QED
    BY <1>1, <2>1 DEF Moved, Spread
<1>3. \A p, q \in 1 .. Len(src) : p < q <=> Shift(e, d, p) < Shift(e, d, q)
  BY <1>1 DEF Shift
<1>4. ASSUME NEW k \in 1 .. Len(new), k \notin e .. e + d - 1
      PROVE  \E p \in 1 .. Len(src) : k = Shift(e, d, p)
  <2>1. CASE k < e
    <3>1. k \in 1 .. Len(src) /\ k = Shift(e, d, k)
      BY <1>1, <2>1 DEF Shift
    <3> QED
      BY <3>1
  <2>2. CASE k >= e + d
    <3>1. k - d \in 1 .. Len(src) /\ k = Shift(e, d, k - d)
      BY <1>1, <2>2 DEF Shift
    <3> QED
      BY <3>1
  <2> QED
    BY <1>1, <1>4, <2>1, <2>2
<1> QED
  BY <1>1, <1>2, <1>3, <1>4

\* A position of the new text between two old ones is old, or stands where
\* the tokens were put in, which is then between the two.
LEMMA Between ==
  ASSUME NEW src, NEW new, NEW e, NEW d, Moved(src, new, e, d),
         NEW a \in DOMAIN src, NEW b \in DOMAIN src, NEW k \in Shift(e, d, a) .. Shift(e, d, b)
  PROVE  \/ \E p \in a .. b : k = Shift(e, d, p)
         \/ k \in e .. e + d - 1 /\ a < e /\ e <= b /\ k < Shift(e, d, b)
<1>1. /\ Len(src) \in Nat /\ Len(new) \in Nat /\ DOMAIN src = 1 .. Len(src)
      /\ e \in 1 .. Len(src) + 1 /\ d \in Nat /\ Len(new) = Len(src) + d
  BY ShiftIs
<1>2. CASE k < e
  <2>1. k \in a .. b /\ k = Shift(e, d, k)
    BY <1>1, <1>2 DEF Shift
  <2> QED
    BY <2>1
<1>3. CASE k >= e + d
  <2>1. k - d \in a .. b /\ k = Shift(e, d, k - d)
    BY <1>1, <1>3 DEF Shift
  <2> QED
    BY <2>1
<1>4. CASE k \in e .. e + d - 1
  BY <1>1, <1>4 DEF Shift
<1> QED
  BY <1>1, <1>2, <1>3, <1>4 DEF Shift

LEMMA SameMoves ==
  ASSUME NEW src, NEW new, NEW e, NEW d, Moved(src, new, e, d),
         NEW a \in DOMAIN src, NEW b \in DOMAIN src
  PROVE  Same(new, Shift(e, d, a), Shift(e, d, b)) <=> Same(src, a, b)
<1>1. /\ Len(src) \in Nat /\ Len(new) \in Nat /\ DOMAIN src = 1 .. Len(src)
      /\ e \in 1 .. Len(src) + 1 /\ d \in Nat /\ Len(new) = Len(src) + d
      /\ \A p \in 1 .. Len(src) : Shift(e, d, p) \in 1 .. Len(new) /\ new[Shift(e, d, p)].t = src[p].t
      /\ \A p, q \in 1 .. Len(src) : p < q <=> Shift(e, d, p) < Shift(e, d, q)
  BY ShiftIs
<1>2. ASSUME Same(new, Shift(e, d, a), Shift(e, d, b)), NEW k \in a .. b - 1 PROVE src[k].t # "nl"
  <2>1. k \in 1 .. Len(src)
    BY <1>1
  <2>2. Shift(e, d, k) \in Shift(e, d, a) .. Shift(e, d, b) - 1
    BY <1>1, <2>1 DEF Shift
  <2> QED
    BY <1>1, <1>2, <2>1, <2>2 DEF Same
<1>3. ASSUME Same(src, a, b), NEW k \in Shift(e, d, a) .. Shift(e, d, b) - 1 PROVE new[k].t # "nl"
  <2>1. k \in Shift(e, d, a) .. Shift(e, d, b) /\ k # Shift(e, d, b)
    BY <1>1, <1>3
  <2>2. CASE \E p \in a .. b : k = Shift(e, d, p)
    <3>1. PICK p \in a .. b : k = Shift(e, d, p)
      BY <2>2
    <3>2. p # b
      BY <2>1, <3>1
    <3>3. p \in a .. b - 1 /\ p \in 1 .. Len(src)
      BY <1>1, <3>2
    <3> QED
      BY <1>1, <1>3, <3>1, <3>3 DEF Same
  <2>3. CASE k \in e .. e + d - 1 /\ a < e
    <3>1. ~AtTop(new, e, d)
      BY <1>1, <2>3 DEF AtTop
    <3> QED
      BY <2>3, <3>1 DEF Moved, AtEnd
  <2> QED
    BY <2>1, <2>2, <2>3, Between
<1> QED
  BY <1>2, <1>3 DEF Same

LEMMA OneLineMoves ==
  ASSUME NEW src, NEW new, NEW e, NEW d, Moved(src, new, e, d),
         NEW a \in DOMAIN src, NEW b \in DOMAIN src
  PROVE  OneLine(new, Shift(e, d, a), Shift(e, d, b)) <=> OneLine(src, a, b)
<1> QED
  BY SameMoves DEF OneLine

\* What is put in stands on no line of a later token, but for the line's own end.
LEMMA NotOnLine ==
  ASSUME NEW src, NEW new, NEW e, NEW d, Moved(src, new, e, d),
         NEW x \in DOMAIN src, src[x].t # "nl", AtTop(new, e, d) \/ x # e,
         NEW k \in e .. e + d - 1, k < Shift(e, d, x)
  PROVE  ~Same(new, k, Shift(e, d, x))
<1>1. /\ Len(src) \in Nat /\ Len(new) \in Nat /\ DOMAIN src = 1 .. Len(src)
      /\ e \in 1 .. Len(src) + 1 /\ d \in Nat /\ Len(new) = Len(src) + d
      /\ \A p \in 1 .. Len(src) : Shift(e, d, p) \in 1 .. Len(new) /\ new[Shift(e, d, p)].t = src[p].t
  BY ShiftIs
<1>2. e <= x /\ Shift(e, d, x) = x + d
  BY <1>1 DEF Shift
<1>3. CASE AtTop(new, e, d)
  <2>1. d \in k .. Shift(e, d, x) - 1 /\ new[d].t = "nl"
    BY <1>1, <1>2, <1>3 DEF AtTop
  <2> QED
    BY <2>1 DEF Same
<1>4. CASE ~AtTop(new, e, d)
  <2>1. AtEnd(src, new, e, d) /\ e < x /\ e \in DOMAIN src
    BY <1>1, <1>2, <1>4 DEF Moved
  <2>2. src[e].t \in {"cr", "nl"} /\ new[e + d].t = src[e].t
    <3>1. Shift(e, d, e) = e + d
      BY <1>1 DEF Shift
    <3> QED
      BY <1>1, <2>1, <3>1 DEF AtEnd
  <2>3. CASE src[e].t = "nl"
    BY <1>1, <1>2, <2>1, <2>2, <2>3 DEF Same
  <2>4. CASE src[e].t = "cr"
    <3>1. src[e + 1].t = "nl" /\ e + 1 \in DOMAIN src
      BY <1>1, <2>1, <2>4 DEF Moved, WellFormed
    <3>2. e + 1 < x
      BY <1>1, <2>1, <3>1
    <3>3. Shift(e, d, e + 1) = e + 1 + d
      BY <1>1 DEF Shift
    <3>4. new[e + 1 + d].t = "nl"
      BY <1>1, <3>1, <3>3
    <3> QED
      BY <1>1, <1>2, <3>2, <3>4 DEF Same
  <2> QED
    BY <2>2, <2>3, <2>4
<1> QED
  BY <1>3, <1>4

\* Comments are not the tokens before which something is put in.
LEMMA CommentStays ==
  ASSUME NEW src, NEW new, NEW e, NEW d, Moved(src, new, e, d),
         NEW m \in DOMAIN src, src[m].t = "comment"
  PROVE  AtTop(new, e, d) \/ m # e
<1> QED
  BY DEF Moved, AtEnd

LEMMA TrailsMoves ==
  ASSUME NEW src, NEW new, NEW e, NEW d, Moved(src, new, e, d),
         NEW m \in DOMAIN src, src[m].t = "comment"
  PROVE  Trails(new, Shift(e, d, m)) <=> Trails(src, m)
<1> DEFINE S(p) == Shift(e, d, p)
<1>1. /\ Len(src) \in Nat /\ Len(new) \in Nat /\ DOMAIN src = 1 .. Len(src) /\ DOMAIN new = 1 .. Len(new)
      /\ e \in 1 .. Len(src) + 1 /\ d \in Nat /\ Len(new) = Len(src) + d
  BY ShiftIs
<1>2. \A p \in 1 .. Len(src) : S(p) \in 1 .. Len(new) /\ new[S(p)].t = src[p].t
  BY ShiftIs
<1>3. \A p, q \in 1 .. Len(src) : p < q <=> S(p) < S(q)
  BY ShiftIs
<1>4. \A k \in 1 .. Len(new) : \/ k \in e .. e + d - 1
                               \/ \E p \in 1 .. Len(src) : k = S(p)
  BY ShiftIs
<1>5. \A p \in DOMAIN src : Same(new, S(p), S(m)) <=> Same(src, p, m)
  BY SameMoves
<1>6. \A k \in e .. e + d - 1 : k < S(m) => ~Same(new, k, S(m))
  BY CommentStays, NotOnLine
<1>7. m \in 1 .. Len(src)
  BY <1>1
<1> HIDE DEF S
<1>8. ASSUME NEW k \in 1 .. m - 1, src[k].t # "ws", Same(src, k, m) PROVE Trails(new, S(m))
  <2>1. k \in 1 .. Len(src) /\ k \in DOMAIN src /\ k < m
    BY <1>1, <1>7
  <2>2. S(k) \in 1 .. Len(new) /\ S(m) \in 1 .. Len(new) /\ new[S(k)].t # "ws"
    BY <1>2, <1>7, <1>8, <2>1
  <2>3. S(k) < S(m)
    BY <1>3, <1>7, <2>1
  <2>4. Same(new, S(k), S(m))
    BY <1>5, <1>8, <2>1
  <2>5. S(k) \in 1 .. S(m) - 1
    BY <1>1, <2>2, <2>3
  <2> QED
    BY <2>2, <2>4, <2>5 DEF Trails
<1>9. ASSUME NEW k \in 1 .. S(m) - 1, new[k].t # "ws", Same(new, k, S(m)) PROVE Trails(src, m)
  <2>1. S(m) \in 1 .. Len(new)
    BY <1>2, <1>7
  <2>2. k \in 1 .. Len(new) /\ k < S(m)
    BY <1>1, <2>1
  <2>3. PICK p \in 1 .. Len(src) : k = S(p)
    BY <1>4, <1>6, <1>9, <2>2
  <2>4. p < m
    BY <1>3, <1>7, <2>2, <2>3
  <2>5. src[p].t # "ws"
    BY <1>2, <1>9, <2>3
  <2>6. Same(src, p, m)
    BY <1>1, <1>5, <1>9, <2>3
  <2>7. p \in 1 .. m - 1
    BY <1>1, <1>7, <2>4
  <2> QED
    BY <2>5, <2>6, <2>7 DEF Trails
<1>10. Trails(new, S(m)) <=> Trails(src, m)
  BY <1>8, <1>9 DEF Trails
<1> QED
  BY <1>10 DEF S

LEMMA BareMoves ==
  ASSUME NEW src, NEW new, NEW e, NEW d, Moved(src, new, e, d), NEW q \in DOMAIN src
  PROVE  BareCr(new, Shift(e, d, q)) <=> BareCr(src, q)
<1> DEFINE S(p) == Shift(e, d, p)
<1>1. /\ Len(src) \in Nat /\ Len(new) \in Nat /\ DOMAIN src = 1 .. Len(src) /\ DOMAIN new = 1 .. Len(new)
      /\ \A p \in 1 .. Len(src) : S(p) \in 1 .. Len(new) /\ new[S(p)].t = src[p].t
      /\ \A p, r \in 1 .. Len(src) : p < r <=> S(p) < S(r)
      /\ \A k \in 1 .. Len(new) : k \in e .. e + d - 1 \/ \E p \in 1 .. Len(src) : k = S(p)
  BY ShiftIs
<1>2. \A p \in DOMAIN src : Same(new, S(p), S(q)) <=> Same(src, p, q)
  BY SameMoves
<1>3. /\ BareCr(src, q) <=> src[q].t = "cr" /\ Fresh(src, q)
      /\ BareCr(new, S(q)) <=> new[S(q)].t = "cr" /\ Fresh(new, S(q))
  <2>1. q \in DOMAIN src /\ S(q) \in DOMAIN new
    BY <1>1
  <2> HIDE DEF S
  <2> QED
    BY <2>1, BareIs DEF Moved
<1>4. BareCr(src, q) => AtTop(new, e, d) \/ q # e
  BY DEF Moved, AtEnd
<1>5. ASSUME BareCr(src, q), NEW k \in e .. e + d - 1, k < S(q) PROVE ~Same(new, k, S(q))
  <2>1. src[q].t # "nl"
    BY <1>3, <1>5
  <2> QED
    BY <1>4, <1>5, <2>1, NotOnLine
<1> HIDE DEF S
<1>6. ASSUME BareCr(src, q) PROVE BareCr(new, S(q))
  <2>1. ASSUME NEW k \in 1 .. S(q) - 1, Same(new, k, S(q)) PROVE new[k].t \in {"ws", "block"}
    <3>1. q \in 1 .. Len(src) /\ k < S(q) /\ k \in 1 .. Len(new)
      BY <1>1
    <3>2. PICK p \in 1 .. Len(src) : k = S(p)
      BY <1>1, <1>5, <1>6, <2>1, <3>1
    <3>3. p \in 1 .. q - 1 /\ Same(src, p, q)
      BY <1>1, <1>2, <2>1, <3>1, <3>2
    <3> QED
      BY <1>1, <1>3, <1>6, <3>2, <3>3 DEF Fresh
  <2> QED
    BY <1>1, <1>3, <1>6, <2>1 DEF Fresh
<1>7. ASSUME BareCr(new, S(q)) PROVE BareCr(src, q)
  <2>1. ASSUME NEW k \in 1 .. q - 1, Same(src, k, q) PROVE src[k].t \in {"ws", "block"}
    <3>1. k \in 1 .. Len(src) /\ q \in 1 .. Len(src) /\ k < q
      BY <1>1
    <3>2. S(k) \in 1 .. S(q) - 1 /\ Same(new, S(k), S(q))
      BY <1>1, <1>2, <2>1, <3>1
    <3> QED
      BY <1>1, <1>3, <1>7, <3>1, <3>2 DEF Fresh
  <2> QED
    BY <1>1, <1>3, <1>7, <2>1 DEF Fresh
<1> QED
  BY <1>6, <1>7 DEF S

LEMMA CodeMoves ==
  ASSUME NEW src, NEW new, NEW e, NEW d, Moved(src, new, e, d)
  PROVE  /\ \A p \in DOMAIN src : IsCode(new, Shift(e, d, p)) <=> IsCode(src, p)
         /\ \A k \in e .. e + d - 1 : ~IsCode(new, k) /\ ~BareCr(new, k)
         /\ CodeAt(new) = {Shift(e, d, p) : p \in CodeAt(src)}
<1> DEFINE S(p) == Shift(e, d, p)
<1>1. /\ Len(src) \in Nat /\ Len(new) \in Nat /\ DOMAIN src = 1 .. Len(src) /\ DOMAIN new = 1 .. Len(new)
      /\ \A p \in 1 .. Len(src) : S(p) \in 1 .. Len(new) /\ new[S(p)].t = src[p].t
      /\ \A k \in 1 .. Len(new) : k \in e .. e + d - 1 \/ \E p \in 1 .. Len(src) : k = S(p)
  BY ShiftIs
<1> HIDE DEF S
<1>2. \A p \in DOMAIN src : IsCode(new, S(p)) <=> IsCode(src, p)
  BY <1>1 DEF IsCode
<1>3. \A k \in e .. e + d - 1 : ~IsCode(new, k) /\ ~BareCr(new, k)
  BY DEF Moved, Spread, IsCode, Code, BareCr
<1>4. CodeAt(new) = {S(p) : p \in CodeAt(src)}
  <2>1. ASSUME NEW k \in CodeAt(new) PROVE k \in {S(p) : p \in CodeAt(src)}
    <3>1. k \in 1 .. Len(new) /\ IsCode(new, k)
      BY <1>1, <2>1, CodeIs
    <3>2. PICK p \in 1 .. Len(src) : k = S(p)
      BY <1>1, <1>3, <3>1
    <3>3. p \in CodeAt(src)
      BY <1>1, <1>2, <3>1, <3>2, CodeIs
    <3> QED
      BY <3>2, <3>3
  <2>2. ASSUME NEW p \in CodeAt(src) PROVE S(p) \in CodeAt(new)
    BY <1>1, <1>2, <2>2, CodeIs
  <2> QED
    BY <2>1, <2>2
<1> QED
  BY <1>2, <1>3, <1>4 DEF S

LEMMA FindsMoves ==
  ASSUME NEW src, NEW new, NEW e, NEW d, Moved(src, new, e, d),
         NEW m \in DOMAIN src, NEW p \in DOMAIN src
  PROVE  Finds(new, Shift(e, d, m), Shift(e, d, p)) <=> Finds(src, m, p)
<1> DEFINE S(q) == Shift(e, d, q)
<1>1. /\ Len(src) \in Nat /\ Len(new) \in Nat /\ DOMAIN src = 1 .. Len(src) /\ DOMAIN new = 1 .. Len(new)
      /\ \A q \in 1 .. Len(src) : S(q) \in 1 .. Len(new) /\ new[S(q)].t = src[q].t
      /\ \A a, b \in 1 .. Len(src) : a < b <=> S(a) < S(b)
  BY ShiftIs
<1>2. \A q \in DOMAIN src : /\ Same(new, S(q), S(p)) <=> Same(src, q, p)
                            /\ BareCr(new, S(q)) <=> BareCr(src, q)
                            /\ IsCode(new, S(q)) <=> IsCode(src, q)
  BY SameMoves, BareMoves, CodeMoves
<1>3. \A k \in e .. e + d - 1 : ~IsCode(new, k) /\ ~BareCr(new, k)
  BY CodeMoves
<1>4. \A k \in S(m) .. S(p) : k \in e .. e + d - 1 \/ \E q \in m .. p : k = S(q)
  BY Between
<1>5. m <= p <=> S(m) <= S(p)
  BY <1>1
<1>6. \A q \in m .. p : q \in DOMAIN src /\ S(q) \in S(m) .. S(p)
  <2> TAKE q \in m .. p
  <2>1. q \in 1 .. Len(src)
    BY <1>1
  <2> QED
    BY <1>1, <2>1 DEF Shift
<1> HIDE DEF S
<1>7. ASSUME Finds(src, m, p) PROVE Finds(new, S(m), S(p))
  <2>1. ASSUME NEW k \in S(m) .. S(p) PROVE (IsCode(new, k) => Same(new, k, S(p))) /\ ~BareCr(new, k)
    <3>1. CASE k \in e .. e + d - 1
      BY <1>3, <3>1
    <3>2. CASE \E q \in m .. p : k = S(q)
      <4>1. PICK q \in m .. p : k = S(q)
        BY <3>2
      <4> QED
        BY <1>2, <1>6, <1>7, <4>1 DEF Finds
    <3> QED
      BY <1>4, <3>1, <3>2
  <2> QED
    BY <1>5, <1>7, <2>1 DEF Finds
<1>8. ASSUME Finds(new, S(m), S(p)) PROVE Finds(src, m, p)
  <2>1. ASSUME NEW q \in m .. p PROVE (IsCode(src, q) => Same(src, q, p)) /\ ~BareCr(src, q)
    BY <1>2, <1>6, <1>8, <2>1 DEF Finds
  <2> QED
    BY <1>5, <1>8, <2>1 DEF Finds
<1> QED
  BY <1>7, <1>8 DEF S

LEMMA TopMoves ==
  ASSUME NEW src, NEW new, NEW e, NEW d, Moved(src, new, e, d), NEW m \in DOMAIN src
  PROVE  TopOfFile(new, Shift(e, d, m)) <=> TopOfFile(src, m)
<1> DEFINE S(q) == Shift(e, d, q)
<1>1. /\ Len(src) \in Nat /\ Len(new) \in Nat /\ DOMAIN src = 1 .. Len(src) /\ DOMAIN new = 1 .. Len(new)
      /\ \A q \in 1 .. Len(src) : S(q) \in 1 .. Len(new) /\ new[S(q)].t = src[q].t
      /\ \A a, b \in 1 .. Len(src) : a < b <=> S(a) < S(b)
      /\ \A k \in 1 .. Len(new) : k \in e .. e + d - 1 \/ \E p \in 1 .. Len(src) : k = S(p)
  BY ShiftIs
<1>2. /\ \A p \in DOMAIN src : IsCode(new, S(p)) <=> IsCode(src, p)
      /\ \A k \in e .. e + d - 1 : ~IsCode(new, k)
  BY CodeMoves
<1> HIDE DEF S
<1>3. ASSUME TopOfFile(src, m), NEW k \in 1 .. S(m) - 1 PROVE ~IsCode(new, k)
  <2>1. k \in 1 .. Len(new) /\ k < S(m) /\ m \in 1 .. Len(src)
    BY <1>1
  <2>2. CASE k \in e .. e + d - 1
    BY <1>2, <2>2
  <2>3. CASE \E p \in 1 .. Len(src) : k = S(p)
    <3>1. PICK p \in 1 .. Len(src) : k = S(p)
      BY <2>3
    <3>2. p \in 1 .. m - 1
      BY <1>1, <2>1, <3>1
    <3> QED
      BY <1>1, <1>2, <1>3, <3>1, <3>2 DEF TopOfFile
  <2> QED
    BY <1>1, <2>1, <2>2, <2>3
<1>4. ASSUME TopOfFile(new, S(m)), NEW k \in 1 .. m - 1 PROVE ~IsCode(src, k)
  <2>1. k \in 1 .. Len(src) /\ m \in 1 .. Len(src) /\ k < m
    BY <1>1
  <2>2. S(k) \in 1 .. S(m) - 1
    BY <1>1, <2>1
  <2> QED
    BY <1>1, <1>2, <1>4, <2>1, <2>2 DEF TopOfFile
<1> QED
  BY <1>3, <1>4 DEF S, TopOfFile

LEMMA FirstCodeMoves ==
  ASSUME NEW src, NEW new, NEW e, NEW d, Moved(src, new, e, d), NEW m \in DOMAIN src
  PROVE  /\ \A f \in DOMAIN src : FirstCode(new, Shift(e, d, m), Shift(e, d, f)) <=> FirstCode(src, m, f)
         /\ \A g : FirstCode(new, Shift(e, d, m), g) => \E f \in DOMAIN src : g = Shift(e, d, f)
<1> DEFINE S(q) == Shift(e, d, q)
<1>1. /\ Len(src) \in Nat /\ Len(new) \in Nat /\ DOMAIN src = 1 .. Len(src) /\ DOMAIN new = 1 .. Len(new)
      /\ \A q \in 1 .. Len(src) : S(q) \in 1 .. Len(new) /\ new[S(q)].t = src[q].t
      /\ \A a, b \in 1 .. Len(src) : a < b <=> S(a) < S(b)
      /\ \A k \in 1 .. Len(new) : k \in e .. e + d - 1 \/ \E p \in 1 .. Len(src) : k = S(p)
  BY ShiftIs
<1>2. /\ \A p \in DOMAIN src : IsCode(new, S(p)) <=> IsCode(src, p)
      /\ \A k \in e .. e + d - 1 : ~IsCode(new, k)
  BY CodeMoves
<1> HIDE DEF S
<1>3. ASSUME NEW f \in DOMAIN src, FirstCode(src, m, f) PROVE FirstCode(new, S(m), S(f))
  <2>1. ASSUME NEW k \in S(m) + 1 .. S(f) - 1 PROVE ~IsCode(new, k)
    <3>1. k \in 1 .. Len(new) /\ S(m) < k /\ k < S(f) /\ m \in 1 .. Len(src) /\ f \in 1 .. Len(src)
      BY <1>1
    <3>2. CASE k \in e .. e + d - 1
      BY <1>2, <3>2
    <3>3. CASE \E p \in 1 .. Len(src) : k = S(p)
      <4>1. PICK p \in 1 .. Len(src) : k = S(p)
        BY <3>3
      <4>2. p \in m + 1 .. f - 1
        BY <1>1, <3>1, <4>1
      <4> QED
        BY <1>1, <1>2, <1>3, <4>1, <4>2 DEF FirstCode
    <3> QED
      BY <1>1, <3>1, <3>2, <3>3
  <2> QED
    BY <1>1, <1>2, <1>3, <2>1 DEF FirstCode
<1>4. ASSUME NEW f \in DOMAIN src, FirstCode(new, S(m), S(f)) PROVE FirstCode(src, m, f)
  <2>1. ASSUME NEW k \in m + 1 .. f - 1 PROVE ~IsCode(src, k)
    <3>1. k \in 1 .. Len(src) /\ m \in 1 .. Len(src) /\ f \in 1 .. Len(src) /\ m < k /\ k < f
      BY <1>1
    <3>2. S(k) \in S(m) + 1 .. S(f) - 1
      BY <1>1, <3>1
    <3> QED
      BY <1>1, <1>2, <1>4, <3>1, <3>2 DEF FirstCode
  <2> QED
    BY <1>1, <1>2, <1>4, <2>1 DEF FirstCode
<1>5. ASSUME NEW g, FirstCode(new, S(m), g) PROVE \E f \in DOMAIN src : g = S(f)
  BY <1>1, <1>2, <1>5 DEF FirstCode
<1> QED
  BY <1>3, <1>4, <1>5 DEF S

\* The braces from a to b are those from where a is to any y before the next brace.
LEMMA CountMoves ==
  ASSUME NEW src, NEW new, NEW e, NEW d, Moved(src, new, e, d),
         NEW a \in DOMAIN src, NEW b \in DOMAIN src, NEW c \in {"open", "close"}, NEW y \in 1 .. Len(new),
         Shift(e, d, b) <= y, \A k \in Shift(e, d, b) + 1 .. y : k \in e .. e + d - 1
  PROVE  Count(new, c, Shift(e, d, a), y) = Count(src, c, a, b)
<1> DEFINE S(q) == Shift(e, d, q)
           A == {k \in a .. b : src[k].t = c}
           B == {k \in S(a) .. y : new[k].t = c}
<1>1. /\ Len(src) \in Nat /\ Len(new) \in Nat /\ DOMAIN src = 1 .. Len(src) /\ DOMAIN new = 1 .. Len(new)
      /\ e \in 1 .. Len(src) + 1 /\ d \in Nat /\ Len(new) = Len(src) + d
      /\ \A q \in 1 .. Len(src) : S(q) \in 1 .. Len(new) /\ new[S(q)].t = src[q].t
      /\ \A p, q \in 1 .. Len(src) : p < q <=> S(p) < S(q)
  BY ShiftIs
<1>2. \A k \in e .. e + d - 1 : new[k].t # c
  BY DEF Moved, Spread
<1>3. \A k \in S(a) .. S(b) : k \in e .. e + d - 1 \/ \E p \in a .. b : k = S(p)
  BY Between
<1> HIDE DEF S
<1>4. B = {S(x) : x \in A}
  <2>1. ASSUME NEW k \in B PROVE k \in {S(x) : x \in A}
    <3>1. k \notin e .. e + d - 1
      BY <1>2, <2>1
    <3>2. k \in S(a) .. S(b)
      <4>1. a \in 1 .. Len(src) /\ b \in 1 .. Len(src) /\ S(a) \in Nat /\ S(b) \in Nat
        BY <1>1
      <4>2. k \in S(a) .. y /\ k \notin S(b) + 1 .. y
        BY <2>1, <3>1 DEF S
      <4> QED
        BY <1>1, <4>1, <4>2
    <3>3. PICK x \in a .. b : k = S(x)
      BY <1>3, <3>1, <3>2
    <3>4. x \in A
      <4>1. x \in 1 .. Len(src)
        BY <1>1
      <4> QED
        BY <1>1, <2>1, <3>3, <4>1
    <3> QED
      BY <3>3, <3>4
  <2>2. ASSUME NEW x \in A PROVE S(x) \in B
    <3>1. x \in 1 .. Len(src) /\ a \in 1 .. Len(src) /\ b \in 1 .. Len(src) /\ a <= x /\ x <= b
      BY <1>1
    <3>2. S(x) \in Nat /\ S(a) \in Nat /\ S(b) \in Nat /\ S(a) <= S(x) /\ S(x) <= S(b)
      BY <1>1, <3>1
    <3>3. S(b) <= y
      BY DEF S
    <3>4. S(x) \in S(a) .. y
      BY <3>2, <3>3
    <3> QED
      BY <1>1, <2>2, <3>1, <3>4
  <2> QED
    BY <2>1, <2>2
<1>5. A \subseteq Nat /\ IsFiniteSet(A)
  <2>1. a \in Int /\ b \in Int /\ a .. b \subseteq Nat
    BY <1>1
  <2> QED
    BY <2>1, CountIs
<1>6. Cardinality({S(x) : x \in A}) = Cardinality(A)
  <2> HIDE DEF A
  <2>1. e \in Nat
    BY <1>1
  <2>2. Cardinality({Shift(e, d, x) : x \in A}) = Cardinality(A)
    BY <1>1, <1>5, <2>1, ShiftCount
  <2> QED
    BY <2>2 DEF S
<1> HIDE DEF A, B
<1>7. Cardinality(B) = Cardinality(A)
  BY <1>4, <1>6
<1> QED
  BY <1>7 DEF A, B, S, Count

LEMMA InsideMoves ==
  ASSUME NEW src, NEW new, NEW e, NEW d, Moved(src, new, e, d),
         NEW a \in DOMAIN src, NEW p \in DOMAIN src
  PROVE  Inside(new, Shift(e, d, a), Shift(e, d, p)) <=> Inside(src, a, p)
<1> DEFINE S(q) == Shift(e, d, q)
<1>1. /\ Len(src) \in Nat /\ Len(new) \in Nat /\ DOMAIN src = 1 .. Len(src) /\ DOMAIN new = 1 .. Len(new)
      /\ e \in 1 .. Len(src) + 1 /\ d \in Nat /\ Len(new) = Len(src) + d
      /\ \A q \in 1 .. Len(src) : S(q) \in 1 .. Len(new) /\ new[S(q)].t = src[q].t
      /\ \A q, r \in 1 .. Len(src) : q < r <=> S(q) < S(r)
  BY ShiftIs
<1>2. ASSUME NEW b \in DOMAIN src, NEW y \in 1 .. Len(new), S(b) <= y, \A k \in S(b) + 1 .. y : k \in e .. e + d - 1
      PROVE  Depth(new, S(a), y) = Depth(src, a, b)
  <2>1. /\ Count(new, "open", S(a), y) = Count(src, "open", a, b)
        /\ Count(new, "close", S(a), y) = Count(src, "close", a, b)
    BY <1>2, CountMoves
  <2> QED
    BY <2>1 DEF Depth
<1>3. ASSUME NEW b \in DOMAIN src PROVE Depth(new, S(a), S(b)) = Depth(src, a, b)
  <2>1. S(b) \in 1 .. Len(new) /\ S(b) <= S(b) /\ S(b) + 1 .. S(b) = {}
    BY <1>1
  <2> HIDE DEF S
  <2> QED
    BY <1>2, <2>1
<1>4. ASSUME NEW k \in e .. e + d - 1, a < e, e <= p PROVE Depth(new, S(a), k) = Depth(src, a, e - 1)
  <2>1. e - 1 \in DOMAIN src /\ S(e - 1) = e - 1 /\ k \in 1 .. Len(new)
    BY <1>1, <1>4 DEF Shift
  <2>2. S(e - 1) <= k /\ \A j \in S(e - 1) + 1 .. k : j \in e .. e + d - 1
    BY <1>1, <1>4, <2>1
  <2> HIDE DEF S
  <2> QED
    BY <1>2, <2>1, <2>2
<1>5. \A k \in S(a) .. S(p) : \/ \E q \in a .. p : k = S(q)
                              \/ k \in e .. e + d - 1 /\ a < e /\ e <= p /\ k < S(p)
  BY Between
<1> HIDE DEF S
<1>6. ASSUME Inside(src, a, p), NEW k \in S(a) .. S(p) - 1 PROVE Depth(new, S(a), k) > 0
  <2>1. a \in 1 .. Len(src) /\ p \in 1 .. Len(src) /\ S(a) \in Nat /\ S(p) \in Nat
    BY <1>1
  <2>2. k \in S(a) .. S(p) /\ k < S(p)
    BY <2>1
  <2>3. CASE \E q \in a .. p : k = S(q)
    <3>1. PICK q \in a .. p : k = S(q)
      BY <2>3
    <3>2. q \in a .. p - 1 /\ q \in DOMAIN src
      BY <1>1, <2>1, <2>2, <3>1
    <3> QED
      BY <1>3, <1>6, <3>1, <3>2 DEF Inside
  <2>4. CASE k \in e .. e + d - 1 /\ a < e /\ e <= p
    <3>1. e - 1 \in a .. p - 1
      BY <1>1, <2>1, <2>4
    <3> QED
      BY <1>4, <1>6, <2>4, <3>1 DEF Inside
  <2> QED
    BY <1>5, <2>2, <2>3, <2>4
<1>7. ASSUME Inside(new, S(a), S(p)), NEW q \in a .. p - 1 PROVE Depth(src, a, q) > 0
  <2>1. a \in 1 .. Len(src) /\ p \in 1 .. Len(src) /\ q \in 1 .. Len(src) /\ a <= q /\ q < p
    BY <1>1
  <2>2. S(q) \in S(a) .. S(p) - 1
    BY <1>1, <2>1
  <2> QED
    BY <1>1, <1>3, <1>7, <2>1, <2>2 DEF Inside
<1> QED
  BY <1>6, <1>7 DEF S, Inside

\* A marker keeps its scope when it trails, or when its list keeps the wildcard
\* or its absence.
LEMMA SilencesMoves ==
  ASSUME NEW src, NEW new, NEW e, NEW d, Moved(src, new, e, d),
         NEW m \in DOMAIN src, src[m].t = "comment", NEW p \in DOMAIN src,
         Trails(src, m) \/ (Wildcard \in parse_marker(new[Shift(e, d, m)])
                             <=> Wildcard \in parse_marker(src[m]))
  PROVE  Silences(new, Shift(e, d, m), Shift(e, d, p)) <=> Silences(src, m, p)
<1> DEFINE S(q) == Shift(e, d, q)
<1>1. /\ Len(src) \in Nat /\ DOMAIN src = 1 .. Len(src) /\ DOMAIN new = 1 .. Len(new)
      /\ \A q \in 1 .. Len(src) : S(q) \in 1 .. Len(new) /\ new[S(q)].t = src[q].t
      /\ \A q, r \in 1 .. Len(src) : q < r <=> S(q) < S(r)
  BY ShiftIs
<1>2. /\ Trails(new, S(m)) <=> Trails(src, m)
      /\ OneLine(new, S(m), S(p)) <=> OneLine(src, m, p)
      /\ TopOfFile(new, S(m)) <=> TopOfFile(src, m)
      /\ Finds(new, S(m), S(p)) <=> Finds(src, m, p)
  BY TrailsMoves, OneLineMoves, TopMoves, FindsMoves
<1>3. /\ \A f \in DOMAIN src : FirstCode(new, S(m), S(f)) <=> FirstCode(src, m, f)
      /\ \A g : FirstCode(new, S(m), g) => \E f \in DOMAIN src : g = S(f)
  BY FirstCodeMoves
<1>4. \A f \in DOMAIN src : Inside(new, S(f), S(p)) <=> Inside(src, f, p)
  BY InsideMoves
<1>5. \A f \in DOMAIN src : /\ S(f) \in DOMAIN new /\ new[S(f)].t = src[f].t
                            /\ f <= p <=> S(f) <= S(p)
  <2> TAKE f \in DOMAIN src
  <2>1. f \in 1 .. Len(src) /\ p \in 1 .. Len(src) /\ S(f) \in Nat /\ S(p) \in Nat
    BY <1>1 DEF Shift
  <2> HIDE DEF S
  <2> QED
    BY <1>1, <2>1
<1> HIDE DEF S
<1>6. InBlock(new, S(m), S(p)) <=> InBlock(src, m, p)
  <2>1. ASSUME NEW f \in DOMAIN src
        PROVE  (FirstCode(new, S(m), S(f)) /\ new[S(f)].t = "open" /\ S(f) <= S(p) /\ Inside(new, S(f), S(p)))
               <=> (FirstCode(src, m, f) /\ src[f].t = "open" /\ f <= p /\ Inside(src, f, p))
    BY <1>3, <1>4, <1>5
  <2>2. ASSUME InBlock(src, m, p) PROVE InBlock(new, S(m), S(p))
    BY <1>5, <2>1, <2>2 DEF InBlock
  <2>3. ASSUME InBlock(new, S(m), S(p)) PROVE InBlock(src, m, p)
    <3>1. PICK g \in DOMAIN new : FirstCode(new, S(m), g) /\ new[g].t = "open" /\ g <= S(p) /\ Inside(new, g, S(p))
      BY <2>3 DEF InBlock
    <3>2. PICK f \in DOMAIN src : g = S(f)
      BY <1>3, <3>1
    <3> QED
      BY <2>1, <3>1, <3>2 DEF InBlock
  <2> QED
    BY <2>2, <2>3
<1>7. NoBlock(new, S(m)) <=> NoBlock(src, m)
  BY <1>3, <1>5 DEF NoBlock
<1>8. Trails(src, m) \/ (Wildcard \in parse_marker(new[S(m)]) <=> Wildcard \in parse_marker(src[m]))
  BY DEF S
<1>9. Silences(new, S(m), S(p)) <=> Silences(src, m, p)
  BY <1>2, <1>6, <1>7, <1>8 DEF Silences
<1> QED
  BY <1>9 DEF S

LEMMA NumbersMove ==
  ASSUME NEW src, NEW new, NEW e, NEW d, Moved(src, new, e, d), NEW P, P \subseteq CodeAt(src)
  PROVE  Numbers(new, {Shift(e, d, p) : p \in P}) = Numbers(src, P)
<1> DEFINE S(q) == Shift(e, d, q)
           Upto(p) == {q \in CodeAt(src) : q <= p}
           UptoNew(k) == {q \in CodeAt(new) : q <= k}
<1>1. /\ Len(src) \in Nat /\ DOMAIN src = 1 .. Len(src)
      /\ e \in 1 .. Len(src) + 1 /\ d \in Nat /\ Len(new) = Len(src) + d
      /\ \A q, r \in 1 .. Len(src) : q < r <=> S(q) < S(r)
  BY ShiftIs
<1>2. CodeAt(src) \subseteq 1 .. Len(src)
  BY <1>1, CodeIs
<1>3. CodeAt(new) = {S(p) : p \in CodeAt(src)}
  BY CodeMoves
<1>4. \A p, q \in CodeAt(src) : q <= p <=> S(q) <= S(p)
  <2> TAKE p, q \in CodeAt(src)
  <2>1. p \in 1 .. Len(src) /\ q \in 1 .. Len(src)
    BY <1>2
  <2> QED
    BY <1>1, <2>1 DEF Shift
<1>5. ASSUME NEW p \in CodeAt(src) PROVE Cardinality(UptoNew(S(p))) = Cardinality(Upto(p))
  <2>1. UptoNew(S(p)) = {S(x) : x \in Upto(p)}
    <3> HIDE DEF S
    <3> QED
      BY <1>3, <1>4
  <2>2. Upto(p) \subseteq Nat /\ IsFiniteSet(Upto(p))
    <3>1. Upto(p) \in SUBSET (1 .. Len(src)) /\ IsFiniteSet(1 .. Len(src))
      BY <1>1, <1>2, FS_Interval
    <3>2. IsFiniteSet(Upto(p))
      BY <3>1, FS_Subset
    <3> QED
      BY <1>1, <3>1, <3>2
  <2>3. e \in Nat
    BY <1>1
  <2> HIDE DEF Upto
  <2>4. Cardinality({Shift(e, d, x) : x \in Upto(p)}) = Cardinality(Upto(p))
    BY <1>1, <2>2, <2>3, ShiftCount
  <2> QED
    BY <2>1, <2>4
<1>6. Numbers(new, {S(p) : p \in P}) = {Cardinality(UptoNew(S(p))) : p \in P}
  BY DEF Numbers
<1>7. Numbers(src, P) = {Cardinality(Upto(p)) : p \in P}
  BY DEF Numbers
<1> HIDE DEF Upto, UptoNew, S
<1>8. \A p \in P : Cardinality(UptoNew(S(p))) = Cardinality(Upto(p))
  BY <1>5
<1>9. {Cardinality(UptoNew(S(p))) : p \in P} = {Cardinality(Upto(p)) : p \in P}
  BY <1>8
<1>10. Numbers(new, {S(p) : p \in P}) = Numbers(src, P)
  BY <1>6, <1>7, <1>9
<1> QED
  BY <1>10 DEF S

LEMMA NumbersJoin ==
  ASSUME NEW src, NEW P, NEW Q
  PROVE  /\ Numbers(src, P \cup Q) = Numbers(src, P) \cup Numbers(src, Q)
         /\ P \subseteq Q => Numbers(src, P) \subseteq Numbers(src, Q)
<1> QED
  BY DEF Numbers

-----------------------------------------------------------------------------
(* What the commands make of a text *)

LEMMA CoversIs ==
  ASSUME NEW src, WellFormed(src), NEW m \in DOMAIN src, src[m].t = "comment", NEW p \in CodeAt(src)
  PROVE  covers(src, m, p, p + 1) <=> Silences(src, m, p)
<1>1. p \in DOMAIN src /\ IsCode(src, p)
  BY CodeIs
<1>2. p \in Nat /\ p # p + 1
  BY <1>1, Positions
<1>3. covers(src, m, p, p + 1) <=> Within(resolve_scope(src, m), p)
  BY <1>2 DEF covers, Within
<1> QED
  BY <1>1, <1>3, ScopeIs

LEMMA CoveredIs ==
  ASSUME NEW src, WellFormed(src), NEW r
  PROVE  /\ MarkersFor(src, r) \subseteq {m \in DOMAIN src : src[m].t = "comment" /\ parse_marker(src[m]) # {}}
         /\ Covered(src, r) = {p \in CodeAt(src) : \E m \in MarkersFor(src, r) : Silences(src, m, p)}
<1>1. MarkersFor(src, r) \subseteq {m \in DOMAIN src : src[m].t = "comment" /\ parse_marker(src[m]) # {}}
  BY DEF MarkersFor, Markers
<1>2. ASSUME NEW p \in CodeAt(src)
      PROVE  suppresses(src, r, p, p + 1) <=> \E m \in MarkersFor(src, r) : Silences(src, m, p)
  BY <1>1, CoversIs DEF suppresses
<1>3. Covered(src, r) = {p \in CodeAt(src) : \E m \in MarkersFor(src, r) : Silences(src, m, p)}
  BY <1>2 DEF Covered
<1> QED
  BY <1>1, <1>3

\* The markers of rule r in the new text are the old ones and those of N.
MarkersMoved(src, new, e, d, r, N) ==
  MarkersFor(new, r) = {Shift(e, d, m) : m \in MarkersFor(src, r)} \cup N
ListsKept(src, new, e, d) ==
  \A m \in DOMAIN src : src[m].t = "comment" /\ parse_marker(src[m]) # {} =>
    (Wildcard \in parse_marker(new[Shift(e, d, m)]) <=> Wildcard \in parse_marker(src[m]))

LEMMA CoveredMoves ==
  ASSUME NEW src, NEW new, NEW e, NEW d, Moved(src, new, e, d), ListsKept(src, new, e, d),
         NEW r, NEW N, MarkersMoved(src, new, e, d, r, N)
  PROVE  /\ Covered(new, r) = {Shift(e, d, p) : p \in Covered(src, r)}
                                \cup {k \in CodeAt(new) : \E n \in N : Silences(new, n, k)}
         /\ Silenced(src, r) \subseteq Silenced(new, r)
         /\ Silenced(new, r) = Silenced(src, r) \cup Numbers(new, {k \in CodeAt(new) : \E n \in N : Silences(new, n, k)})
<1> DEFINE S(q) == Shift(e, d, q)
           C == {k \in CodeAt(new) : \E n \in N : Silences(new, n, k)}
<1>1. WellFormed(src) /\ WellFormed(new)
  BY DEF Moved
<1>2. /\ MarkersFor(src, r) \subseteq {m \in DOMAIN src : src[m].t = "comment" /\ parse_marker(src[m]) # {}}
      /\ Covered(src, r) = {p \in CodeAt(src) : \E m \in MarkersFor(src, r) : Silences(src, m, p)}
      /\ Covered(new, r) = {k \in CodeAt(new) : \E m \in MarkersFor(new, r) : Silences(new, m, k)}
  BY <1>1, CoveredIs
<1>3. CodeAt(new) = {S(p) : p \in CodeAt(src)}
  BY CodeMoves
<1>4. ASSUME NEW m \in MarkersFor(src, r), NEW p \in CodeAt(src)
      PROVE  Silences(new, S(m), S(p)) <=> Silences(src, m, p)
  <2>1. m \in DOMAIN src /\ src[m].t = "comment" /\ parse_marker(src[m]) # {} /\ p \in DOMAIN src
    BY <1>2, CodeIs
  <2>2. Wildcard \in parse_marker(new[Shift(e, d, m)]) <=> Wildcard \in parse_marker(src[m])
    BY <2>1 DEF ListsKept
  <2> QED
    BY <2>1, <2>2, SilencesMoves
<1>5. MarkersFor(new, r) = {S(m) : m \in MarkersFor(src, r)} \cup N
  BY DEF MarkersMoved
<1> HIDE DEF S
<1>6. Covered(new, r) = {S(p) : p \in Covered(src, r)} \cup C
  <2>1. ASSUME NEW k \in Covered(new, r) PROVE k \in {S(p) : p \in Covered(src, r)} \cup C
    <3>1. k \in CodeAt(new)
      BY <1>2, <2>1
    <3>2. PICK n \in MarkersFor(new, r) : Silences(new, n, k)
      BY <1>2, <2>1
    <3>3. PICK p \in CodeAt(src) : k = S(p)
      BY <1>3, <3>1
    <3>4. CASE n \in N
      BY <3>1, <3>2, <3>4
    <3>5. CASE \E m \in MarkersFor(src, r) : n = S(m)
      <4>1. PICK m \in MarkersFor(src, r) : n = S(m)
        BY <3>5
      <4>2. Silences(src, m, p)
        BY <1>4, <3>2, <3>3, <4>1
      <4> QED
        BY <1>2, <3>3, <4>2
    <3> QED
      BY <1>5, <3>4, <3>5
  <2>2. ASSUME NEW p \in Covered(src, r) PROVE S(p) \in Covered(new, r)
    <3>1. p \in CodeAt(src)
      BY <1>2, <2>2
    <3>2. PICK m \in MarkersFor(src, r) : Silences(src, m, p)
      BY <1>2, <2>2
    <3>3. S(m) \in MarkersFor(new, r) /\ S(p) \in CodeAt(new) /\ Silences(new, S(m), S(p))
      BY <1>3, <1>4, <1>5, <3>1, <3>2
    <3> QED
      BY <1>2, <3>3
  <2>3. ASSUME NEW k \in C PROVE k \in Covered(new, r)
    BY <1>2, <1>5, <2>3
  <2> HIDE DEF C
  <2> QED
    BY <2>1, <2>2, <2>3
<1>7. Silenced(new, r) = Numbers(new, {S(p) : p \in Covered(src, r)}) \cup Numbers(new, C)
  <2> HIDE DEF C
  <2> QED
    BY <1>6, NumbersJoin DEF Silenced
<1>8. Numbers(new, {S(p) : p \in Covered(src, r)}) = Silenced(src, r)
  <2>1. Covered(src, r) \subseteq CodeAt(src)
    BY <1>2
  <2>2. Numbers(new, {Shift(e, d, p) : p \in Covered(src, r)}) = Numbers(src, Covered(src, r))
    BY <2>1, NumbersMove
  <2> QED
    BY <2>2 DEF S, Silenced
<1> HIDE DEF C
<1>9. Silenced(new, r) = Silenced(src, r) \cup Numbers(new, C)
  BY <1>7, <1>8
<1>10. Silenced(src, r) \subseteq Silenced(new, r)
  BY <1>9
<1> QED
  BY <1>6, <1>9, <1>10 DEF S, C

\* new is src with two tokens put before e.
IsPut(src, new, e, x, y) ==
  /\ new \in Seq(Tokens) /\ Len(new) = Len(src) + 2
  /\ \A p \in DOMAIN src : new[Shift(e, 2, p)] = src[p]
  /\ new[e] = x /\ new[e + 1] = y

LEMMA PutIs ==
  ASSUME NEW src \in Seq(Tokens), NEW e \in 1 .. Len(src) + 1, NEW x \in Tokens, NEW y \in Tokens
  PROVE  IsPut(src, SubSeq(src, 1, e - 1) \o <<x, y>> \o SubSeq(src, e, Len(src)), e, x, y)
<1> DEFINE A == SubSeq(src, 1, e - 1)
           B == <<x, y>>
           C == SubSeq(src, e, Len(src))
           L == A \o B
           new == L \o C
<1>0. Len(src) \in Nat /\ DOMAIN src = 1 .. Len(src)
  OBVIOUS
<1>00. \A i \in 1 .. Len(src) : src[i] \in Tokens
  BY ElementOfSeq
<1>1. A \in Seq(Tokens) /\ Len(A) = e - 1 /\ \A i \in 1 .. e - 1 : A[i] = src[i]
  <2>1. \A i \in 1 .. e - 1 : src[i] \in Tokens
    BY <1>0, <1>00
  <2>2. /\ A \in Seq(Tokens)
        /\ Len(A) = IF 1 <= e - 1 THEN (e - 1) - 1 + 1 ELSE 0
        /\ \A i \in 1 .. (e - 1) - 1 + 1 : A[i] = src[1 + i - 1]
    <3> e - 1 \in Int /\ 1 \in Int
      BY <1>0
    <3> QED
      BY <2>1, SubSeqProperties
  <2> HIDE DEF A
  <2> QED
    BY <1>0, <2>2
<1>2. C \in Seq(Tokens) /\ Len(C) = Len(src) + 1 - e
      /\ \A i \in 1 .. Len(src) + 1 - e : C[i] = src[e + i - 1]
  <2>1. \A i \in e .. Len(src) : src[i] \in Tokens
    BY <1>0, <1>00
  <2>2. /\ C \in Seq(Tokens)
        /\ Len(C) = IF e <= Len(src) THEN Len(src) - e + 1 ELSE 0
        /\ \A i \in 1 .. Len(src) - e + 1 : C[i] = src[e + i - 1]
    <3> e \in Int /\ Len(src) \in Int
      BY <1>0
    <3> QED
      BY <2>1, SubSeqProperties
  <2> HIDE DEF C
  <2> QED
    BY <1>0, <2>2
<1>3. B \in Seq(Tokens) /\ Len(B) = 2 /\ B[1] = x /\ B[2] = y
  OBVIOUS
<1> HIDE DEF A, B, C
<1>4. /\ L \in Seq(Tokens) /\ Len(L) = e + 1
      /\ \A i \in 1 .. e - 1 : L[i] = src[i]
      /\ L[e] = x /\ L[e + 1] = y
  <2>1. /\ L \in Seq(Tokens)
        /\ Len(L) = Len(A) + Len(B)
        /\ \A i \in 1 .. Len(A) + Len(B) : L[i] = IF i <= Len(A) THEN A[i] ELSE B[i - Len(A)]
    BY <1>1, <1>3, ConcatProperties
  <2> HIDE DEF L
  <2>2. L \in Seq(Tokens) /\ Len(L) = e + 1
    BY <1>0, <1>1, <1>3, <2>1
  <2>3. \A i \in 1 .. e - 1 : L[i] = src[i]
    BY <1>0, <1>1, <1>3, <2>1
  <2>4. L[e] = x
    <3>1. e \in 1 .. Len(A) + Len(B) /\ ~(e <= Len(A)) /\ e - Len(A) = 1
      BY <1>0, <1>1, <1>3
    <3> QED
      BY <1>3, <2>1, <3>1
  <2>5. L[e + 1] = y
    <3>1. e + 1 \in 1 .. Len(A) + Len(B) /\ ~(e + 1 <= Len(A)) /\ (e + 1) - Len(A) = 2
      BY <1>0, <1>1, <1>3
    <3> QED
      BY <1>3, <2>1, <3>1
  <2> QED
    BY <2>2, <2>3, <2>4, <2>5
<1> HIDE DEF L
<1>5. /\ new \in Seq(Tokens)
      /\ Len(new) = Len(L) + Len(C)
      /\ \A i \in 1 .. Len(L) + Len(C) : new[i] = IF i <= Len(L) THEN L[i] ELSE C[i - Len(L)]
  BY <1>2, <1>4, ConcatProperties
<1> HIDE DEF new
<1>6. Len(new) = Len(src) + 2 /\ new[e] = x /\ new[e + 1] = y
  BY <1>0, <1>2, <1>4, <1>5
<1>7. ASSUME NEW p \in DOMAIN src PROVE new[Shift(e, 2, p)] = src[p]
  <2>1. CASE p < e
    <3>1. Shift(e, 2, p) = p /\ p \in 1 .. Len(L) + Len(C) /\ p <= Len(L) /\ p \in 1 .. e - 1
      BY <1>0, <1>2, <1>4, <2>1 DEF Shift
    <3> QED
      BY <1>4, <1>5, <3>1
  <2>2. CASE e <= p
    <3>1. Shift(e, 2, p) = p + 2
      BY <1>0, <2>2 DEF Shift
    <3>2. p + 2 \in 1 .. Len(L) + Len(C) /\ ~(p + 2 <= Len(L)) /\ (p + 2) - Len(L) = p + 1 - e
      BY <1>0, <1>2, <1>4, <2>2
    <3>3. p + 1 - e \in 1 .. Len(src) + 1 - e /\ e + (p + 1 - e) - 1 = p
      BY <1>0, <2>2
    <3>4. new[p + 2] = C[p + 1 - e]
      BY <1>5, <3>2
    <3>5. C[p + 1 - e] = src[p]
      BY <1>2, <3>3
    <3> QED
      BY <3>1, <3>4, <3>5
  <2> QED
    BY <1>0, <2>1, <2>2
<1>8. IsPut(src, new, e, x, y)
  BY <1>5, <1>6, <1>7 DEF IsPut
<1> QED
  BY <1>8 DEF new, L, A, B, C

LEMMA PutFirst ==
  ASSUME NEW src \in Seq(Tokens), NEW x \in Tokens, NEW y \in Tokens
  PROVE  IsPut(src, <<x, y>> \o src, 1, x, y)
<1> DEFINE B == <<x, y>>
           new == B \o src
<1>0. Len(src) \in Nat /\ DOMAIN src = 1 .. Len(src)
  OBVIOUS
<1>3. B \in Seq(Tokens) /\ Len(B) = 2 /\ B[1] = x /\ B[2] = y
  OBVIOUS
<1> HIDE DEF B
<1>5. /\ new \in Seq(Tokens)
      /\ Len(new) = Len(B) + Len(src)
      /\ \A i \in 1 .. Len(B) + Len(src) : new[i] = IF i <= Len(B) THEN B[i] ELSE src[i - Len(B)]
  BY <1>3, ConcatProperties
<1> HIDE DEF new
<1>6. Len(new) = Len(src) + 2 /\ new[1] = x /\ new[1 + 1] = y
  BY <1>0, <1>3, <1>5
<1>7. ASSUME NEW p \in DOMAIN src PROVE new[Shift(1, 2, p)] = src[p]
  <2>1. Shift(1, 2, p) = p + 2 /\ p + 2 \in 1 .. Len(B) + Len(src) /\ ~(p + 2 <= Len(B)) /\ (p + 2) - Len(B) = p
    BY <1>0, <1>3 DEF Shift
  <2> QED
    BY <1>5, <2>1
<1>8. IsPut(src, new, 1, x, y)
  BY <1>5, <1>6, <1>7 DEF IsPut
<1> QED
  BY <1>8 DEF new, B

\* The new text is well formed when no comment or carriage return loses what
\* stands behind it.
LEMMA WellPut ==
  ASSUME NEW src, WellFormed(src), NEW e \in 1 .. Len(src) + 1, NEW new, NEW x, NEW y,
         IsPut(src, new, e, x, y),
         e > 1 => src[e - 1].t \notin {"comment", "cr"},
         x.t # "cr" /\ (x.t = "comment" => y.t \in {"cr", "nl"}),
         y.t # "cr" /\ (y.t = "comment" => e = Len(src) + 1 \/ src[e].t \in {"cr", "nl"})
  PROVE  WellFormed(new)
<1> DEFINE S(p) == Shift(e, 2, p)
<1>1. Len(src) \in Nat /\ DOMAIN src = 1 .. Len(src)
  BY Positions
<1>2. new \in Seq(Tokens) /\ Len(new) = Len(src) + 2 /\ DOMAIN new = 1 .. Len(src) + 2
  BY <1>1 DEF IsPut
<1>3. SUFFICES ASSUME NEW i \in 1 .. Len(src) + 2
               PROVE  /\ new[i].t = "comment" => i = Len(new) \/ new[i + 1].t \in {"cr", "nl"}
                      /\ new[i].t = "cr" => i < Len(new) /\ new[i + 1].t = "nl"
  BY <1>2 DEF WellFormed
<1>4. \A p \in 1 .. Len(src) : /\ src[p].t = "comment" => p = Len(src) \/ src[p + 1].t \in {"cr", "nl"}
                               /\ src[p].t = "cr" => p < Len(src) /\ src[p + 1].t = "nl"
  BY <1>1 DEF WellFormed
<1>5. /\ \A p \in 1 .. Len(src) : p < e => new[p] = src[p]
      /\ \A p \in 1 .. Len(src) : p >= e => new[p + 2] = src[p]
  BY <1>1 DEF IsPut, Shift
<1>6. new[e] = x /\ new[e + 1] = y
  BY DEF IsPut
<1>7. CASE i < e - 1
  <2>1. i \in 1 .. Len(src) /\ i + 1 \in 1 .. Len(src) /\ i < e /\ i + 1 < e /\ i # Len(src) /\ i < Len(new)
    BY <1>1, <1>2, <1>7
  <2>2. new[i] = src[i] /\ new[i + 1] = src[i + 1]
    BY <1>5, <2>1
  <2> QED
    BY <1>4, <2>1, <2>2
<1>8. CASE i = e - 1
  <2>1. e > 1 /\ i \in 1 .. Len(src) /\ i < e
    BY <1>1, <1>8
  <2>2. new[i] = src[e - 1]
    BY <1>5, <1>8, <2>1
  <2> QED
    BY <2>1, <2>2
<1>9. CASE i = e
  <2>1. new[i] = x /\ new[i + 1] = y
    BY <1>6, <1>9
  <2> QED
    BY <2>1
<1>10. CASE i = e + 1
  <2>1. new[i] = y
    BY <1>6, <1>10
  <2>2. CASE e = Len(src) + 1
    BY <1>1, <1>2, <1>10, <2>1, <2>2
  <2>3. CASE e # Len(src) + 1
    <3>1. e \in 1 .. Len(src) /\ i + 1 = e + 2
      BY <1>1, <1>10, <2>3
    <3>2. new[i + 1] = src[e]
      BY <1>5, <3>1
    <3> QED
      BY <2>1, <2>3, <3>2
  <2> QED
    BY <2>2, <2>3
<1>11. CASE i > e + 1
  <2> DEFINE p == i - 2
  <2>1. p \in 1 .. Len(src) /\ p >= e /\ p + 2 = i
    BY <1>1, <1>11
  <2>2. new[i] = src[p]
    <3> HIDE DEF p
    <3> QED
      BY <1>5, <2>1
  <2>3. CASE p = Len(src)
    <3>1. i = Len(new)
      BY <1>1, <1>2, <2>3
    <3>2. src[p].t = "cr" => p < Len(src)
      <4> HIDE DEF p
      <4> QED
        BY <1>4, <2>1
    <3>3. src[p].t # "cr"
      BY <1>1, <2>3, <3>2
    <3> HIDE DEF p
    <3> QED
      BY <2>2, <3>1, <3>3
  <2>4. CASE p # Len(src)
    <3>1. p + 1 \in 1 .. Len(src) /\ p + 1 >= e /\ (p + 1) + 2 = i + 1 /\ p < Len(src) /\ i < Len(new)
      BY <1>1, <1>2, <2>1, <2>4
    <3>2. new[i + 1] = src[p + 1]
      <4> HIDE DEF p
      <4> QED
        BY <1>5, <3>1
    <3> HIDE DEF p
    <3> QED
      BY <1>4, <2>1, <2>2, <2>4, <3>1, <3>2
  <2> QED
    BY <2>3, <2>4
<1> QED
  BY <1>1, <1>7, <1>8, <1>9, <1>10, <1>11

LEMMA LineEndIs ==
  ASSUME NEW src, WellFormed(src), NEW l \in LineStarts(src)
  PROVE  LET e == LineEnd(src, l)
         IN  /\ l \in 1 .. Len(src) + 1 /\ (l > 1 => src[l - 1].t = "nl")
             /\ e \in l .. Len(src) + 1
             /\ e \in DOMAIN src => src[e].t \in {"cr", "nl"}
             /\ \A k \in l .. e - 1 : src[k].t \notin {"cr", "nl"}
<1> DEFINE e == LineEnd(src, l)
           n == end_of_line(src, l)
<1>1. Len(src) \in Nat /\ Eof(src) = Len(src) + 1 /\ DOMAIN src = 1 .. Len(src)
  BY Positions
<1>2. l \in 1 .. Len(src) + 1 /\ (l > 1 => src[l - 1].t = "nl")
  <2>1. CASE l = 1
    BY <1>1, <2>1
  <2>2. CASE \E i \in DOMAIN src : src[i].t = "nl" /\ l = i + 1
    BY <1>1, <2>2
  <2> QED
    BY <2>1, <2>2 DEF LineStarts
<1>3. n \in l .. Eof(src) /\ (n # Eof(src) => src[n].t = "nl") /\ Same(src, l, n)
  <2>1. l \in 1 .. Eof(src)
    BY <1>1, <1>2
  <2> QED
    BY <2>1, EndOfLine
<1>4. e = IF n > l /\ src[n - 1].t = "cr" THEN n - 1 ELSE n
  BY DEF LineEnd
<1> HIDE DEF e, n
<1>5. e \in l .. Len(src) + 1 /\ (e \in DOMAIN src => src[e].t \in {"cr", "nl"})
  BY <1>1, <1>2, <1>3, <1>4
<1>6. ASSUME NEW k \in l .. e - 1 PROVE src[k].t \notin {"cr", "nl"}
  <2>1. k \in 1 .. Len(src) /\ k \in l .. n - 1
    BY <1>1, <1>2, <1>3, <1>4, <1>6
  <2>2. src[k].t # "nl"
    BY <1>3, <2>1 DEF Same
  <2>3. ASSUME src[k].t = "cr" PROVE FALSE
    <3>1. src[k + 1].t = "nl" /\ k < Len(src)
      BY <1>1, <2>1, <2>3 DEF WellFormed
    <3>2. ~(k + 1 \in l .. n - 1)
      BY <1>3, <3>1 DEF Same
    <3>3. n = k + 1
      BY <1>1, <1>2, <1>3, <2>1, <3>2
    <3>4. n > l /\ n - 1 = k
      BY <1>1, <1>2, <2>1, <3>3
    <3>5. e = k
      BY <1>4, <2>3, <3>4
    <3> QED
      BY <1>1, <1>2, <1>6, <2>1, <3>5
  <2> QED
    BY <2>2, <2>3
<1> QED
  BY <1>2, <1>5, <1>6 DEF e

LEMMA CommentAtIs ==
  ASSUME NEW src, WellFormed(src), NEW l \in LineStarts(src)
  PROVE  LET e == LineEnd(src, l)
             c == CommentAt(src, l)
         IN  /\ c = 0 => (e > l => src[e - 1].t # "comment")
             /\ c # 0 => c \in DOMAIN src /\ l <= c /\ e = c + 1 /\ src[c].t = "comment"
<1> DEFINE e == LineEnd(src, l)
           c == CommentAt(src, l)
<1>1. Len(src) \in Nat /\ DOMAIN src = 1 .. Len(src)
  BY Positions
<1>2. l \in 1 .. Len(src) + 1 /\ e \in l .. Len(src) + 1
  BY LineEndIs
<1>3. c = IF e > l /\ src[e - 1].t = "comment" THEN e - 1 ELSE 0
  BY DEF CommentAt
<1> HIDE DEF e, c
<1>4. (c = 0 => (e > l => src[e - 1].t # "comment"))
  BY <1>1, <1>2, <1>3
<1>5. (c # 0 => c \in DOMAIN src /\ l <= c /\ e = c + 1 /\ src[c].t = "comment")
  BY <1>1, <1>2, <1>3
<1> QED
  BY <1>4, <1>5 DEF e, c

LEMMA OnLineRange ==
  ASSUME NEW src, WellFormed(src), NEW l \in LineStarts(src), NEW q \in CodeAt(src)
  PROVE  q \in OnLine(src, l) <=> l <= q /\ q < LineEnd(src, l)
<1> DEFINE e == LineEnd(src, l)
           a == line_start(src, l)
           b == line_start(src, q)
<1>1. Len(src) \in Nat /\ Eof(src) = Len(src) + 1 /\ DOMAIN src = 1 .. Len(src)
  BY Positions
<1>2. /\ l \in 1 .. Len(src) + 1 /\ (l > 1 => src[l - 1].t = "nl")
      /\ e \in l .. Len(src) + 1
      /\ e \in DOMAIN src => src[e].t \in {"cr", "nl"}
      /\ \A k \in l .. e - 1 : src[k].t \notin {"cr", "nl"}
  BY LineEndIs
<1>3. q \in 1 .. Len(src) /\ src[q].t \notin {"cr", "nl"}
  BY <1>1, CodeIs DEF IsCode, Code
<1>4. q \in OnLine(src, l) <=> b = l
  BY DEF OnLine
<1>5. l \in 1 .. Eof(src) /\ q \in 1 .. Eof(src)
  BY <1>1, <1>2, <1>3
<1>6. a \in 1 .. l /\ Same(src, a, l)
  BY <1>5, LineStart
<1>7. b \in 1 .. q /\ Same(src, b, q)
  BY <1>5, LineStart
<1>8. l <= q => (a = b <=> Same(src, l, q))
  BY <1>5, SameStart
<1> HIDE DEF e, a, b
<1>9. a = l
  <2>1. CASE l = 1
    BY <1>6, <2>1
  <2>2. CASE l > 1
    <3>1. ~(l - 1 \in a .. l - 1)
      BY <1>2, <1>6, <2>2 DEF Same
    <3> QED
      BY <1>1, <1>2, <1>6, <3>1
  <2> QED
    BY <1>1, <1>2, <2>1, <2>2
<1>10. CASE q < l
  BY <1>1, <1>2, <1>3, <1>4, <1>7, <1>10 DEF e
<1>11. CASE l <= q
  <2>1. b = l <=> Same(src, l, q)
    BY <1>8, <1>9, <1>11
  <2>2. ASSUME q < e PROVE Same(src, l, q)
    BY <1>1, <1>2, <1>3, <2>2 DEF Same
  <2>3. ASSUME Same(src, l, q) PROVE q < e
    <3>1. SUFFICES ASSUME e <= q PROVE FALSE
      BY <1>1, <1>2, <1>3
    <3>2. e \in 1 .. Len(src) /\ e # q /\ e < q /\ e \in l .. q - 1
      BY <1>1, <1>2, <1>3, <1>11, <3>1
    <3>3. src[e].t # "nl"
      BY <2>3, <3>2 DEF Same
    <3>4. src[e].t = "cr"
      BY <1>1, <1>2, <3>2, <3>3
    <3>5. src[e + 1].t = "nl"
      BY <1>1, <3>2, <3>4 DEF WellFormed
    <3>6. e + 1 \in l .. q - 1
      BY <1>1, <1>2, <1>3, <3>2, <3>5
    <3> QED
      BY <2>3, <3>5, <3>6 DEF Same
  <2> QED
    BY <1>4, <1>11, <2>1, <2>2, <2>3 DEF e
<1> QED
  BY <1>1, <1>2, <1>3, <1>10, <1>11

\* Where every position of a text with two more tokens comes from.
LEMMA PutSpreads ==
  ASSUME NEW src, WellFormed(src), NEW e \in 1 .. Len(src) + 1, NEW new, NEW x, NEW y,
         IsPut(src, new, e, x, y)
  PROVE  /\ Len(src) \in Nat /\ DOMAIN src = 1 .. Len(src) /\ DOMAIN new = 1 .. Len(src) + 2
         /\ \A p \in 1 .. Len(src) : Shift(e, 2, p) \in 1 .. Len(src) + 2 /\ new[Shift(e, 2, p)] = src[p]
         /\ \A k \in 1 .. Len(src) + 2 : k \in {e, e + 1} \/ \E p \in 1 .. Len(src) : k = Shift(e, 2, p)
<1>1. Len(src) \in Nat /\ DOMAIN src = 1 .. Len(src)
  BY Positions
<1>2. new \in Seq(Tokens) /\ Len(new) = Len(src) + 2 /\ DOMAIN new = 1 .. Len(src) + 2
  BY <1>1 DEF IsPut
<1>3. ASSUME NEW p \in 1 .. Len(src)
      PROVE  Shift(e, 2, p) \in 1 .. Len(src) + 2 /\ new[Shift(e, 2, p)] = src[p]
  <2>1. Shift(e, 2, p) \in 1 .. Len(src) + 2
    BY <1>1 DEF Shift
  <2>2. new[Shift(e, 2, p)] = src[p]
    BY <1>1 DEF IsPut
  <2> QED
    BY <2>1, <2>2
<1>4. ASSUME NEW k \in 1 .. Len(src) + 2, k \notin {e, e + 1}
      PROVE  \E p \in 1 .. Len(src) : k = Shift(e, 2, p)
  <2>1. CASE k < e
    <3>1. k \in 1 .. Len(src) /\ k = Shift(e, 2, k)
      BY <1>1, <2>1 DEF Shift
    <3> QED
      BY <3>1
  <2>2. CASE k > e + 1
    <3>1. k - 2 \in 1 .. Len(src) /\ k = Shift(e, 2, k - 2)
      BY <1>1, <2>2 DEF Shift
    <3> QED
      BY <3>1
  <2> QED
    BY <1>1, <1>4, <2>1, <2>2
<1> QED
  BY <1>1, <1>2, <1>3, <1>4

LEMMA NewCommentIs ==
  NewComment \in Tokens /\ NewComment.t = "comment" /\ parse_marker(NewComment) = {Rule}
<1>1. /\ Mark("tight", {Rule}) \in Marks /\ NoMark \in Marks
      /\ Mark("tight", {Rule}).form = "tight" /\ Mark("tight", {Rule}).rules = {Rule}
  BY DEF Mark, NoMark, Marks
<1>2. NewComment = [t |-> "comment", head |-> Mark("tight", {Rule}), tail |-> NoMark]
  BY DEF NewComment, Comment
<1>3. NewComment \in Tokens
  BY <1>1, <1>2 DEF Tokens
<1>4. parse_marker(NewComment) = {Rule}
  BY <1>1, <1>2, RulesDiffer DEF parse_marker
<1> QED
  BY <1>2, <1>3, <1>4

\* The command's comment is the one marker that is put in.
LEMMA PutMarkers ==
  ASSUME NEW src, WellFormed(src), NEW e \in 1 .. Len(src) + 1, NEW new, NEW x, NEW y,
         IsPut(src, new, e, x, y), NEW n \in {e, e + 1},
         new[n] = NewComment, \A k \in {e, e + 1} \ {n} : new[k].t # "comment"
  PROVE  /\ MarkersMoved(src, new, e, 2, Rule, {n}) /\ MarkersMoved(src, new, e, 2, OtherRule, {})
         /\ ListsKept(src, new, e, 2)
<1> DEFINE S(p) == Shift(e, 2, p)
           Lists(t, i, r) == t[i].t = "comment" /\ parse_marker(t[i]) # {} /\ parse_marker(t[i]) \cap {r, Wildcard} # {}
<1>1. /\ Len(src) \in Nat /\ DOMAIN src = 1 .. Len(src) /\ DOMAIN new = 1 .. Len(src) + 2
      /\ \A p \in 1 .. Len(src) : S(p) \in 1 .. Len(src) + 2 /\ new[S(p)] = src[p]
      /\ \A k \in 1 .. Len(src) + 2 : k \in {e, e + 1} \/ \E p \in 1 .. Len(src) : k = S(p)
  BY PutSpreads
<1>2. n \in 1 .. Len(src) + 2
  BY <1>1
<1>3. ASSUME NEW r PROVE MarkersFor(src, r) = {i \in 1 .. Len(src) : Lists(src, i, r)}
  BY <1>1 DEF MarkersFor, Markers
<1>4. ASSUME NEW r PROVE MarkersFor(new, r) = {i \in 1 .. Len(src) + 2 : Lists(new, i, r)}
  BY <1>1 DEF MarkersFor, Markers
<1>5. \A k \in {e, e + 1} \ {n} : \A r : ~Lists(new, k, r)
  OBVIOUS
<1>6. Lists(new, n, Rule) /\ ~Lists(new, n, OtherRule)
  <2>1. new[n].t = "comment" /\ parse_marker(new[n]) = {Rule}
    BY NewCommentIs
  <2>2. {Rule} \cap {Rule, Wildcard} # {} /\ {Rule} \cap {OtherRule, Wildcard} = {}
    BY RulesDiffer
  <2> QED
    BY <2>1, <2>2
<1>7. \A p \in 1 .. Len(src) : \A r : Lists(new, S(p), r) <=> Lists(src, p, r)
  BY <1>1
<1> HIDE DEF Lists, S
<1>8. MarkersFor(new, Rule) = {S(m) : m \in MarkersFor(src, Rule)} \cup {n}
  <2>1. ASSUME NEW k \in MarkersFor(new, Rule) PROVE k \in {S(m) : m \in MarkersFor(src, Rule)} \cup {n}
    BY <1>1, <1>3, <1>4, <1>5, <1>7
  <2>2. ASSUME NEW k \in {S(m) : m \in MarkersFor(src, Rule)} \cup {n} PROVE k \in MarkersFor(new, Rule)
    BY <1>1, <1>2, <1>3, <1>4, <1>6, <1>7
  <2> QED
    BY <2>1, <2>2
<1>9. MarkersFor(new, OtherRule) = {S(m) : m \in MarkersFor(src, OtherRule)} \cup {}
  <2>1. ASSUME NEW k \in MarkersFor(new, OtherRule) PROVE k \in {S(m) : m \in MarkersFor(src, OtherRule)}
    <3>1. k \in 1 .. Len(src) + 2 /\ Lists(new, k, OtherRule)
      BY <1>4, <2>1
    <3>2. k \notin {e, e + 1}
      BY <1>5, <1>6, <3>1
    <3>3. PICK p \in 1 .. Len(src) : k = S(p)
      BY <1>1, <3>1, <3>2
    <3>4. p \in MarkersFor(src, OtherRule)
      BY <1>3, <1>7, <3>1, <3>3
    <3> QED
      BY <3>3, <3>4
  <2>2. ASSUME NEW k \in {S(m) : m \in MarkersFor(src, OtherRule)} PROVE k \in MarkersFor(new, OtherRule)
    BY <1>1, <1>3, <1>4, <1>7
  <2> QED
    BY <2>1, <2>2
<1>10. ListsKept(src, new, e, 2)
  BY <1>1 DEF ListsKept, S
<1> QED
  BY <1>8, <1>9, <1>10 DEF MarkersMoved, S

LEMMA AppendedIs ==
  ASSUME NEW src, WellFormed(src), NEW l \in LineStarts(src), CommentAt(src, l) = 0
  PROVE  LET e   == LineEnd(src, l)
             new == Appended(src, l)
         IN  /\ e \in 1 .. Len(src) + 1 /\ IsPut(src, new, e, Tok("ws"), NewComment)
             /\ WellFormed(new)
             /\ (e \in DOMAIN src => ~BareCr(src, e)) => Moved(src, new, e, 2)
             /\ MarkersMoved(src, new, e, 2, Rule, {e + 1}) /\ MarkersMoved(src, new, e, 2, OtherRule, {})
             /\ ListsKept(src, new, e, 2)
<1> DEFINE e == LineEnd(src, l)
           new == Appended(src, l)
           x == Tok("ws")
           y == NewComment
<1>1. Len(src) \in Nat /\ DOMAIN src = 1 .. Len(src) /\ src \in Seq(Tokens)
  BY Positions DEF WellFormed
<1>2. /\ l \in 1 .. Len(src) + 1 /\ (l > 1 => src[l - 1].t = "nl")
      /\ e \in l .. Len(src) + 1
      /\ e \in DOMAIN src => src[e].t \in {"cr", "nl"}
      /\ \A k \in l .. e - 1 : src[k].t \notin {"cr", "nl"}
  BY LineEndIs
<1>3. e > l => src[e - 1].t # "comment"
  BY CommentAtIs
<1>4. x \in Tokens /\ y \in Tokens /\ x.t = "ws" /\ y.t = "comment"
  BY NewCommentIs DEF Tok, Tokens
<1>5. new = SubSeq(src, 1, e - 1) \o <<x, y>> \o SubSeq(src, e, Len(src))
  BY DEF Appended
<1> HIDE DEF e, new, x, y
<1>6. e \in 1 .. Len(src) + 1
  BY <1>1, <1>2
<1>7. IsPut(src, new, e, x, y)
  BY <1>1, <1>4, <1>5, <1>6, PutIs
<1>8. e > 1 => src[e - 1].t \notin {"comment", "cr"}
  <2>1. CASE e > l
    <3>1. e - 1 \in l .. e - 1
      BY <1>1, <1>2, <2>1
    <3> QED
      BY <1>2, <1>3, <2>1, <3>1
  <2>2. CASE e = l
    BY <1>2, <2>2
  <2> QED
    BY <1>1, <1>2, <2>1, <2>2
<1>9. e = Len(src) + 1 \/ src[e].t \in {"cr", "nl"}
  BY <1>1, <1>2
<1>10. WellFormed(new)
  BY <1>4, <1>6, <1>7, <1>8, <1>9, WellPut
<1>11. new[e] = x /\ new[e + 1] = y /\ Len(new) = Len(src) + 2
  BY <1>7 DEF IsPut
<1>12. \A k \in e .. e + 2 - 1 : new[k].t \in {"ws", "comment"}
  <2>1. \A k \in e .. e + 2 - 1 : k = e \/ k = e + 1
    BY <1>1, <1>6
  <2> QED
    BY <1>4, <1>11, <2>1
<1>13. Spread(src, new, e, 2)
  <2>1. \A p \in DOMAIN src : new[Shift(e, 2, p)].t = src[p].t
    BY <1>7 DEF IsPut
  <2> QED
    BY <1>6, <1>11, <1>12, <2>1 DEF Spread
<1>14. ASSUME e \in DOMAIN src => ~BareCr(src, e) PROVE Moved(src, new, e, 2)
  <2>1. AtEnd(src, new, e, 2)
    BY <1>2, <1>12, <1>14 DEF AtEnd
  <2> QED
    BY <1>10, <1>13, <2>1 DEF Moved
<1>15. /\ MarkersMoved(src, new, e, 2, Rule, {e + 1}) /\ MarkersMoved(src, new, e, 2, OtherRule, {})
       /\ ListsKept(src, new, e, 2)
  <2>1. \A k \in {e, e + 1} \ {e + 1} : new[k].t # "comment"
    BY <1>4, <1>11
  <2>2. new[e + 1] = NewComment /\ e + 1 \in {e, e + 1}
    BY <1>11 DEF y
  <2> QED
    BY <1>6, <1>7, <2>1, <2>2, PutMarkers
<1> QED
  BY <1>6, <1>7, <1>10, <1>14, <1>15 DEF e, new, x, y

\* A comment gets another text: what it allowed it still allows, and a list that
\* was read gets no wildcard.
Widens(c, v) ==
  /\ v \in Tokens /\ v.t = "comment"
  /\ parse_marker(c) \subseteq parse_marker(v)
  /\ parse_marker(c) # {} => (Wildcard \in parse_marker(v) <=> Wildcard \in parse_marker(c))

LEMMA ReplacedIs ==
  ASSUME NEW src, WellFormed(src), NEW c \in DOMAIN src, src[c].t = "comment", NEW v, Widens(src[c], v)
  PROVE  LET new == [src EXCEPT ![c] = v]
         IN  /\ Moved(src, new, 1, 0) /\ ListsKept(src, new, 1, 0)
             /\ \A r : MarkersMoved(src, new, 1, 0, r, IF parse_marker(v) \cap {r, Wildcard} # {} THEN {c} ELSE {})
             /\ \A r : parse_marker(v) \cap {r, Wildcard} \subseteq parse_marker(src[c])
                         => MarkersMoved(src, new, 1, 0, r, {})
<1> DEFINE new == [src EXCEPT ![c] = v]
           N(r) == IF parse_marker(v) \cap {r, Wildcard} # {} THEN {c} ELSE {}
           S(p) == Shift(1, 0, p)
           Lists(t, i, r) == t[i].t = "comment" /\ parse_marker(t[i]) # {} /\ parse_marker(t[i]) \cap {r, Wildcard} # {}
<1>1. Len(src) \in Nat /\ DOMAIN src = 1 .. Len(src) /\ src \in Seq(Tokens)
  BY Positions DEF WellFormed
<1>2. c \in 1 .. Len(src) /\ src[c].t = "comment"
  BY <1>1
<1>3. /\ v \in Tokens /\ v.t = "comment" /\ parse_marker(src[c]) \subseteq parse_marker(v)
      /\ parse_marker(src[c]) # {} => (Wildcard \in parse_marker(v) <=> Wildcard \in parse_marker(src[c]))
  BY DEF Widens
<1>4. new = [src EXCEPT ![c] = v]
  OBVIOUS
<1> HIDE DEF new
<1>6. /\ new \in Seq(Tokens) /\ Len(new) = Len(src)
      /\ \A p \in 1 .. Len(src) : new[p] = IF p = c THEN v ELSE src[p]
  BY <1>1, <1>2, <1>4, <1>3, ExceptSeq
<1>7. \A p \in 1 .. Len(src) : new[p].t = src[p].t
  BY <1>2, <1>3, <1>6
<1>8. DOMAIN new = 1 .. Len(src)
  BY <1>1, <1>6
<1>9. WellFormed(new)
  <2>1. ASSUME NEW i \in 1 .. Len(src)
        PROVE  /\ new[i].t = "comment" => i = Len(new) \/ new[i + 1].t \in {"cr", "nl"}
               /\ new[i].t = "cr" => i < Len(new) /\ new[i + 1].t = "nl"
    <3>1. /\ src[i].t = "comment" => i = Len(src) \/ src[i + 1].t \in {"cr", "nl"}
          /\ src[i].t = "cr" => i < Len(src) /\ src[i + 1].t = "nl"
      BY <1>1 DEF WellFormed
    <3>2. new[i].t = src[i].t
      BY <1>7
    <3>3. i # Len(src) => new[i + 1].t = src[i + 1].t
      <4>0. Len(src) \in Nat /\ i \in Int /\ 1 <= i /\ i <= Len(src)
        BY <1>1
      <4>1. i # Len(src) => i + 1 \in 1 .. Len(src)
        BY <4>0
      <4> QED
        BY <1>7, <4>1
    <3>4. Len(new) = Len(src)
      BY <1>6
    <3> QED
      BY <3>1, <3>2, <3>3, <3>4
  <2> QED
    BY <1>6, <1>8, <2>1 DEF WellFormed
<1>10. \A p \in 1 .. Len(src) : S(p) = p
  BY <1>1 DEF Shift
<1>11. Moved(src, new, 1, 0)
  <2>1. \A p \in DOMAIN src : new[Shift(1, 0, p)].t = src[p].t
    BY <1>1, <1>7, <1>10
  <2>2. \A k \in 1 .. 1 + 0 - 1 : new[k].t \in {"ws", "comment", "nl"}
    OBVIOUS
  <2>3. Spread(src, new, 1, 0)
    BY <1>1, <1>6, <2>1, <2>2 DEF Spread
  <2>4. AtTop(new, 1, 0)
    BY DEF AtTop
  <2> QED
    BY <1>9, <2>3, <2>4 DEF Moved
<1>12. ListsKept(src, new, 1, 0)
  <2>1. ASSUME NEW m \in 1 .. Len(src), parse_marker(src[m]) # {}
        PROVE  Wildcard \in parse_marker(new[m]) <=> Wildcard \in parse_marker(src[m])
    BY <1>3, <1>6, <2>1
  <2> QED
    BY <1>1, <1>10, <2>1 DEF ListsKept
<1>13. \A r : MarkersFor(src, r) = {i \in 1 .. Len(src) : Lists(src, i, r)}
  BY <1>1 DEF MarkersFor, Markers
<1>14. \A r : MarkersFor(new, r) = {i \in 1 .. Len(src) : Lists(new, i, r)}
  BY <1>8 DEF MarkersFor, Markers
<1>15. \A p \in 1 .. Len(src) : \A r : p # c => (Lists(new, p, r) <=> Lists(src, p, r))
  BY <1>6
<1>16. \A r : Lists(new, c, r) <=> parse_marker(v) \cap {r, Wildcard} # {}
  BY <1>2, <1>3, <1>6
<1>17. \A r : Lists(src, c, r) => Lists(new, c, r)
  BY <1>2, <1>3, <1>6
<1>18. \A r : parse_marker(v) \cap {r, Wildcard} \subseteq parse_marker(src[c]) => (Lists(new, c, r) <=> Lists(src, c, r))
  BY <1>2, <1>3, <1>6
<1>19. \A r : {S(m) : m \in MarkersFor(src, r)} = MarkersFor(src, r)
  BY <1>10, <1>13
<1> HIDE DEF Lists, S
<1>20. ASSUME NEW r PROVE MarkersFor(new, r) = MarkersFor(src, r) \cup N(r)
  <2>1. CASE parse_marker(v) \cap {r, Wildcard} # {}
    BY <1>2, <1>13, <1>14, <1>15, <1>16, <2>1
  <2>2. CASE parse_marker(v) \cap {r, Wildcard} = {}
    BY <1>2, <1>13, <1>14, <1>15, <1>16, <1>17, <2>2
  <2> QED
    BY <2>1, <2>2
<1>21. ASSUME NEW r, parse_marker(v) \cap {r, Wildcard} \subseteq parse_marker(src[c])
       PROVE  MarkersFor(new, r) = MarkersFor(src, r) \cup {}
  <2>1. \A p \in 1 .. Len(src) : Lists(new, p, r) <=> Lists(src, p, r)
    BY <1>15, <1>18, <1>21
  <2> QED
    BY <1>13, <1>14, <2>1
<1> HIDE DEF N
<1>22. \A r : MarkersMoved(src, new, 1, 0, r, N(r))
  BY <1>19, <1>20 DEF MarkersMoved, S
<1>23. \A r : parse_marker(v) \cap {r, Wildcard} \subseteq parse_marker(src[c]) => MarkersMoved(src, new, 1, 0, r, {})
  BY <1>19, <1>21 DEF MarkersMoved, S
<1> QED
  BY <1>11, <1>12, <1>22, <1>23 DEF new, N

\* What both commands make of a comment.
Changed(c) == IF HasList(c) THEN Extended(c) ELSE Joined(c)

LEMMA ChangedIs ==
  ASSUME NEW c \in Tokens, c.t = "comment"
  PROVE  /\ Widens(c, Changed(c))
         /\ Readable(c) => Rule \in parse_marker(Changed(c))
         /\ c.head.form # "loose" => parse_marker(Changed(c)) \subseteq parse_marker(c) \cup {Rule}
<1> DEFINE h == c.head
           g == c.tail
           v == Changed(c)
<1>1. h \in Marks /\ g \in Marks /\ c = Comment(h, g)
  <2>1. c \in [t : {"comment"}, head : Marks, tail : Marks]
    BY DEF Tokens
  <2> QED
    BY <2>1 DEF Comment
<1>2. ASSUME NEW a \in Marks, NEW b \in Marks
      PROVE  /\ Comment(a, b) \in Tokens /\ Comment(a, b).t = "comment"
             /\ Comment(a, b).head = a /\ Comment(a, b).tail = b
  BY DEF Comment, Tokens
<1>3. ASSUME NEW a \in Marks
      PROVE  /\ WithRule(a) \in Marks /\ WithRule(a).form = "tight" /\ WithRule(a).rules = a.rules \cup {Rule}
             /\ ClosedList(a) \in Marks /\ ClosedList(a).form = "tight" /\ Garbled \in ClosedList(a).rules
  BY DEF WithRule, ClosedList, Mark, Marks
<1>4. Mark("tight", {Rule}) \in Marks
  BY DEF Mark, Marks
<1>5. \/ Matches(h) /\ Rule \in h.rules /\ v = c
      \/ Matches(h) /\ Rule \notin h.rules /\ v = Comment(WithRule(h), g)
      \/ h.form = "unclosed" /\ v = Comment(ClosedList(h), g)
      \/ ~Matches(h) /\ \E b \in Marks : v = Comment(h, b)
  <2>1. CASE Matches(h)
    BY <2>1 DEF Changed, HasList, Extended, ListOf
  <2>2. CASE ~Matches(h) /\ HasList(c)
    BY <1>1, <1>3, <2>2 DEF Changed, Extended, ListOf
  <2>3. CASE ~HasList(c)
    BY <1>1, <1>3, <1>4, <2>3 DEF Changed, Joined, HasList
  <2> QED
    BY <2>1, <2>2, <2>3
<1>6. v \in Tokens /\ v.t = "comment"
  BY <1>1, <1>2, <1>3, <1>5
<1>7. parse_marker(c) = IF h.form \in {"tight", "spaced"} /\ Garbled \notin h.rules THEN h.rules ELSE {}
  BY DEF parse_marker
<1>8. ASSUME NEW a \in Marks, NEW b \in Marks
      PROVE  parse_marker(Comment(a, b)) =
               IF a.form \in {"tight", "spaced"} /\ Garbled \notin a.rules THEN a.rules ELSE {}
  BY <1>2 DEF parse_marker
<1>9. Matches(h) <=> h.form \in {"tight", "loose"}
  BY DEF Matches
<1>10. Readable(c) <=> Matches(h) /\ Garbled \notin h.rules /\ (h.form = "loose" => Rule \notin h.rules)
  BY DEF Readable
<1> HIDE DEF h, g, v
<1>11. CASE Matches(h) /\ Rule \in h.rules /\ v = c
  BY <1>6, <1>7, <1>9, <1>10, <1>11 DEF Widens, h, v
<1>12. CASE Matches(h) /\ Rule \notin h.rules /\ v = Comment(WithRule(h), g)
  <2>1. parse_marker(v) = IF Garbled \notin h.rules THEN h.rules \cup {Rule} ELSE {}
    BY <1>1, <1>3, <1>8, <1>12, RulesDiffer
  <2> QED
    BY <1>6, <1>7, <1>9, <1>10, <1>12, <2>1, RulesDiffer DEF Widens, h, v
<1>13. CASE h.form = "unclosed" /\ v = Comment(ClosedList(h), g)
  <2>1. parse_marker(v) = {}
    BY <1>1, <1>3, <1>8, <1>13
  <2> QED
    BY <1>6, <1>7, <1>9, <1>10, <1>13, <2>1 DEF Widens, h, v
<1>14. CASE ~Matches(h) /\ \E b \in Marks : v = Comment(h, b)
  <2>1. parse_marker(v) = parse_marker(c)
    BY <1>1, <1>7, <1>8, <1>14
  <2> QED
    BY <1>6, <1>10, <1>14, <2>1 DEF Widens, h, v
<1> QED
  BY <1>5, <1>11, <1>12, <1>13, <1>14

\* The line's comment, and the text that a command makes by changing it.
Replaced(src, c) == [src EXCEPT ![c] = Changed(src[c])]

LEMMA CommentToken ==
  ASSUME NEW src, WellFormed(src), NEW l \in LineStarts(src), CommentAt(src, l) # 0
  PROVE  LET c == CommentAt(src, l)
         IN  c \in DOMAIN src /\ src[c] \in Tokens /\ src[c].t = "comment"
<1> DEFINE c == CommentAt(src, l)
<1>1. c \in DOMAIN src /\ src[c].t = "comment"
  BY CommentAtIs
<1> HIDE DEF c
<1>2. src[c] \in Tokens
  BY <1>1, ElementOfSeq DEF WellFormed
<1> QED
  BY <1>1, <1>2 DEF c

PrependedText(src) == <<NewComment, Tok("nl")>> \o src

LEMMA PrependedIs ==
  ASSUME NEW src, WellFormed(src)
  PROVE  LET new == PrependedText(src)
         IN  /\ new[1] = NewComment
             /\ Moved(src, new, 1, 2) /\ ListsKept(src, new, 1, 2)
             /\ MarkersMoved(src, new, 1, 2, Rule, {1}) /\ MarkersMoved(src, new, 1, 2, OtherRule, {})
<1> DEFINE new == PrependedText(src)
           x == NewComment
           y == Tok("nl")
<1>1. Len(src) \in Nat /\ DOMAIN src = 1 .. Len(src) /\ src \in Seq(Tokens)
  BY Positions DEF WellFormed
<1>2. x \in Tokens /\ y \in Tokens /\ x.t = "comment" /\ y.t = "nl"
  BY NewCommentIs DEF Tok, Tokens
<1>3. new = <<x, y>> \o src
  BY DEF PrependedText
<1>4. x = NewComment
  OBVIOUS
<1> HIDE DEF new, x, y
<1>5. IsPut(src, new, 1, x, y)
  BY <1>1, <1>2, <1>3, PutFirst
<1>6. 1 \in 1 .. Len(src) + 1
  BY <1>1
<1>7. WellFormed(new)
  <2>1. 1 > 1 => src[1 - 1].t \notin {"comment", "cr"}
    OBVIOUS
  <2> QED
    BY <1>2, <1>5, <1>6, <2>1, WellPut
<1>8. new[1] = x /\ new[2] = y /\ Len(new) = Len(src) + 2
  BY <1>5 DEF IsPut
<1>9. Moved(src, new, 1, 2)
  <2>1. \A p \in DOMAIN src : new[Shift(1, 2, p)].t = src[p].t
    BY <1>5 DEF IsPut
  <2>2. \A k \in 1 .. 1 + 2 - 1 : new[k].t \in {"ws", "comment", "nl"}
    <3>1. \A k \in 1 .. 1 + 2 - 1 : k = 1 \/ k = 2
      OBVIOUS
    <3> QED
      BY <1>2, <1>8, <3>1
  <2>3. Spread(src, new, 1, 2)
    BY <1>6, <1>8, <2>1, <2>2 DEF Spread
  <2>4. AtTop(new, 1, 2)
    BY <1>2, <1>8 DEF AtTop
  <2> QED
    BY <1>7, <2>3, <2>4, <1>1 DEF Moved
<1>10. /\ MarkersMoved(src, new, 1, 2, Rule, {1}) /\ MarkersMoved(src, new, 1, 2, OtherRule, {})
       /\ ListsKept(src, new, 1, 2)
  <2>1. \A k \in {1, 1 + 1} \ {1} : new[k].t # "comment"
    BY <1>2, <1>8
  <2>2. new[1] = NewComment /\ 1 \in {1, 1 + 1}
    BY <1>4, <1>8
  <2> QED
    BY <1>5, <1>6, <2>1, <2>2, PutMarkers
<1> QED
  BY <1>4, <1>8, <1>9, <1>10 DEF new

LEMMA SuppressedLineIs ==
  ASSUME NEW src, NEW l
  PROVE  /\ CommentAt(src, l) # 0 => SuppressedLine(src, l) = Replaced(src, CommentAt(src, l))
         /\ CommentAt(src, l) = 0 => SuppressedLine(src, l) = Appended(src, l)
<1> QED
  BY DEF SuppressedLine, Replaced, Changed

\* A line with code does not end in a bare carriage return.
LEMMA CodeNotBare ==
  ASSUME NEW src, WellFormed(src), NEW l \in LineStarts(src), NEW q \in OnLine(src, l),
         LineEnd(src, l) \in DOMAIN src
  PROVE  ~BareCr(src, LineEnd(src, l))
<1> DEFINE e == LineEnd(src, l)
<1>1. Len(src) \in Nat /\ DOMAIN src = 1 .. Len(src)
  BY Positions
<1>2. /\ l \in 1 .. Len(src) + 1 /\ (l > 1 => src[l - 1].t = "nl")
      /\ e \in l .. Len(src) + 1
      /\ e \in DOMAIN src => src[e].t \in {"cr", "nl"}
      /\ \A k \in l .. e - 1 : src[k].t \notin {"cr", "nl"}
  BY LineEndIs
<1>3. q \in CodeAt(src)
  BY DEF OnLine
<1>4. l <= q /\ q < e
  BY <1>3, OnLineRange
<1>5. q \in 1 .. Len(src) /\ src[q].t \notin {"ws", "block"}
  BY <1>1, <1>3, CodeIs DEF IsCode, Code
<1>6. BareCr(src, e) => Fresh(src, e)
  BY BareIs
<1> HIDE DEF e
<1>7. Same(src, q, e)
  BY <1>1, <1>2, <1>4, <1>5 DEF Same
<1>8. q \in 1 .. e - 1
  BY <1>1, <1>2, <1>4, <1>5
<1>9. ~Fresh(src, e)
  BY <1>5, <1>7, <1>8 DEF Fresh
<1> QED
  BY <1>6, <1>9 DEF e

\* The comment at the end of a line with code covers that line.
LEMMA AppendedCovers ==
  ASSUME NEW src, WellFormed(src), NEW l \in LineStarts(src), CommentAt(src, l) = 0,
         NEW q \in OnLine(src, l), NEW p \in CodeAt(src)
  PROVE  LET e == LineEnd(src, l)
         IN  Silences(Appended(src, l), e + 1, Shift(e, 2, p)) <=> p \in OnLine(src, l)
<1> DEFINE e == LineEnd(src, l)
           new == Appended(src, l)
           n == e + 1
<1>1. Len(src) \in Nat /\ DOMAIN src = 1 .. Len(src)
  BY Positions
<1>2. /\ l \in 1 .. Len(src) + 1 /\ (l > 1 => src[l - 1].t = "nl")
      /\ e \in l .. Len(src) + 1
      /\ e \in DOMAIN src => src[e].t \in {"cr", "nl"}
      /\ \A k \in l .. e - 1 : src[k].t \notin {"cr", "nl"}
  BY LineEndIs
<1>3. IsPut(src, new, e, Tok("ws"), NewComment)
  BY AppendedIs
<1>4. p \in OnLine(src, l) <=> l <= p /\ p < e
  BY OnLineRange
<1>5. q \in CodeAt(src)
  BY DEF OnLine
<1>6. l <= q /\ q < e
  BY <1>5, OnLineRange
<1>7. /\ q \in 1 .. Len(src) /\ src[q].t \notin {"ws", "cr", "nl"}
      /\ p \in 1 .. Len(src) /\ src[p].t \notin {"ws", "cr", "nl"}
  BY <1>1, <1>5, CodeIs DEF IsCode, Code
<1> HIDE DEF e, new
<1>8. /\ \A k \in 1 .. Len(src) : k < e => new[k] = src[k]
      /\ \A k \in 1 .. Len(src) : k >= e => new[k + 2] = src[k]
      /\ new[e].t = "ws"
  <2>1. \A k \in 1 .. Len(src) : new[Shift(e, 2, k)] = src[k]
    BY <1>1, <1>3 DEF IsPut
  <2>2. new[e] = [t |-> "ws"]
    BY <1>3 DEF IsPut, Tok
  <2>3. e \in Int
    BY <1>1, <1>2
  <2>4. \A k \in 1 .. Len(src) : k < e => new[k] = src[k]
    BY <2>1 DEF Shift
  <2>5. \A k \in 1 .. Len(src) : k >= e => new[k + 2] = src[k]
    BY <2>1, <2>3 DEF Shift
  <2> QED
    BY <2>2, <2>4, <2>5
<1>9. ASSUME NEW a \in 1 .. Len(src), l <= a, a < e PROVE Same(new, a, n)
  <2>1. ASSUME NEW k \in a .. n - 1 PROVE new[k].t # "nl"
    <3>1. CASE k = e
      BY <1>8, <3>1
    <3>2. CASE k # e
      <4>1. k \in 1 .. Len(src) /\ k < e /\ k \in l .. e - 1
        BY <1>1, <1>2, <1>9, <3>2
      <4> QED
        BY <1>2, <1>8, <4>1
    <3> QED
      BY <3>1, <3>2
  <2> QED
    BY <2>1 DEF Same
<1>10. Trails(new, n)
  <2>1. q \in 1 .. n - 1 /\ new[q].t # "ws"
    BY <1>1, <1>2, <1>6, <1>7, <1>8
  <2>2. Same(new, q, n)
    BY <1>6, <1>7, <1>9
  <2> QED
    BY <2>1, <2>2 DEF Trails
<1>11. CASE p < l
  <2>1. l - 1 \in 1 .. Len(src) /\ l - 1 < e /\ l > 1 /\ Shift(e, 2, p) = p
    BY <1>1, <1>2, <1>7, <1>11 DEF Shift
  <2>2. new[l - 1].t = "nl" /\ l - 1 \in p .. n - 1
    BY <1>1, <1>2, <1>7, <1>8, <1>11, <2>1
  <2>3. ~OneLine(new, n, Shift(e, 2, p))
    BY <2>1, <2>2 DEF OneLine, Same
  <2> QED
    BY <1>4, <1>10, <1>11, <2>3, <1>1, <1>2, <1>7 DEF Silences, n, e, new
<1>12. CASE l <= p /\ p < e
  <2>1. Shift(e, 2, p) = p
    BY <1>12 DEF Shift
  <2>2. Same(new, p, n)
    BY <1>7, <1>9, <1>12
  <2>3. Same(new, n, p)
    BY <1>1, <1>2, <1>7, <1>12 DEF Same
  <2>4. OneLine(new, n, Shift(e, 2, p))
    BY <2>1, <2>2, <2>3 DEF OneLine
  <2> QED
    BY <1>4, <1>10, <1>12, <2>4 DEF Silences, n, e, new
<1>13. CASE e <= p
  <2>1. e \in 1 .. Len(src) /\ p # e /\ Shift(e, 2, p) = p + 2
    BY <1>1, <1>2, <1>7, <1>13 DEF Shift
  <2>2. new[e + 2] = src[e]
    BY <1>8, <2>1
  <2>3. ~Same(new, n, p + 2)
    <3>1. CASE src[e].t = "nl"
      <4>1. e + 2 \in n .. (p + 2) - 1
        BY <1>1, <1>7, <1>13, <2>1
      <4> QED
        BY <2>2, <3>1, <4>1 DEF Same
    <3>2. CASE src[e].t = "cr"
      <4>1. e < Len(src) /\ src[e + 1].t = "nl"
        BY <1>1, <2>1, <3>2 DEF WellFormed
      <4>2. p # e + 1 /\ e + 1 \in 1 .. Len(src)
        BY <1>1, <1>7, <2>1, <4>1
      <4>3. new[(e + 1) + 2].t = "nl"
        BY <1>8, <2>1, <4>1, <4>2
      <4>4. (e + 1) + 2 \in n .. (p + 2) - 1
        BY <1>1, <1>7, <1>13, <2>1, <4>2
      <4> QED
        BY <4>3, <4>4 DEF Same
    <3> QED
      BY <1>1, <1>2, <2>1, <3>1, <3>2
  <2>4. ~OneLine(new, n, Shift(e, 2, p))
    BY <2>1, <2>3 DEF OneLine
  <2>5. ~(p < e)
    BY <1>1, <1>2, <1>7, <1>13
  <2> QED
    BY <1>4, <1>10, <2>4, <2>5 DEF Silences, n, e, new
<1> QED
  BY <1>1, <1>2, <1>7, <1>11, <1>12, <1>13

LEMMA ReplacedCovers ==
  ASSUME NEW src, WellFormed(src), NEW l \in LineStarts(src), CommentAt(src, l) # 0,
         NEW q \in OnLine(src, l), NEW p \in CodeAt(src), NEW new, Moved(src, new, 1, 0)
  PROVE  Silences(new, CommentAt(src, l), Shift(1, 0, p)) <=> p \in OnLine(src, l)
<1> DEFINE e == LineEnd(src, l)
           c == CommentAt(src, l)
<1>1. Len(src) \in Nat /\ DOMAIN src = 1 .. Len(src) /\ Eof(src) = Len(src) + 1
  BY Positions
<1>2. /\ l \in 1 .. Len(src) + 1 /\ (l > 1 => src[l - 1].t = "nl")
      /\ e \in l .. Len(src) + 1
      /\ e \in DOMAIN src => src[e].t \in {"cr", "nl"}
      /\ \A k \in l .. e - 1 : src[k].t \notin {"cr", "nl"}
  BY LineEndIs
<1>3. c \in 1 .. Len(src) /\ e = c + 1 /\ src[c].t = "comment"
  BY <1>1, CommentAtIs
<1>4. q \in CodeAt(src) /\ line_start(src, q) = l
  BY DEF OnLine
<1>5. l <= q /\ q < e
  BY <1>4, OnLineRange
<1>6. q \in 1 .. Len(src) /\ src[q].t \notin {"ws", "comment"}
  BY <1>1, <1>4, CodeIs DEF IsCode, Code
<1>8. p \in DOMAIN src
  BY CodeIs
<1> HIDE DEF e, c
<1>9. Shift(1, 0, c) = c
  BY <1>1, <1>3 DEF Shift
<1>10. q \in 1 .. c - 1 /\ q <= c /\ q \in 1 .. Eof(src) /\ c \in 1 .. Eof(src)
  BY <1>1, <1>3, <1>5, <1>6
<1>11. Same(src, q, c)
  BY <1>1, <1>2, <1>3, <1>5, <1>6 DEF Same
<1>12. Trails(src, c)
  BY <1>6, <1>10, <1>11 DEF Trails
<1>13. line_start(src, c) = l
  BY <1>4, <1>10, <1>11, SameStart
<1>14. p \in OnLine(src, l) <=> OneLine(src, c, p)
  BY <1>1, <1>3, <1>13, OnLineIs
<1>15. Silences(src, c, p) <=> OneLine(src, c, p)
  BY <1>12 DEF Silences
<1>16. Silences(new, Shift(1, 0, c), Shift(1, 0, p)) <=> Silences(src, c, p)
  BY <1>1, <1>3, <1>8, <1>12, SilencesMoves
<1> QED
  BY <1>9, <1>14, <1>15, <1>16 DEF c

\* The marker at n of the new text covers the old tokens of P.
Adds(src, new, e, d, n, P) ==
  P \subseteq CodeAt(src) /\ \A p \in CodeAt(src) : Silences(new, n, Shift(e, d, p)) <=> p \in P

LEMMA OneMarkerAdds ==
  ASSUME NEW src, NEW new, NEW e, NEW d, Moved(src, new, e, d), ListsKept(src, new, e, d),
         NEW r, NEW n, MarkersMoved(src, new, e, d, r, {n}),
         NEW P, Adds(src, new, e, d, n, P)
  PROVE  Silenced(new, r) = Silenced(src, r) \cup Numbers(src, P)
<1> DEFINE S(p) == Shift(e, d, p)
           C == {k \in CodeAt(new) : \E m \in {n} : Silences(new, m, k)}
<1>1. Silenced(new, r) = Silenced(src, r) \cup Numbers(new, C)
  BY CoveredMoves
<1>2. CodeAt(new) = {S(p) : p \in CodeAt(src)}
  BY CodeMoves
<1>3. P \subseteq CodeAt(src) /\ \A p \in CodeAt(src) : Silences(new, n, S(p)) <=> p \in P
  BY DEF Adds
<1>4. Numbers(new, {S(p) : p \in P}) = Numbers(src, P)
  BY <1>3, NumbersMove
<1> HIDE DEF S
<1>5. C = {S(p) : p \in P}
  BY <1>2, <1>3
<1> QED
  BY <1>1, <1>4, <1>5

LEMMA NoMarkerAdds ==
  ASSUME NEW src, NEW new, NEW e, NEW d, Moved(src, new, e, d), ListsKept(src, new, e, d),
         NEW r, MarkersMoved(src, new, e, d, r, {})
  PROVE  Silenced(new, r) = Silenced(src, r)
<1>1. Silenced(new, r) = Silenced(src, r) \cup Numbers(new, {k \in CodeAt(new) : \E m \in {} : Silences(new, m, k)})
  BY CoveredMoves
<1>2. Numbers(new, {}) = {}
  BY DEF Numbers
<1>3. {k \in CodeAt(new) : \E m \in {} : Silences(new, m, k)} = {}
  OBVIOUS
<1> QED
  BY <1>1, <1>2, <1>3

LEMMA LineTakesEffect ==
  ASSUME NEW src, WellFormed(src), NEW l \in LineStarts(src), OnLine(src, l) # {}
  PROVE  LET after == Silenced(SuppressedLine(src, l), Rule)
             both  == Silenced(src, Rule) \cup Numbers(src, OnLine(src, l))
             c     == CommentAt(src, l)
         IN  after \subseteq both /\ (c = 0 \/ Readable(src[c]) => after = both)
<1> DEFINE e == LineEnd(src, l)
           c == CommentAt(src, l)
           P == OnLine(src, l)
<1>1. PICK q \in P : TRUE
  OBVIOUS
<1>2. P \subseteq CodeAt(src)
  BY DEF OnLine
<1>3. CASE c = 0
  <2> DEFINE new == Appended(src, l)
  <2>1. Moved(src, new, e, 2) /\ MarkersMoved(src, new, e, 2, Rule, {e + 1}) /\ ListsKept(src, new, e, 2)
    BY <1>1, <1>3, CodeNotBare, AppendedIs
  <2>2. Adds(src, new, e, 2, e + 1, P)
    BY <1>1, <1>2, <1>3, AppendedCovers DEF Adds
  <2>3. SuppressedLine(src, l) = new
    BY <1>3, SuppressedLineIs
  <2> HIDE DEF e, new, P
  <2>4. Silenced(new, Rule) = Silenced(src, Rule) \cup Numbers(src, P)
    BY <2>1, <2>2, OneMarkerAdds
  <2> QED
    BY <1>3, <2>3, <2>4 DEF P
<1>4. CASE c # 0
  <2> DEFINE v == Changed(src[c])
             new == Replaced(src, c)
  <2>1. c \in DOMAIN src /\ src[c] \in Tokens /\ src[c].t = "comment"
    BY <1>4, CommentToken
  <2>2. Widens(src[c], v) /\ (Readable(src[c]) => Rule \in parse_marker(v))
    <3> HIDE DEF c
    <3> QED
      BY <2>1, ChangedIs
  <2>3. /\ Moved(src, new, 1, 0) /\ ListsKept(src, new, 1, 0)
        /\ MarkersMoved(src, new, 1, 0, Rule, IF parse_marker(v) \cap {Rule, Wildcard} # {} THEN {c} ELSE {})
    <3> HIDE DEF c
    <3> QED
      BY <2>1, <2>2, ReplacedIs DEF Replaced
  <2>4. Adds(src, new, 1, 0, c, P)
    <3>1. \A p \in CodeAt(src) : Silences(new, c, Shift(1, 0, p)) <=> p \in P
      <4> HIDE DEF new
      <4> QED
        BY <1>1, <1>4, <2>3, ReplacedCovers
    <3> QED
      BY <1>2, <3>1 DEF Adds
  <2>5. SuppressedLine(src, l) = new
    BY <1>4, SuppressedLineIs
  <2> HIDE DEF c, new, v, P
  <2>6. CASE parse_marker(v) \cap {Rule, Wildcard} # {}
    <3>1. MarkersMoved(src, new, 1, 0, Rule, {c})
      BY <2>3, <2>6
    <3>2. Silenced(new, Rule) = Silenced(src, Rule) \cup Numbers(src, P)
      BY <2>3, <2>4, <3>1, OneMarkerAdds
    <3> QED
      BY <2>5, <3>2 DEF P
  <2>7. CASE parse_marker(v) \cap {Rule, Wildcard} = {}
    <3>1. MarkersMoved(src, new, 1, 0, Rule, {})
      BY <2>3, <2>7
    <3>2. Silenced(new, Rule) = Silenced(src, Rule)
      BY <2>3, <3>1, NoMarkerAdds
    <3>3. ~Readable(src[c])
      BY <2>2, <2>7
    <3> QED
      BY <1>4, <2>5, <3>2, <3>3 DEF P, c
  <2> QED
    BY <2>6, <2>7
<1> QED
  BY <1>3, <1>4

\* What a command may do to a text.
Grown(src, new) ==
  /\ \A r \in {Rule, OtherRule} : Silenced(src, r) \subseteq Silenced(new, r)
  /\ Loose(src) \/ Silenced(src, OtherRule) = Silenced(new, OtherRule)

LEMMA ReplacedGrows ==
  ASSUME NEW src, WellFormed(src), NEW l \in LineStarts(src), CommentAt(src, l) # 0
  PROVE  WellFormed(Replaced(src, CommentAt(src, l))) /\ Grown(src, Replaced(src, CommentAt(src, l)))
<1> DEFINE c == CommentAt(src, l)
           v == Changed(src[c])
           new == Replaced(src, c)
           N(r) == IF parse_marker(v) \cap {r, Wildcard} # {} THEN {c} ELSE {}
<1>1. c \in DOMAIN src /\ src[c] \in Tokens /\ src[c].t = "comment"
  BY CommentToken
<1> HIDE DEF c
<1>2. Widens(src[c], v) /\ (src[c].head.form # "loose" => parse_marker(v) \subseteq parse_marker(src[c]) \cup {Rule})
  BY <1>1, ChangedIs
<1>3. /\ Moved(src, new, 1, 0) /\ ListsKept(src, new, 1, 0)
      /\ \A r : MarkersMoved(src, new, 1, 0, r, N(r))
      /\ \A r : parse_marker(v) \cap {r, Wildcard} \subseteq parse_marker(src[c])
                  => MarkersMoved(src, new, 1, 0, r, {})
  BY <1>1, <1>2, ReplacedIs DEF Replaced
<1> HIDE DEF new, v, N
<1>4. \A r \in {Rule, OtherRule} : Silenced(src, r) \subseteq Silenced(new, r)
  BY <1>3, CoveredMoves
<1>5. ASSUME ~Loose(src) PROVE Silenced(new, OtherRule) = Silenced(src, OtherRule)
  <2>1. parse_marker(v) \subseteq parse_marker(src[c]) \cup {Rule}
    BY <1>1, <1>2, <1>5 DEF Loose
  <2>2. parse_marker(v) \cap {OtherRule, Wildcard} \subseteq parse_marker(src[c])
    BY <2>1, RulesDiffer
  <2> QED
    BY <1>3, <2>2, NoMarkerAdds
<1>6. WellFormed(new)
  BY <1>3 DEF Moved
<1> QED
  BY <1>4, <1>5, <1>6 DEF Grown, new, c

LEMMA LineCommandGrows ==
  ASSUME NEW src, WellFormed(src), NEW l \in LineStarts(src)
  PROVE  /\ WellFormed(SuppressedLine(src, l))
         /\ ~BlankCr(src) => Grown(src, SuppressedLine(src, l))
<1>1. CASE CommentAt(src, l) # 0
  BY <1>1, ReplacedGrows, SuppressedLineIs
<1>2. CASE CommentAt(src, l) = 0
  <2> DEFINE e == LineEnd(src, l)
             new == Appended(src, l)
  <2>1. SuppressedLine(src, l) = new
    BY <1>2, SuppressedLineIs
  <2>2. WellFormed(new)
    BY <1>2, AppendedIs
  <2>3. ASSUME ~BlankCr(src) PROVE Grown(src, new)
    <3>1. e \in DOMAIN src => ~BareCr(src, e)
      BY <2>3 DEF BlankCr
    <3>2. /\ Moved(src, new, e, 2) /\ ListsKept(src, new, e, 2)
          /\ MarkersMoved(src, new, e, 2, Rule, {e + 1}) /\ MarkersMoved(src, new, e, 2, OtherRule, {})
      BY <1>2, <3>1, AppendedIs
    <3> HIDE DEF e, new
    <3>3. Silenced(src, Rule) \subseteq Silenced(new, Rule)
      BY <3>2, CoveredMoves
    <3>4. Silenced(new, OtherRule) = Silenced(src, OtherRule)
      BY <3>2, NoMarkerAdds
    <3> QED
      BY <3>3, <3>4 DEF Grown
  <2> QED
    BY <2>1, <2>2, <2>3
<1> QED
  BY <1>1, <1>2

LEMMA ListedIs ==
  ASSUME NEW src, WellFormed(src), Listed(src) # {}
  PROVE  LET l == Min(Listed(src))
         IN  l \in LineStarts(src) /\ CommentAt(src, l) # 0 /\ HasList(src[CommentAt(src, l)])
<1>1. /\ Listed(src) \subseteq LineStarts(src)
      /\ \A l \in Listed(src) : CommentAt(src, l) # 0 /\ HasList(src[CommentAt(src, l)])
  BY DEF Listed
<1>2. LineStarts(src) \subseteq Nat
  BY Positions DEF LineStarts
<1>3. Min(Listed(src)) \in Listed(src)
  BY <1>1, <1>2, MinOf
<1> QED
  BY <1>1, <1>3

LEMMA FileCommandGrows ==
  ASSUME NEW src, WellFormed(src)
  PROVE  WellFormed(SuppressedFile(src)) /\ Grown(src, SuppressedFile(src))
<1>1. CASE Listed(src) # {}
  <2> DEFINE l == Min(Listed(src))
  <2>1. l \in LineStarts(src) /\ CommentAt(src, l) # 0 /\ HasList(src[CommentAt(src, l)])
    BY <1>1, ListedIs
  <2>2. SuppressedFile(src) = [src EXCEPT ![CommentAt(src, l)] = Extended(@)]
    BY <1>1 DEF SuppressedFile
  <2> HIDE DEF l
  <2>3. SuppressedFile(src) = Replaced(src, CommentAt(src, l))
    BY <2>1, <2>2 DEF Replaced, Changed
  <2> QED
    BY <2>1, <2>3, ReplacedGrows
<1>2. CASE Listed(src) = {}
  <2> DEFINE new == PrependedText(src)
  <2>1. SuppressedFile(src) = new
    BY <1>2 DEF SuppressedFile, PrependedText
  <2>2. /\ Moved(src, new, 1, 2) /\ ListsKept(src, new, 1, 2)
        /\ MarkersMoved(src, new, 1, 2, Rule, {1}) /\ MarkersMoved(src, new, 1, 2, OtherRule, {})
    BY PrependedIs
  <2> HIDE DEF new
  <2>3. Silenced(src, Rule) \subseteq Silenced(new, Rule)
    BY <2>2, CoveredMoves
  <2>4. Silenced(new, OtherRule) = Silenced(src, OtherRule)
    BY <2>2, NoMarkerAdds
  <2>5. WellFormed(new)
    BY <2>2 DEF Moved
  <2> QED
    BY <2>1, <2>3, <2>4, <2>5 DEF Grown
<1> QED
  BY <1>1, <1>2

LEMMA ScopesAre ==
  ASSUME NEW src, WellFormed(src), ~BlankCr(src), ~BehindBlock(src), NEW m \in Markers(src)
  PROVE  /\ LineOrBlock(src, m) \subseteq Scope(src, m)
         /\ Scope(src, m) \subseteq Documented(src, m)
         /\ Wildcard \in parse_marker(src[m]) => Scope(src, m) = Documented(src, m)
<1> DEFINE own == OnLine(src, line_start(src, m))
<1>1. m \in DOMAIN src /\ src[m].t = "comment"
  BY DEF Markers
<1>2. Unblocked(src, m)
  <2>1. SUFFICES ASSUME OnLine(src, line_start(src, m)) = {},
                        NEW k \in 1 .. m - 1, Same(src, k, m), src[k].t = "block"
                 PROVE  FALSE
    BY DEF Unblocked
  <2>2. Len(src) \in Nat /\ m \in 1 .. Len(src) /\ Eof(src) = Len(src) + 1
    BY <1>1, Positions
  <2>3. k \in 1 .. Eof(src) /\ m \in 1 .. Eof(src) /\ k <= m
    BY <2>2
  <2>4. line_start(src, m) <= k
    BY <2>1, <2>3, OnItsLine
  <2>5. line_start(src, m) \in 1 .. m
    BY <2>3, LineStart
  <2>6. k \in line_start(src, m) .. m - 1
    BY <2>2, <2>4, <2>5
  <2> QED
    BY <2>1, <2>6 DEF BehindBlock
<1>3. Scope(src, m) = Reaches(src, m)
  <2>1. Scope(src, m) = {p \in CodeAt(src) : Silences(src, m, p)}
    BY <1>1, CoversIs DEF Scope
  <2> QED
    BY <1>1, <1>2, <2>1, ReachesIs
<1>4. BeforeAllCode(src, m) => own = {}
  <2>1. SUFFICES ASSUME NEW p \in own, m < p PROVE FALSE
    BY DEF BeforeAllCode, OnLine
  <2>2. p \in CodeAt(src)
    BY DEF OnLine
  <2>3. OneLine(src, m, p)
    BY <1>1, <2>2, OnLineIs
  <2>4. p < m
    BY <1>1, <2>2, <2>3, CodeIsBefore
  <2> QED
    BY <1>1, <2>1, <2>2, <2>4, Positions, CodeIs
<1>5. LineOrBlock(src, m) \subseteq CodeAt(src)
  BY DEF LineOrBlock, OnLine
<1> QED
  BY <1>3, <1>4, <1>5 DEF Reaches, Documented

-----------------------------------------------------------------------------
(* The theorems *)

\* Whatever commands are run, a comment still ends its line and a carriage
\* return still stands before a newline: no command puts code behind a comment
\* (extension.ts:319-344, 399-404).
THEOREM TextStaysWellFormed == Spec => []WellFormed(text)
<1>1. Init => WellFormed(text)
  BY TextsAreWellFormed DEF Init
<1>2. WellFormed(text) /\ [Next]_vars => WellFormed(text)'
  <2> SUFFICES ASSUME WellFormed(text), [Next]_vars PROVE WellFormed(text)'
    OBVIOUS
  <2>1. ASSUME NEW l \in LineStarts(text), suppressRuleForLine(l) PROVE WellFormed(text)'
    BY <2>1, LineCommandGrows DEF suppressRuleForLine, Command
  <2>2. CASE suppressRuleForFile
    BY <2>2, FileCommandGrows DEF suppressRuleForFile, Command
  <2>3. CASE UNCHANGED vars
    BY <2>3 DEF vars
  <2> QED
    BY <2>1, <2>2, <2>3 DEF Next
<1> QED
  BY <1>1, <1>2, PTL DEF Spec

\* The bytes resolve_scope finds by walking hold the marker's line or block and
\* nothing that docs/configuration.md:149-193 does not give it, allow(*) all of
\* that, in every text that has neither a bare carriage return nor a marker
\* behind a block comment (suppress.cpp:251-393).
THEOREM ScopesFollowTheDocs == Spec => []ScopesAsDocumented
<1>1. WellFormed(text) => ScopesAsDocumented
  BY ScopesAre DEF ScopesAsDocumented
<1> QED
  BY <1>1, TextStaysWellFormed, PTL

\* Suppressing a rule for a line silences it nowhere but on that line, and
\* there if the line has no comment or one with a list that the scanner reads
\* once it is rewritten (extension.ts:319-344, suppress.cpp:81-137).
THEOREM LineCommandReachesItsLine == Spec => []LineCommandTakesEffect
<1>1. WellFormed(text) => LineCommandTakesEffect
  BY LineTakesEffect DEF LineCommandTakesEffect
<1> QED
  BY <1>1, TextStaysWellFormed, PTL

\* No command takes a suppression away, and none touches another rule's unless
\* it rewrites a list the scanner did not read: what it puts in comes neither
\* between a marker and its target nor in front of an allow(*) at the top
\* (extension.ts:319-344, 399-404, suppress.cpp:352-393).
THEOREM CommandsKeepSuppressions == Spec => CommandsOnlyAdd
<1> DEFINE A == ~BlankCr(text) =>
                  /\ \A r \in {Rule, OtherRule} : Silenced(text, r) \subseteq Silenced(text', r)
                  /\ Loose(text) \/ Silenced(text, OtherRule) = Silenced(text', OtherRule)
<1>1. WellFormed(text) /\ [Next]_vars => [A]_vars
  <2> SUFFICES ASSUME WellFormed(text), Next, ~BlankCr(text) PROVE Grown(text, text')
    BY DEF Grown
  <2>1. ASSUME NEW l \in LineStarts(text), suppressRuleForLine(l) PROVE Grown(text, text')
    BY <2>1, LineCommandGrows DEF suppressRuleForLine, Command
  <2>2. CASE suppressRuleForFile
    BY <2>2, FileCommandGrows DEF suppressRuleForFile, Command
  <2> QED
    BY <2>1, <2>2 DEF Next
<1> QED
  BY <1>1, TextStaysWellFormed, PTL DEF Spec, CommandsOnlyAdd
=============================================================================
