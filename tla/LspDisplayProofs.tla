-------------------------- MODULE LspDisplayProofs --------------------------
(***************************************************************************)
(* What the editor shows is what it should be: the proofs that LspSession  *)
(* satisfies RegistryFollows, that the registry follows the editor, and    *)
(* on top of it VersionNamesText and SavedIsFresh, for any documents,      *)
(* texts, batches and bounds.                                              *)
(***************************************************************************)
EXTENDS LspSessionProofs, WellFoundedInduction

-----------------------------------------------------------------------------
(* What a notification makes of a text *)

\* A notification that gives the document a text: which one, and what it takes
\* for that text to come out right.
WritesTo(m, u) == m.method \in {"didOpen", "didChange"} /\ m.uri = u
Edits(u) == {i \in DOMAIN inbox : WritesTo(inbox[i], u)}

FinalText(m) == IF m.method = "didOpen" THEN m.text ELSE m.changes[Len(m.changes)].to
StartText(m) == m.changes[1].from
Whole(m) == m.method = "didOpen" \/ (Len(m.changes) = 1 /\ m.changes[1].fit = "full")
Exact(m) ==
  /\ m.method = "didChange" /\ Len(m.changes) >= 1
  /\ \A k \in 1..Len(m.changes) : m.changes[k].fit = "exact"
  /\ \A k \in 1..Len(m.changes) - 1 : m.changes[k + 1].from = m.changes[k].to

\* The invariant, for one document.  The last edit in the pipe leaves the
\* editor's text; each edit is made for the text the one before it leaves; and
\* for a document in sync, whatever goes wrong is mended by a whole text later.
LastEditIsCurrent(u) ==
  \A i \in Edits(u) : isOpen[u] /\ (\A j \in Edits(u) : j <= i) =>
    FinalText(inbox[i]) = text[u] /\ inbox[i].version = version[u]
EditsChain(u) ==
  \A i, j \in Edits(u) : i < j /\ (\A k \in Edits(u) : k <= i \/ j <= k) =>
    Whole(inbox[j]) \/ StartText(inbox[j]) = FinalText(inbox[i])
Mended(u) ==
  isOpen[u] /\ synced[u] =>
    \A j \in Edits(u) : \/ Whole(inbox[j]) \/ Exact(inbox[j])
                        \/ \E a \in Edits(u) : j < a /\ Whole(inbox[a])
StartsRight(u) ==
  isOpen[u] /\ synced[u] =>
    \A f \in Edits(u) : (\A j \in Edits(u) : f <= j) =>
      docs[u].contents = StartText(inbox[f]) \/ \E a \in Edits(u) : Whole(inbox[a])
InStep(u) ==
  isOpen[u] /\ synced[u] /\ Edits(u) = {} =>
    docs[u].contents = text[u] /\ docs[u].version = version[u]

Follows(u) ==
  LastEditIsCurrent(u) /\ EditsChain(u) /\ Mended(u) /\ StartsRight(u) /\ InStep(u)

LEMMA SmallestNumber ==
  ASSUME NEW T, T \subseteq Nat, T # {}
  PROVE  \E x \in T : \A y \in T : x <= y
<1>1. PICK x \in T : \A y \in T : <<y, x>> \notin OpToRel(<, Nat)
  BY NatLessThanWellFounded, WFMin
<1>2. \A y \in T : ~(y < x)
  BY <1>1 DEF OpToRel
<1>3. ASSUME NEW y \in T PROVE x <= y
  <2>1. x \in Nat /\ y \in Nat
    OBVIOUS
  <2> QED
    BY <1>2, <2>1
<1> QED
  BY <1>3

\* A batch that meets the text it was made for lands whole, under its version.
LEMMA ApplyExact ==
  ASSUME NEW d \in Doc, NEW v \in Nat, NEW cs \in Seq(Change), Len(cs) >= 1,
         Fitting(d.contents, cs[1]),
         \A k \in 1..Len(cs) - 1 : cs[k + 1].fit = "exact" /\ cs[k + 1].from = cs[k].to,
         NEW r \in ApplyChanges(d, v, cs)
  PROVE  r.doc.contents = cs[Len(cs)].to /\ r.doc.version = v
<1> DEFINE n == Len(cs)
           before(i) == IF i = 1 THEN d.contents ELSE cs[i - 1].to
<1>1. n \in Nat /\ n >= 1
  OBVIOUS
<1>2. ASSUME NEW i \in 1..n PROVE Fitting(before(i), cs[i])
  <2>1. CASE i = 1
    BY <2>1
  <2>2. CASE i # 1
    <3> DEFINE k == i - 1
    <3>1. k \in 1..n - 1 /\ k + 1 = i
      BY <1>1, <2>2
    <3>2. cs[k + 1].fit = "exact" /\ cs[k + 1].from = cs[k].to
      BY <3>1
    <3>3. cs[i].fit = "exact" /\ cs[i].from = cs[i - 1].to
      BY <3>1, <3>2
    <3> QED
      BY <2>2, <3>3 DEF Fitting
  <2> QED
    BY <2>1, <2>2
<1> HIDE DEF n
\* Wherever the texts were right so far they stay right.
<1>3. ASSUME NEW after, NEW k \in 0..n, after[0] = d.contents,
             \A i \in 1..k : after[i] \in ApplyOne(after[i - 1], cs[i])
      PROVE  \A i \in 1..k : after[i] = cs[i].to
  <2> SUFFICES ASSUME {i \in 1..k : after[i] # cs[i].to} # {} PROVE FALSE
    OBVIOUS
  <2>1. PICK x \in {i \in 1..k : after[i] # cs[i].to} :
          \A y \in {i \in 1..k : after[i] # cs[i].to} : x <= y
    <3>1. {i \in 1..k : after[i] # cs[i].to} \subseteq Nat
      BY <1>1
    <3> HIDE DEF before
    <3> QED
      BY <3>1, SmallestNumber
  <2>2. x \in 1..k /\ x \in 1..n /\ after[x] # cs[x].to
    BY <1>1, <2>1
  <2>3. after[x - 1] = before(x)
    <3>1. CASE x = 1
      BY <1>3, <3>1
    <3>2. CASE x # 1
      <4>1. x - 1 \in 1..k /\ ~(x <= x - 1)
        BY <1>1, <2>2, <3>2
      <4>2. after[x - 1] = cs[x - 1].to
        BY <2>1, <4>1
      <4> QED
        BY <3>2, <4>2
    <3> QED
      BY <3>1, <3>2
  <2>4. Fitting(after[x - 1], cs[x])
    BY <1>2, <2>2, <2>3
  <2>5. after[x] \in ApplyOne(after[x - 1], cs[x])
    BY <1>3, <2>2
  <2> QED
    BY <2>2, <2>4, <2>5 DEF ApplyOne
<1> DEFINE reachable == {d.contents, Scrambled} \cup {cs[i].to : i \in 1..n}
<1>4. ASSUME NEW after \in [0..n -> reachable], after[0] = d.contents,
             \A i \in 1..n : after[i] \in ApplyOne(after[i - 1], cs[i]),
             r.doc = [d EXCEPT !.contents = after[n], !.version = v]
      PROVE  r.doc.contents = cs[n].to /\ r.doc.version = v
  <2>1. n \in 0..n /\ n \in 1..n
    BY <1>1
  <2>4. after[0] = d.contents /\ \A i \in 1..n : after[i] \in ApplyOne(after[i - 1], cs[i])
    BY <1>4
  <2> HIDE DEF reachable, before
  <2>2. \A i \in 1..n : after[i] = cs[i].to
    BY <1>3, <2>1, <2>4
  <2>3. after[n] = cs[n].to
    BY <2>1, <2>2
  <2> QED
    BY <1>4, <2>3 DEF Doc
<1>5. ASSUME NEW after, NEW k \in 0..n - 1, after[0] = d.contents,
             \A i \in 1..k : after[i] \in ApplyOne(after[i - 1], cs[i]),
             MayReject(after[k], cs[k + 1])
      PROVE  FALSE
  <2>1. k \in 0..n /\ k + 1 \in 1..n /\ (k + 1) - 1 = k
    BY <1>1
  <2>2. after[k] = before(k + 1)
    <3>1. CASE k = 0
      BY <1>5, <3>1
    <3>2. CASE k # 0
      <4>1. k \in 1..k /\ k + 1 # 1
        BY <1>1, <3>2
      <4>2. after[k] = cs[k].to
        BY <1>3, <1>5, <2>1, <4>1
      <4> QED
        BY <2>1, <4>1, <4>2
    <3> QED
      BY <3>1, <3>2
  <2>3. Fitting(after[k], cs[k + 1])
    BY <1>2, <2>1, <2>2
  <2> QED
    BY <1>5, <2>3 DEF MayReject
<1>6. \/ \E after \in [0..n -> reachable] :
           /\ after[0] = d.contents
           /\ \A i \in 1..n : after[i] \in ApplyOne(after[i - 1], cs[i])
           /\ r.doc = [d EXCEPT !.contents = after[n], !.version = v]
      \/ \E p \in [0..n -> reachable] \X (0..n - 1) :
           /\ p[1][0] = d.contents
           /\ \A i \in 1..p[2] : p[1][i] \in ApplyOne(p[1][i - 1], cs[i])
           /\ MayReject(p[1][p[2]], cs[p[2] + 1])
  BY Zenon DEF ApplyChanges, n
<1> HIDE DEF reachable, before
<1>7. CASE \E after \in [0..n -> reachable] :
             /\ after[0] = d.contents
             /\ \A i \in 1..n : after[i] \in ApplyOne(after[i - 1], cs[i])
             /\ r.doc = [d EXCEPT !.contents = after[n], !.version = v]
  BY <1>4, <1>7 DEF n
<1>8. CASE \E p \in [0..n -> reachable] \X (0..n - 1) :
             /\ p[1][0] = d.contents
             /\ \A i \in 1..p[2] : p[1][i] \in ApplyOne(p[1][i - 1], cs[i])
             /\ MayReject(p[1][p[2]], cs[p[2] + 1])
  BY <1>5, <1>8
<1> QED
  BY <1>6, <1>7, <1>8

-----------------------------------------------------------------------------
(* One document at a time: the server reads, the editor writes *)

\* The server reads a message: what that means for the text of document u.
TextReads(u) ==
  LET m == Head(inbox) IN
  /\ inbox # <<>> /\ inbox' = Tail(inbox)
  /\ isOpen' = isOpen /\ text' = text /\ version' = version /\ synced' = synced
  /\ ~WritesTo(m, u) /\ ~(m.method = "didClose" /\ m.uri = u) =>
       docs'[u].contents = docs[u].contents /\ docs'[u].version = docs[u].version
  /\ /\ WritesTo(m, u) /\ (m.method = "didChange" => docs[u] # NoDoc)
     /\ Whole(m) \/ (Exact(m) /\ docs[u].contents = StartText(m))
     => docs'[u].contents = FinalText(m) /\ docs'[u].version = m.version

LEMMA EditPositions ==
  ASSUME TypeOK, NEW u
  PROVE  /\ Edits(u) \subseteq 1..Len(inbox) /\ Len(inbox) \in Nat
         /\ inbox \in Seq(ClientMsg)
<1>1. inbox \in Seq(ClientMsg)
  BY DEF TypeOK, ServerTypeOK
<1> QED
  BY <1>1 DEF Edits

\* Taking the head off the pipe moves every edit one place up.
LEMMA EditsShift ==
  ASSUME TypeOK, NEW u, inbox # <<>>, inbox' = Tail(inbox)
  PROVE  /\ \A i \in Edits(u)' : i \in Int /\ i >= 1 /\ i + 1 \in Edits(u) /\ inbox'[i] = inbox[i + 1]
         /\ \A j \in Edits(u) : /\ j \in Int /\ j >= 1
                                /\ j = 1 \/ (j - 1 \in Edits(u)' /\ inbox'[j - 1] = inbox[j])
         /\ 1 \in Edits(u) <=> WritesTo(inbox[1], u)
         /\ inbox[1] = Head(inbox)
<1> DEFINE S == Edits(u)
           T == Edits(u)'
<1>1. inbox \in Seq(ClientMsg) /\ inbox[1] = Head(inbox)
  BY TailElements DEF TypeOK, ServerTypeOK
<1>2. /\ \A i \in T : i \in Int /\ i >= 1 /\ i + 1 \in S /\ inbox'[i] = inbox[i + 1]
      /\ \A i \in Int : i >= 1 /\ i + 1 \in S => i \in T
      /\ \A i \in S : i \in Int /\ i >= 1
      /\ 1 \in S <=> WritesTo(inbox[1], u)
  <2>1. /\ Len(inbox) \in Nat \ {0} /\ Len(inbox') = Len(inbox) - 1
        /\ \A i \in 1..(Len(inbox) - 1) : inbox'[i] = inbox[i + 1]
        /\ inbox' \in Seq(ClientMsg)
    BY <1>1, TailElements
  <2>2. DOMAIN inbox = 1..Len(inbox) /\ DOMAIN inbox' = 1..(Len(inbox) - 1)
    BY <1>1, <2>1
  <2> QED
    BY <2>1, <2>2 DEF Edits
<1>3. ASSUME NEW j \in S, j # 1 PROVE j - 1 \in T /\ inbox'[j - 1] = inbox[j]
  <2>1. j - 1 \in Int /\ j - 1 >= 1 /\ (j - 1) + 1 = j
    BY <1>2, <1>3
  <2>2. j - 1 \in T
    BY <1>2, <1>3, <2>1
  <2> QED
    BY <1>2, <2>1, <2>2
<1> HIDE DEF S, T
<1>4. \A j \in S : j = 1 \/ (j - 1 \in T /\ inbox'[j - 1] = inbox[j])
  BY <1>3
<1> QED
  BY <1>1, <1>2, <1>4 DEF S, T

\* And a whole text that was to come after it is still to come.
LEMMA WholeShifts ==
  ASSUME TypeOK, NEW u, inbox # <<>>, inbox' = Tail(inbox),
         \E a \in Edits(u) : a # 1 /\ Whole(inbox[a])
  PROVE  \E b \in Edits(u)' : Whole(inbox'[b])
<1>1. PICK a \in Edits(u) : a # 1 /\ Whole(inbox[a])
  OBVIOUS
<1>2. a - 1 \in Edits(u)' /\ inbox'[a - 1] = inbox[a]
  BY <1>1, EditsShift
<1>3. Whole(inbox'[a - 1])
  BY <1>1, <1>2
<1> QED
  BY <1>2, <1>3

\* A message at the end of the pipe is its last edit, or none.
LEMMA EditsGrow ==
  ASSUME TypeOK, NEW u, NEW e \in ClientMsg, inbox' = Append(inbox, e)
  PROVE  /\ \A i : i \in Edits(u)' <=> i \in Edits(u) \/ (i = Len(inbox) + 1 /\ WritesTo(e, u))
         /\ \A i \in Edits(u) : i \in Int /\ i < Len(inbox) + 1 /\ inbox'[i] = inbox[i]
         /\ inbox'[Len(inbox) + 1] = e /\ Len(inbox) + 1 \in Int
<1> DEFINE S == Edits(u)
           n == Len(inbox) + 1
<1>1. /\ inbox \in Seq(ClientMsg) /\ S \subseteq 1..Len(inbox) /\ Len(inbox) \in Nat
      /\ DOMAIN inbox = 1..Len(inbox)
  BY EditPositions
<1>2. /\ Append(inbox, e) \in Seq(ClientMsg) /\ Len(inbox') = n
      /\ \A i \in 1..Len(inbox) : inbox'[i] = inbox[i]
      /\ inbox'[n] = e
  BY <1>1, AppendElements
<1>3. DOMAIN inbox' = 1..n
  BY <1>2
<1>4. \A i : i \in 1..n <=> i \in 1..Len(inbox) \/ i = n
  BY <1>1
<1> QED
  BY <1>1, <1>2, <1>3, <1>4 DEF Edits

\* The first note of a document fits the registry.
LEMMA HeadNoteFits ==
  ASSUME TypeOK, NEW u, Agrees(u), inbox # <<>>, Concerns(Head(inbox), u)
  PROVE  Head(inbox).method = "didOpen" <=> docs[u] = NoDoc
<1>1. inbox \in Seq(ClientMsg)
  BY DEF TypeOK, ServerTypeOK
<1>2. inbox[1] = Head(inbox) /\ Len(inbox) \in Nat \ {0} /\ DOMAIN inbox = 1..Len(inbox)
  BY <1>1, TailElements
<1>3. 1 \in AboutIn(u)
  BY <1>2 DEF AboutIn, NotesOn
<1>4. \A j \in AboutIn(u) : 1 <= j
  BY Positions
<1> QED
  BY <1>2, <1>3, <1>4 DEF Agrees

\* An edit that misses while its document is in sync has a whole text after it.
LEMMA MissIsMended ==
  ASSUME TypeOK, NEW u, Follows(u), isOpen[u], synced[u], inbox # <<>>, WritesTo(Head(inbox), u),
         ~Whole(Head(inbox)), Exact(Head(inbox)) => docs[u].contents # StartText(Head(inbox))
  PROVE  \E a \in Edits(u) : a # 1 /\ Whole(inbox[a])
<1>1. inbox[1] = Head(inbox) /\ 1 \in Edits(u) /\ \A j \in Edits(u) : j \in Int /\ 1 <= j
  <2>1. inbox \in Seq(ClientMsg)
    BY EditPositions
  <2>2. inbox[1] = Head(inbox) /\ Len(inbox) \in Nat \ {0} /\ DOMAIN inbox = 1..Len(inbox)
    BY <2>1, TailElements
  <2>3. Edits(u) \subseteq 1..Len(inbox)
    BY EditPositions
  <2> QED
    BY <2>2, <2>3 DEF Edits
<1>2. CASE Exact(Head(inbox))
  <2>1. PICK a \in Edits(u) : Whole(inbox[a])
    BY <1>1, <1>2 DEF Follows, StartsRight
  <2>2. a # 1
    BY <1>1, <2>1
  <2> QED
    BY <2>1, <2>2
<1>3. CASE ~Exact(Head(inbox))
  <2>1. PICK a \in Edits(u) : 1 < a /\ Whole(inbox[a])
    BY <1>1, <1>3 DEF Follows, Mended
  <2>2. a # 1
    BY <1>1, <2>1
  <2> QED
    BY <2>1, <2>2
<1> QED
  BY <1>2, <1>3

\* After the didClose of a document that is open again its didOpen is to come.
LEMMA CloseThenOpen ==
  ASSUME TypeOK, NEW u \in Uris, Agrees(u), isOpen[u], inbox # <<>>,
         Head(inbox).method = "didClose", Head(inbox).uri = u
  PROVE  \E a \in Edits(u) : a # 1 /\ Whole(inbox[a])
<1> DEFINE S == AboutIn(u)
           R == {i \in S : i # 1}
<1>1. /\ inbox[1] = Head(inbox) /\ 1 \in S /\ Len(inbox) \in Nat
      /\ \A i \in S : i \in Nat /\ i >= 1
  <2>1. inbox \in Seq(ClientMsg)
    BY DEF TypeOK, ServerTypeOK
  <2>2. inbox[1] = Head(inbox) /\ Len(inbox) \in Nat \ {0} /\ DOMAIN inbox = 1..Len(inbox)
    BY <2>1, TailElements
  <2>3. S \subseteq 1..Len(inbox)
    BY Positions
  <2>4. 1 \in S
    BY <2>2 DEF AboutIn, NotesOn, Concerns
  <2> QED
    BY <2>2, <2>3, <2>4
<1>2. R # {}
  <2> SUFFICES ASSUME R = {} PROVE FALSE
    OBVIOUS
  <2>1. \A j \in S : j <= 1
    BY <1>1
  <2> QED
    BY <1>1, <2>1 DEF Agrees
<1>3. PICK a \in R : \A i \in R : a <= i
  <2>1. R \subseteq Nat
    BY <1>1
  <2> HIDE DEF R
  <2> QED
    BY <1>2, <2>1, SmallestNumber
<1>4. a \in S /\ 1 < a /\ \A k \in S : k <= 1 \/ a <= k
  BY <1>1, <1>3
<1>5. inbox[a].method = "didOpen"
  BY <1>1, <1>4 DEF Agrees
<1>6. a \in Edits(u)
  BY <1>4, <1>5 DEF Edits, WritesTo, AboutIn, NotesOn, Concerns
<1> QED
  BY <1>4, <1>5, <1>6 DEF Whole

LEMMA ReadingKeepsFollows ==
  ASSUME TypeOK, NEW u \in Uris, Agrees(u), Follows(u), TextReads(u)
  PROVE  Follows(u)'
<1> DEFINE S == Edits(u)
           T == Edits(u)'
<1>1. /\ inbox \in Seq(ClientMsg) /\ inbox # <<>> /\ inbox' = Tail(inbox) /\ inbox[1] = Head(inbox)
      /\ isOpen' = isOpen /\ text' = text /\ version' = version /\ synced' = synced
  BY TailElements DEF TypeOK, ServerTypeOK, TextReads
<1>2. /\ \A i \in T : i \in Int /\ i >= 1 /\ i + 1 \in S /\ inbox'[i] = inbox[i + 1]
      /\ \A i \in S : i \in Int /\ i >= 1
      /\ 1 \in S <=> WritesTo(inbox[1], u)
  BY <1>1, EditsShift
<1>3. \A j \in S : j = 1 \/ (j - 1 \in T /\ inbox'[j - 1] = inbox[j])
  BY <1>1, EditsShift
<1>4. (\E a \in S : a # 1 /\ Whole(inbox[a])) => \E b \in T : Whole(inbox'[b])
  BY <1>1, WholeShifts
\* The registry has the text of the message read, or a whole one is to come.
<1>5. ASSUME isOpen[u], synced[u], 1 \in S
      PROVE  \/ docs'[u].contents = FinalText(inbox[1]) /\ docs'[u].version = inbox[1].version
             \/ \E b \in T : Whole(inbox'[b])
  <2>1. WritesTo(inbox[1], u)
    BY <1>2, <1>5
  <2>2. inbox[1].method = "didChange" => docs[u] # NoDoc
    BY <1>1, <2>1, HeadNoteFits DEF WritesTo, Concerns
  <2>3. CASE Whole(inbox[1]) \/ (Exact(inbox[1]) /\ docs[u].contents = StartText(inbox[1]))
    BY <1>1, <2>1, <2>2, <2>3 DEF TextReads
  <2>4. CASE ~Whole(inbox[1]) /\ (Exact(inbox[1]) => docs[u].contents # StartText(inbox[1]))
    BY <1>1, <1>4, <1>5, <2>1, <2>4, MissIsMended
  <2> QED
    BY <2>3, <2>4
<1>6. ASSUME isOpen[u], 1 \notin S
      PROVE  \/ docs'[u].contents = docs[u].contents /\ docs'[u].version = docs[u].version
             \/ \E b \in T : Whole(inbox'[b])
  <2>1. CASE Head(inbox).method = "didClose" /\ Head(inbox).uri = u
    <3>1. \E a \in S : a # 1 /\ Whole(inbox[a])
      BY <1>1, <1>6, <2>1, CloseThenOpen
    <3> QED
      BY <1>4, <3>1
  <2>2. CASE ~(Head(inbox).method = "didClose" /\ Head(inbox).uri = u)
    BY <1>1, <1>2, <1>6, <2>2 DEF TextReads
  <2> QED
    BY <2>1, <2>2
<1> HIDE DEF S, T
<1>7. ASSUME NEW i \in T, isOpen'[u], \A j \in T : j <= i
      PROVE  FinalText(inbox'[i]) = text'[u] /\ inbox'[i].version = version'[u]
  <2>1. \A j \in S : j <= i + 1
    BY <1>2, <1>3, <1>7
  <2>2. i + 1 \in S /\ inbox'[i] = inbox[i + 1]
    BY <1>2
  <2>3. FinalText(inbox[i + 1]) = text[u] /\ inbox[i + 1].version = version[u]
    BY <1>1, <1>7, <2>1, <2>2 DEF Follows, LastEditIsCurrent, S
  <2> QED
    BY <1>1, <2>2, <2>3
<1>8. ASSUME NEW i \in T, NEW j \in T, i < j, \A k \in T : k <= i \/ j <= k
      PROVE  Whole(inbox'[j]) \/ StartText(inbox'[j]) = FinalText(inbox'[i])
  <2>1. /\ i + 1 \in S /\ j + 1 \in S /\ i + 1 < j + 1
        /\ inbox'[i] = inbox[i + 1] /\ inbox'[j] = inbox[j + 1]
    BY <1>2, <1>8
  <2>2. \A k \in S : k <= i + 1 \/ j + 1 <= k
    BY <1>2, <1>3, <1>8
  <2>3. Whole(inbox[j + 1]) \/ StartText(inbox[j + 1]) = FinalText(inbox[i + 1])
    BY <2>1, <2>2 DEF Follows, EditsChain, S
  <2> QED
    BY <2>1, <2>3
<1>9. ASSUME isOpen'[u], synced'[u], NEW j \in T
      PROVE  \/ Whole(inbox'[j]) \/ Exact(inbox'[j])
             \/ \E a \in T : j < a /\ Whole(inbox'[a])
  <2>1. j + 1 \in S /\ inbox'[j] = inbox[j + 1] /\ j \in Int /\ j >= 1
    BY <1>2
  <2>2. \/ Whole(inbox[j + 1]) \/ Exact(inbox[j + 1])
        \/ \E a \in S : j + 1 < a /\ Whole(inbox[a])
    BY <1>1, <1>9, <2>1 DEF Follows, Mended, S
  <2>3. ASSUME NEW a \in S, j + 1 < a, Whole(inbox[a])
        PROVE  \E b \in T : j < b /\ Whole(inbox'[b])
    <3>1. a \in Int /\ a # 1 /\ j < a - 1
      BY <1>2, <2>1, <2>3
    <3>2. a - 1 \in T /\ inbox'[a - 1] = inbox[a]
      BY <1>3, <3>1
    <3>3. Whole(inbox'[a - 1])
      BY <2>3, <3>2
    <3> QED
      BY <3>1, <3>2, <3>3
  <2> QED
    BY <2>1, <2>2, <2>3
<1>10. ASSUME isOpen'[u], synced'[u], NEW f \in T, \A j \in T : f <= j
       PROVE  docs'[u].contents = StartText(inbox'[f]) \/ \E a \in T : Whole(inbox'[a])
  <2>1. f + 1 \in S /\ inbox'[f] = inbox[f + 1] /\ f \in Int /\ f >= 1
    BY <1>2
  <2>2. \A j \in S : j = 1 \/ f + 1 <= j
    <3> SUFFICES ASSUME NEW j \in S, j # 1 PROVE f + 1 <= j
      OBVIOUS
    <3>1. j - 1 \in T /\ j \in Int
      BY <1>2, <1>3
    <3>2. f <= j - 1
      BY <1>10, <3>1
    <3> QED
      BY <2>1, <3>1, <3>2
  <2>3. CASE 1 \in S
    <3>1. Whole(inbox[f + 1]) \/ StartText(inbox[f + 1]) = FinalText(inbox[1])
      <4>1. 1 < f + 1 /\ \A k \in S : k <= 1 \/ f + 1 <= k
        BY <2>1, <2>2
      <4> QED
        BY <2>1, <2>3, <4>1 DEF Follows, EditsChain, S
    <3>2. CASE Whole(inbox[f + 1])
      <4>1. Whole(inbox'[f])
        BY <2>1, <3>2
      <4> QED
        BY <4>1
    <3>3. CASE StartText(inbox[f + 1]) = FinalText(inbox[1])
      <4>1. StartText(inbox'[f]) = FinalText(inbox[1])
        BY <2>1, <3>3
      <4> QED
        BY <1>1, <1>5, <1>10, <2>3, <4>1
    <3> QED
      BY <3>1, <3>2, <3>3
  <2>4. CASE 1 \notin S
    <3>1. \A j \in S : f + 1 <= j
      BY <2>2, <2>4
    <3>2. docs[u].contents = StartText(inbox[f + 1]) \/ \E a \in S : Whole(inbox[a])
      BY <1>1, <1>10, <2>1, <3>1 DEF Follows, StartsRight, S
    <3>3. CASE \E a \in S : Whole(inbox[a])
      BY <1>4, <2>4, <3>3
    <3>4. CASE docs[u].contents = StartText(inbox[f + 1])
      <4>1. docs[u].contents = StartText(inbox'[f])
        BY <2>1, <3>4
      <4> QED
        BY <1>1, <1>6, <1>10, <2>4, <4>1
    <3> QED
      BY <3>2, <3>3, <3>4
  <2> QED
    BY <2>3, <2>4
<1>11. ASSUME isOpen'[u], synced'[u], T = {}
       PROVE  docs'[u].contents = text'[u] /\ docs'[u].version = version'[u]
  <2>1. \A j \in S : j = 1
    BY <1>3, <1>11
  <2>2. CASE 1 \in S
    <3>1. \A j \in S : j <= 1
      BY <2>1
    <3>2. FinalText(inbox[1]) = text[u] /\ inbox[1].version = version[u]
      BY <1>1, <1>11, <2>2, <3>1 DEF Follows, LastEditIsCurrent, S
    <3> QED
      BY <1>1, <1>5, <1>11, <2>2, <3>2
  <2>3. CASE 1 \notin S
    <3>1. S = {}
      BY <2>1, <2>3
    <3>2. docs[u].contents = text[u] /\ docs[u].version = version[u]
      BY <1>1, <1>11, <3>1 DEF Follows, InStep, S
    <3> QED
      BY <1>1, <1>6, <1>11, <2>3, <3>2
  <2> QED
    BY <2>2, <2>3
<1> QED
  BY <1>7, <1>8, <1>9, <1>10, <1>11
     DEF Follows, LastEditIsCurrent, EditsChain, Mended, StartsRight, InStep, T

\* The editor writes a message, or none: what that means for the text of document u.
TextWrites(u) ==
  /\ docs'[u] = docs[u]
  /\ \/ /\ inbox' = inbox /\ isOpen'[u] = isOpen[u] /\ text'[u] = text[u]
        /\ version'[u] = version[u] /\ synced'[u] = synced[u]
     \/ \E e \in ClientMsg :
          /\ inbox' = Append(inbox, e)
          /\ ~WritesTo(e, u) =>
               \/ isOpen'[u] = FALSE
               \/ /\ isOpen'[u] = isOpen[u] /\ text'[u] = text[u]
                  /\ version'[u] = version[u] /\ synced'[u] = synced[u]
          /\ WritesTo(e, u) =>
               /\ FinalText(e) = text'[u] /\ e.version = version'[u]
               /\ \/ Whole(e)
                  \/ /\ isOpen[u] /\ StartText(e) = text[u]
                     /\ synced'[u] => synced[u] /\ Exact(e)

LEMMA WritingKeepsFollows ==
  ASSUME TypeOK, NEW u \in Uris, Follows(u), TextWrites(u)
  PROVE  Follows(u)'
<1> DEFINE S == Edits(u)
           T == Edits(u)'
           n == Len(inbox) + 1
<1>1. CASE /\ inbox' = inbox /\ isOpen'[u] = isOpen[u] /\ text'[u] = text[u]
           /\ version'[u] = version[u] /\ synced'[u] = synced[u]
  <2>1. T = S
    BY <1>1 DEF Edits
  <2> QED
    BY <1>1, <2>1 DEF TextWrites, Follows, LastEditIsCurrent, EditsChain, Mended, StartsRight, InStep
<1>2. ASSUME NEW e \in ClientMsg, inbox' = Append(inbox, e)
      PROVE  /\ \A i : i \in T <=> i \in S \/ (i = n /\ WritesTo(e, u))
             /\ \A i \in S : i \in Int /\ i < n /\ inbox'[i] = inbox[i]
             /\ inbox'[n] = e /\ n \in Int
  BY <1>2, EditsGrow
<1>3. ASSUME NEW e \in ClientMsg, inbox' = Append(inbox, e), ~WritesTo(e, u),
             \/ isOpen'[u] = FALSE
             \/ /\ isOpen'[u] = isOpen[u] /\ text'[u] = text[u]
                /\ version'[u] = version[u] /\ synced'[u] = synced[u]
      PROVE  Follows(u)'
  <2>1. T = S /\ \A i \in S : inbox'[i] = inbox[i]
    BY <1>2, <1>3
  <2>2. docs'[u] = docs[u]
    BY DEF TextWrites
  <2> HIDE DEF S, T
  <2>3. \A i, j \in T : i < j /\ (\A k \in T : k <= i \/ j <= k) =>
          Whole(inbox'[j]) \/ StartText(inbox'[j]) = FinalText(inbox'[i])
    BY <2>1 DEF Follows, EditsChain, S
  <2>4. EditsChain(u)'
    BY <2>3 DEF EditsChain, T
  <2>5. CASE isOpen'[u] = FALSE
    BY <2>4, <2>5 DEF Follows, LastEditIsCurrent, Mended, StartsRight, InStep
  <2>6. CASE /\ isOpen'[u] = isOpen[u] /\ text'[u] = text[u]
             /\ version'[u] = version[u] /\ synced'[u] = synced[u]
    <3>1. LastEditIsCurrent(u)'
      <4>1. \A i \in T : isOpen'[u] /\ (\A j \in T : j <= i) =>
              FinalText(inbox'[i]) = text'[u] /\ inbox'[i].version = version'[u]
        BY <2>1, <2>6 DEF Follows, LastEditIsCurrent, S
      <4> QED
        BY <4>1 DEF LastEditIsCurrent, T
    <3>2. Mended(u)'
      <4>1. isOpen'[u] /\ synced'[u] =>
              \A j \in T : \/ Whole(inbox'[j]) \/ Exact(inbox'[j])
                           \/ \E a \in T : j < a /\ Whole(inbox'[a])
        BY <2>1, <2>6 DEF Follows, Mended, S
      <4> QED
        BY <4>1 DEF Mended, T
    <3>3. StartsRight(u)'
      <4>1. isOpen'[u] /\ synced'[u] =>
              \A f \in T : (\A j \in T : f <= j) =>
                docs'[u].contents = StartText(inbox'[f]) \/ \E a \in T : Whole(inbox'[a])
        BY <2>1, <2>2, <2>6 DEF Follows, StartsRight, S
      <4> QED
        BY <4>1 DEF StartsRight, T
    <3>4. InStep(u)'
      <4>1. isOpen'[u] /\ synced'[u] /\ T = {} =>
              docs'[u].contents = text'[u] /\ docs'[u].version = version'[u]
        BY <2>1, <2>2, <2>6 DEF Follows, InStep, S
      <4> QED
        BY <4>1 DEF InStep, T
    <3> QED
      BY <2>4, <3>1, <3>2, <3>3, <3>4 DEF Follows
  <2> QED
    BY <1>3, <2>5, <2>6
<1>4. ASSUME NEW e \in ClientMsg, inbox' = Append(inbox, e), WritesTo(e, u),
             FinalText(e) = text'[u], e.version = version'[u],
             \/ Whole(e)
             \/ isOpen[u] /\ StartText(e) = text[u] /\ (synced'[u] => synced[u] /\ Exact(e))
      PROVE  Follows(u)'
  <2> HIDE DEF S, T, n
  <2>1. /\ \A i : i \in T <=> i \in S \/ i = n
        /\ \A i \in S : i \in Int /\ i < n /\ inbox'[i] = inbox[i]
        /\ inbox'[n] = e /\ n \in Int
    <3>1. inbox' = Append(inbox, e) /\ WritesTo(e, u)
      BY <1>4
    <3>2. /\ \A i : i \in T <=> i \in S \/ (i = n /\ WritesTo(e, u))
          /\ \A i \in S : i \in Int /\ i < n /\ inbox'[i] = inbox[i]
          /\ inbox'[n] = e /\ n \in Int
      BY <1>2, <3>1
    <3> QED
      BY <3>1, <3>2, Zenon
  <2>2. docs'[u] = docs[u]
    BY DEF TextWrites
  <2>3. n \in T /\ (Whole(e) => Whole(inbox'[n])) /\ (Exact(e) => Exact(inbox'[n]))
        /\ StartText(inbox'[n]) = StartText(e) /\ FinalText(inbox'[n]) = FinalText(e)
    BY <2>1
  <2>4. \A i \in T : (\A j \in T : j <= i) => i = n
    BY <2>1, <2>3
  <2>5. LastEditIsCurrent(u)'
    <3>1. \A i \in T : isOpen'[u] /\ (\A j \in T : j <= i) =>
            FinalText(inbox'[i]) = text'[u] /\ inbox'[i].version = version'[u]
      BY <1>4, <2>1, <2>3, <2>4
    <3> QED
      BY <3>1 DEF LastEditIsCurrent, T
  <2>6. EditsChain(u)'
    <3>1. ASSUME NEW i \in T, NEW j \in T, i < j, \A k \in T : k <= i \/ j <= k
          PROVE  Whole(inbox'[j]) \/ StartText(inbox'[j]) = FinalText(inbox'[i])
      <4>1. i \in S
        <5>1. i = n => FALSE
          BY <2>1, <3>1
        <5> QED
          BY <2>1, <5>1
      <4>2. \A k \in S : k \in T
        BY <2>1
      <4>3. CASE j \in S
        <5>1. Whole(inbox[j]) \/ StartText(inbox[j]) = FinalText(inbox[i])
          BY <3>1, <4>1, <4>2, <4>3 DEF Follows, EditsChain, S
        <5> QED
          BY <2>1, <4>1, <4>3, <5>1
      <4>4. CASE j = n
        <5>1. CASE Whole(e)
          BY <2>3, <4>4, <5>1
        <5>2. CASE isOpen[u] /\ StartText(e) = text[u]
          <6>1. \A k \in S : k <= i
            BY <2>1, <3>1, <4>2, <4>4
          <6>2. FinalText(inbox[i]) = text[u]
            BY <4>1, <5>2, <6>1 DEF Follows, LastEditIsCurrent, S
          <6> QED
            BY <2>1, <2>3, <4>1, <4>4, <5>2, <6>2
        <5> QED
          BY <1>4, <5>1, <5>2
      <4> QED
        BY <2>1, <4>3, <4>4
    <3> QED
      BY <3>1 DEF EditsChain, T
  <2>7. Mended(u)'
    <3>1. ASSUME isOpen'[u], synced'[u], NEW j \in T
          PROVE  \/ Whole(inbox'[j]) \/ Exact(inbox'[j])
                 \/ \E a \in T : j < a /\ Whole(inbox'[a])
      <4>1. CASE j = n
        BY <1>4, <2>3, <3>1, <4>1
      <4>2. CASE j \in S /\ Whole(e)
        <5>1. j < n
          BY <2>1, <4>2
        <5> QED
          BY <2>3, <4>2, <5>1
      <4>3. CASE j \in S /\ ~Whole(e)
        <5>1. isOpen[u] /\ synced[u]
          BY <1>4, <3>1, <4>3
        <5>2. \/ Whole(inbox[j]) \/ Exact(inbox[j])
              \/ \E a \in S : j < a /\ Whole(inbox[a])
          BY <4>3, <5>1 DEF Follows, Mended, S
        <5>3. inbox'[j] = inbox[j] /\ \A a \in S : a \in T /\ inbox'[a] = inbox[a]
          BY <2>1, <4>3
        <5>4. ASSUME NEW a \in S, j < a, Whole(inbox[a])
              PROVE  \E b \in T : j < b /\ Whole(inbox'[b])
          <6>1. a \in T /\ Whole(inbox'[a])
            BY <5>3, <5>4
          <6> QED
            BY <5>4, <6>1
        <5> QED
          BY <5>2, <5>3, <5>4
      <4> QED
        BY <2>1, <4>1, <4>2, <4>3
    <3> QED
      BY <3>1 DEF Mended, T
  <2>8. StartsRight(u)'
    <3>1. ASSUME isOpen'[u], synced'[u], NEW f \in T, \A j \in T : f <= j
          PROVE  docs'[u].contents = StartText(inbox'[f]) \/ \E a \in T : Whole(inbox'[a])
      <4>1. CASE Whole(e)
        BY <2>3, <4>1
      <4>2. CASE ~Whole(e)
        <5>1. isOpen[u] /\ synced[u] /\ StartText(e) = text[u]
          BY <1>4, <3>1, <4>2
        <5>2. CASE f \in S
          <6>1. \A j \in S : f <= j
            BY <2>1, <3>1
          <6>2. docs[u].contents = StartText(inbox[f]) \/ \E a \in S : Whole(inbox[a])
            BY <5>1, <5>2, <6>1 DEF Follows, StartsRight, S
          <6>3. ASSUME NEW a \in S, Whole(inbox[a]) PROVE \E b \in T : Whole(inbox'[b])
            <7>1. a \in T /\ inbox'[a] = inbox[a]
              BY <2>1
            <7>2. Whole(inbox'[a])
              BY <6>3, <7>1
            <7> QED
              BY <7>1, <7>2
          <6>4. inbox'[f] = inbox[f]
            BY <2>1, <5>2
          <6> QED
            BY <2>2, <6>2, <6>3, <6>4
        <5>3. CASE f = n
          <6>1. S = {}
            BY <2>1, <3>1, <5>3
          <6>2. docs[u].contents = text[u]
            BY <5>1, <6>1 DEF Follows, InStep, S
          <6> QED
            BY <2>2, <2>3, <5>1, <5>3, <6>2
        <5> QED
          BY <2>1, <5>2, <5>3
      <4> QED
        BY <4>1, <4>2
    <3> QED
      BY <3>1 DEF StartsRight, T
  <2>9. InStep(u)'
    BY <2>3 DEF InStep, T
  <2> QED
    BY <2>5, <2>6, <2>7, <2>8, <2>9 DEF Follows
<1> QED
  BY <1>1, <1>3, <1>4 DEF TextWrites

-----------------------------------------------------------------------------
(* The actions *)

LEMMA LintKeepsText ==
  ASSUME TypeOK, NEW ds \in [Uris -> Doc \cup {NoDoc}], NEW u \in Uris, LintAndPublish(ds, u)
  PROVE  docs'[u].contents = ds[u].contents /\ docs'[u].version = ds[u].version
<1>1. CASE ds[u] = NoDoc
  BY <1>1 DEF LintAndPublish
<1>2. CASE ds[u] # NoDoc
  <2>1. ds[u] \in Doc
    BY <1>2
  <2>2. PICK lint : docs' = [ds EXCEPT ![u].latest_diagnostics = lint, ![u].linted = TRUE]
    BY <1>2 DEF LintAndPublish
  <2> QED
    BY <2>1, <2>2 DEF Doc
<1> QED
  BY <1>1, <1>2

LEMMA ServerReadsText ==
  ASSUME TypeOK, ServerNext, ~LeaveLoop, NEW u \in Uris
  PROVE  TextReads(u)
<1> DEFINE m == Head(inbox)
<1>1. /\ inbox # <<>> /\ inbox' = Tail(inbox)
      /\ isOpen' = isOpen /\ text' = text /\ version' = version /\ synced' = synced
      /\ ~Concerns(m, u) => docs'[u] = docs[u]
  BY ServerReads DEF Reads, ServerNext, editorVars
<1>2. docs \in [Uris -> Doc \cup {NoDoc}]
  BY DEF TypeOK, ServerTypeOK
<1>3. m \in ClientMsg
  BY <1>1, TailElements DEF TypeOK, ServerTypeOK
<1>4. /\ m.method = "didOpen" => OnDidOpen
      /\ m.method = "didChange" => OnDidChange
      /\ m.method = "didSave" => OnDidSave
  BY DEF ServerNext, ServerStep, OnInitialize, OnShutdown, OnUnknownRequest, OnCodeAction, OnHover,
         OnIgnoredNotification, OnDidOpen, OnDidChange, OnDidSave, OnDidClose, OnExit, Take
<1>5. CASE ~WritesTo(m, u) /\ ~(m.method = "didClose" /\ m.uri = u)
  <2>1. docs'[u].contents = docs[u].contents /\ docs'[u].version = docs[u].version
    <3>1. CASE ~Concerns(m, u)
      BY <1>1, <3>1
    <3>2. CASE Concerns(m, u)
      <4>1. m.method = "didSave" /\ m.uri = u
        BY <1>5, <3>2 DEF Concerns, WritesTo
      <4>2. LintAndPublish(docs, u)
        BY <1>4, <4>1 DEF OnDidSave
      <4> QED
        BY <1>2, <4>2, LintKeepsText
    <3> QED
      BY <3>1, <3>2
  <2> QED
    BY <1>1, <1>5, <2>1 DEF TextReads
<1>6. CASE m.method = "didOpen" /\ m.uri = u
  <2> DEFINE opened == [contents |-> m.text, version |-> m.version,
                        latest_diagnostics |-> NoDiags, linted |-> FALSE]
             ds == [docs EXCEPT ![u] = opened]
  <2>1. LintAndPublish(ds, u)
    BY <1>4, <1>6 DEF OnDidOpen
  <2>2. opened \in Doc /\ opened.contents = m.text /\ opened.version = m.version
    BY <1>3, <1>6, ClientMsgFields DEF Doc, Text, Diags
  <2> HIDE DEF opened
  <2>3. ds \in [Uris -> Doc \cup {NoDoc}] /\ ds[u] = opened
    BY <1>2, <2>2
  <2> HIDE DEF ds
  <2>4. docs'[u].contents = m.text /\ docs'[u].version = m.version
    BY <2>1, <2>2, <2>3, LintKeepsText
  <2>5. FinalText(m) = m.text /\ WritesTo(m, u)
    BY <1>6 DEF FinalText, WritesTo
  <2> QED
    BY <1>1, <2>4, <2>5 DEF TextReads
<1>7. CASE m.method = "didChange" /\ m.uri = u
  <2>1. m.version \in Nat /\ m.changes \in Seq(Change)
    BY <1>3, <1>7, ClientMsgFields
  <2> DEFINE cs == m.changes
  <2>2. ASSUME docs[u] # NoDoc, Whole(m) \/ (Exact(m) /\ docs[u].contents = StartText(m))
        PROVE  docs'[u].contents = FinalText(m) /\ docs'[u].version = m.version
    <3>1. docs[u] \in Doc
      BY <1>2, <2>2
    <3>2. /\ Len(cs) >= 1 /\ Fitting(docs[u].contents, cs[1])
          /\ \A k \in 1..Len(cs) - 1 : cs[k + 1].fit = "exact" /\ cs[k + 1].from = cs[k].to
      <4>1. CASE Whole(m)
        BY <1>7, <4>1 DEF Whole, Fitting
      <4>2. CASE Exact(m) /\ docs[u].contents = StartText(m)
        <5>1. /\ Len(cs) \in Nat /\ Len(cs) >= 1
              /\ \A k \in 1..Len(cs) : cs[k].fit = "exact"
              /\ \A k \in 1..Len(cs) - 1 : cs[k + 1].from = cs[k].to
          BY <2>1, <4>2 DEF Exact
        <5> HIDE DEF cs
        <5>2. 1 \in 1..Len(cs) /\ \A k \in 1..Len(cs) - 1 : k + 1 \in 1..Len(cs)
          BY <5>1
        <5>3. Fitting(docs[u].contents, cs[1])
          BY <4>2, <5>1, <5>2 DEF Fitting, StartText, cs
        <5> QED
          BY <5>1, <5>2, <5>3
      <4> QED
        BY <2>2, <4>1, <4>2
    <3>3. PICK r \in ApplyChanges(docs[u], m.version, cs) :
            \/ docs' = [docs EXCEPT ![u] = r.doc] /\ UNCHANGED outbox
            \/ LintAndPublish([docs EXCEPT ![u] = r.doc], u)
      BY <1>4, <1>7, <2>2 DEF OnDidChange
    <3> DEFINE ds == [docs EXCEPT ![u] = r.doc]
    <3>4. r.doc.contents = cs[Len(cs)].to /\ r.doc.version = m.version
      <4> HIDE DEF cs
      <4> QED
        BY <2>1, <3>1, <3>2, ApplyExact DEF cs
    <3>5. r.doc \in Doc
      BY <2>1, <3>1, ApplyChangesType
    <3>6. ds \in [Uris -> Doc \cup {NoDoc}] /\ ds[u] = r.doc
      BY <1>2, <3>5
    <3>7. docs' = ds \/ LintAndPublish(ds, u)
      BY <3>3
    <3> HIDE DEF ds
    <3>8. docs'[u].contents = r.doc.contents /\ docs'[u].version = r.doc.version
      BY <3>6, <3>7, LintKeepsText
    <3>9. FinalText(m) = cs[Len(cs)].to
      BY <1>7 DEF FinalText
    <3> QED
      BY <3>4, <3>8, <3>9
  <2> QED
    BY <1>1, <1>7, <2>2 DEF TextReads, WritesTo
<1>8. CASE m.method = "didClose" /\ m.uri = u
  BY <1>1, <1>8 DEF TextReads, WritesTo
<1> QED
  BY <1>5, <1>6, <1>7, <1>8 DEF WritesTo

\* A batch of ranges, each made for the text the one before it leaves.
LEMMA BatchText ==
  ASSUME TypeOK, NEW u \in Uris, NEW n \in 1..MaxBatch, NEW fits \in [1..n -> Fits \ {"full"}],
         NEW cs \in Seq(Change), cs = RangeBatch(u, fits)
  PROVE  /\ Len(cs) = n /\ n \in Nat /\ n >= 1
         /\ cs[n].to = text[u] + n /\ cs[1].from = text[u] /\ cs[1].fit # "full"
         /\ \A k \in 1..n - 1 : cs[k + 1].from = cs[k].to
<1>1. text[u] \in Nat /\ n \in Nat /\ n >= 1 /\ 1 \in 1..n /\ n \in 1..n
  BY BoundsAssumption DEF TypeOK
<1>2. cs = [i \in 1..n |-> [fit |-> fits[i], from |-> text[u] + i - 1, to |-> text[u] + i]]
  BY Zenon DEF RangeBatch
<1>3. \A i \in 1..n : cs[i].fit = fits[i] /\ cs[i].from = text[u] + i - 1 /\ cs[i].to = text[u] + i
  BY <1>2
<1>4. cs \in Seq(Change) /\ Len(cs) = n
  <2>1. DOMAIN cs = 1..n
    BY <1>2
  <2> QED
    BY <1>1, <2>1
<1>5. ASSUME NEW k \in 1..n - 1 PROVE cs[k + 1].from = cs[k].to
  <2>1. k \in 1..n /\ k + 1 \in 1..n /\ k \in Nat
    BY <1>1
  <2>2. cs[k + 1].from = text[u] + (k + 1) - 1 /\ cs[k].to = text[u] + k
    BY <1>3, <2>1
  <2> QED
    BY <1>1, <2>1, <2>2
<1> QED
  BY <1>1, <1>3, <1>4, <1>5

LEMMA EditWritesText ==
  ASSUME TypeOK, NEW v \in Uris, EditDoc(v), NEW u \in Uris
  PROVE  TextWrites(u)
<1>1. /\ isOpen \in [Uris -> BOOLEAN] /\ text \in [Uris -> Nat] /\ version \in [Uris -> Nat]
      /\ synced \in [Uris -> BOOLEAN]
  BY DEF TypeOK
<1>2. PICK batch :
        /\ batch \in Batches(v) \/ batch = WholeText(v)
        /\ Send([method |-> "didChange", uri |-> v, version |-> version[v] + 1, changes |-> batch])
        /\ text' = [text EXCEPT ![v] = @ + Len(batch)]
        /\ synced' = [synced EXCEPT ![v] =
             batch[1].fit = "full" \/ (@ /\ \A i \in DOMAIN batch : batch[i].fit = "exact")]
  BY Zenon DEF EditDoc
<1> DEFINE e == [method |-> "didChange", uri |-> v, version |-> version[v] + 1, changes |-> batch]
<1>3. batch \in Seq(Change) /\ Len(batch) \in Nat
  BY <1>2, BatchType, Zenon
<1>4. e \in ClientMsg
  <2>1. version[v] + 1 \in Nat
    BY <1>1
  <2> QED
    BY <1>3, <2>1, Zenon DEF ClientMsg
<1>5. inbox' = Append(inbox, e)
  BY <1>2 DEF Send
<1>6. e.method = "didChange" /\ e.uri = v /\ e.version = version[v] + 1 /\ e.changes = batch
  OBVIOUS
<1> HIDE DEF e
<1>7. isOpen' = isOpen /\ isOpen[v] /\ docs' = docs /\ version' = [version EXCEPT ![v] = @ + 1]
  BY DEF EditDoc, serverVars
<1>8. CASE u # v
  BY <1>1, <1>2, <1>4, <1>5, <1>6, <1>7, <1>8 DEF TextWrites, WritesTo
<1>9. CASE u = v
  <2>1. version'[u] = version[u] + 1 /\ text'[u] = text[u] + Len(batch) /\ isOpen[u]
    BY <1>1, <1>2, <1>7, <1>9
  <2>2. CASE batch = WholeText(v)
    <3>1. Len(batch) = 1 /\ batch[1].fit = "full" /\ batch[1].to = text[u] + 1
      BY <1>9, <2>2 DEF WholeText
    <3>2. Whole(e) /\ FinalText(e) = text'[u] /\ e.version = version'[u] /\ WritesTo(e, u)
      BY <1>6, <1>9, <2>1, <3>1 DEF Whole, FinalText, WritesTo
    <3> QED
      BY <1>4, <1>5, <1>7, <3>2 DEF TextWrites
  <2>3. CASE batch \in Batches(v)
    <3>0. PICK n \in 1..MaxBatch : \E fits \in [1..n -> Fits \ {"full"}] : batch = RangeBatch(u, fits)
      BY <1>9, <2>3, Zenon DEF Batches
    <3>1. PICK fits \in [1..n -> Fits \ {"full"}] : batch = RangeBatch(u, fits)
      BY <3>0
    <3>2. /\ Len(batch) = n /\ n \in Nat /\ n >= 1
          /\ batch[n].to = text[u] + n /\ batch[1].from = text[u] /\ batch[1].fit # "full"
          /\ \A k \in 1..n - 1 : batch[k + 1].from = batch[k].to
      <4>1. batch \in Seq(Change) /\ batch = RangeBatch(u, fits)
        BY <1>3, <3>1
      <4> QED
        BY <4>1, BatchText
    <3>3. synced'[u] => synced[u] /\ \A i \in 1..n : batch[i].fit = "exact"
      <4>1. DOMAIN batch = 1..n
        BY <1>3, <3>2
      <4>2. synced'[u] = (batch[1].fit = "full" \/ (synced[u] /\ \A i \in DOMAIN batch : batch[i].fit = "exact"))
        BY <1>1, <1>2, <1>9
      <4> QED
        BY <3>2, <4>1, <4>2
    <3>4. FinalText(e) = text'[u] /\ StartText(e) = text[u] /\ e.version = version'[u] /\ WritesTo(e, u)
      BY <1>6, <1>9, <2>1, <3>2 DEF FinalText, StartText, WritesTo
    <3>5. synced'[u] => synced[u] /\ Exact(e)
      BY <1>6, <3>2, <3>3 DEF Exact
    <3> QED
      BY <1>4, <1>5, <1>7, <2>1, <3>4, <3>5 DEF TextWrites
  <2> QED
    BY <1>2, <2>2, <2>3
<1> QED
  BY <1>8, <1>9

LEMMA UserWritesText ==
  ASSUME TypeOK, UserActs, NEW u \in Uris
  PROVE  TextWrites(u)
<1>1. /\ isOpen \in [Uris -> BOOLEAN] /\ text \in [Uris -> Nat] /\ version \in [Uris -> Nat]
      /\ synced \in [Uris -> BOOLEAN]
  BY DEF TypeOK
<1>2. NextId \in Nat
  BY DEF NextId, Bounds, TypeOK
\* A message with no text.
<1>3. ASSUME NEW e \in ClientMsg, e.method \notin {"didOpen", "didChange"},
             inbox' = Append(inbox, e), docs' = docs,
             UNCHANGED <<isOpen, text, version, synced>>
      PROVE  TextWrites(u)
  BY <1>3 DEF TextWrites, WritesTo
<1>4. CASE StartSession
  <2>1. PICK o \in OptionSets : inbox' = Append(inbox, [method |-> "initialize", id |-> NextId, options |-> o])
    BY <1>4 DEF StartSession, Ask, Send
  <2>2. [method |-> "initialize", id |-> NextId, options |-> o] \in ClientMsg
    BY <1>2 DEF ClientMsg
  <2> QED
    BY <1>3, <1>4, <2>1, <2>2 DEF StartSession, serverVars
<1>5. CASE AskUnknown
  <2>1. [method |-> "unknown", id |-> NextId] \in ClientMsg
    BY <1>2 DEF ClientMsg
  <2> QED
    BY <1>3, <1>5, <2>1 DEF AskUnknown, Ask, Send, serverVars
<1>6. CASE AskShutdown
  <2>1. [method |-> "shutdown", id |-> NextId] \in ClientMsg
    BY <1>2 DEF ClientMsg
  <2> QED
    BY <1>3, <1>6, <2>1 DEF AskShutdown, Ask, Send, serverVars
<1>7. CASE EditToml
  <2>1. [method |-> "didChangeConfiguration"] \in ClientMsg
    BY DEF ClientMsg
  <2> QED
    BY <1>3, <1>7, <2>1 DEF EditToml, Send, serverVars
<1>8. CASE SendExit
  <2>1. [method |-> "exit"] \in ClientMsg
    BY DEF ClientMsg
  <2> QED
    BY <1>3, <1>8, <2>1 DEF SendExit, Send, serverVars
<1>9. CASE Vanish
  BY <1>9 DEF Vanish, TextWrites, serverVars
<1>10. ASSUME NEW v \in Uris, OpenDoc(v)
       PROVE  TextWrites(u)
  <2> DEFINE e == [method |-> "didOpen", uri |-> v, version |-> 1, text |-> text[v]]
  <2>1. e \in ClientMsg /\ e.method = "didOpen" /\ e.uri = v /\ e.version = 1 /\ e.text = text[v]
    BY <1>1 DEF ClientMsg
  <2>2. /\ inbox' = Append(inbox, e) /\ docs' = docs /\ text' = text
        /\ isOpen' = [isOpen EXCEPT ![v] = TRUE] /\ version' = [version EXCEPT ![v] = 1]
        /\ synced' = [synced EXCEPT ![v] = TRUE]
    BY <1>10 DEF OpenDoc, Send, serverVars
  <2> HIDE DEF e
  <2>3. CASE u # v
    BY <1>1, <2>1, <2>2, <2>3 DEF TextWrites, WritesTo
  <2>4. CASE u = v
    <3>1. Whole(e) /\ WritesTo(e, u) /\ FinalText(e) = text'[u] /\ e.version = version'[u]
      BY <1>1, <2>1, <2>2, <2>4 DEF Whole, WritesTo, FinalText
    <3> QED
      BY <2>1, <2>2, <3>1 DEF TextWrites
  <2> QED
    BY <2>3, <2>4
<1>11. ASSUME NEW v \in Uris, SaveDoc(v)
       PROVE  TextWrites(u)
  <2>1. [method |-> "didSave", uri |-> v] \in ClientMsg
    BY DEF ClientMsg
  <2> QED
    BY <1>3, <1>11, <2>1 DEF SaveDoc, Send, serverVars
<1>12. ASSUME NEW v \in Uris, CloseDoc(v)
       PROVE  TextWrites(u)
  <2> DEFINE e == [method |-> "didClose", uri |-> v]
  <2>1. e \in ClientMsg /\ ~WritesTo(e, u)
    BY DEF ClientMsg, WritesTo
  <2>2. /\ inbox' = Append(inbox, e) /\ docs' = docs /\ UNCHANGED <<text, version, synced>>
        /\ isOpen' = [isOpen EXCEPT ![v] = FALSE]
    BY <1>12 DEF CloseDoc, Send, serverVars
  <2> HIDE DEF e
  <2>3. isOpen'[u] = FALSE \/ isOpen'[u] = isOpen[u]
    BY <1>1, <2>2
  <2> QED
    BY <2>1, <2>2, <2>3 DEF TextWrites
<1>13. ASSUME NEW v \in Uris, AskFixes(v)
       PROVE  TextWrites(u)
  <2>1. PICK method \in {"codeAction", "hover"} :
          inbox' = Append(inbox, [method |-> method, id |-> NextId, uri |-> v])
    BY <1>13 DEF AskFixes, Ask, Send
  <2>2. [method |-> method, id |-> NextId, uri |-> v] \in ClientMsg
    BY <1>2 DEF ClientMsg
  <2> QED
    BY <1>3, <1>13, <2>1, <2>2 DEF AskFixes, serverVars
<1>14. ASSUME NEW v \in Uris, EditDoc(v)
       PROVE  TextWrites(u)
  BY <1>14, EditWritesText
<1> QED
  BY <1>4, <1>5, <1>6, <1>7, <1>8, <1>9, <1>10, <1>11, <1>12, <1>13, <1>14 DEF UserActs

LEMMA FollowsInit ==
  ASSUME Init, NEW u \in Uris
  PROVE  Follows(u)
<1>1. Edits(u) = {} /\ ~isOpen[u]
  BY DEF Init, ServerInit, Edits
<1> QED
  BY <1>1 DEF Follows, LastEditIsCurrent, EditsChain, Mended, StartsRight, InStep

LEMMA FollowsStep ==
  ASSUME TypeOK, NotesFitRegistry, OpenSetAgrees, [Next]_vars, NEW u \in Uris, Follows(u)
  PROVE  Follows(u)'
<1>1. Agrees(u)
  BY InvariantByDocument
<1>2. CASE UNCHANGED <<docs, inbox, isOpen, text, version, synced>>
  BY <1>2, WritingKeepsFollows DEF TextWrites
<1>3. CASE UNCHANGED vars
  BY <1>2, <1>3 DEF vars, serverVars, wireVars, editorVars
<1>4. CASE ServerNext /\ LeaveLoop
  BY <1>2, <1>4 DEF ServerNext, LeaveLoop, wireVars, editorVars
<1>5. CASE ServerNext /\ ~LeaveLoop
  BY <1>1, <1>5, ServerReadsText, ReadingKeepsFollows
<1>6. CASE ReadReply
  <2> DEFINE e == [method |-> "initialized"]
  <2>1. e \in ClientMsg /\ ~WritesTo(e, u)
    BY DEF ClientMsg, WritesTo
  <2>2. inbox' = inbox \/ inbox' = Append(inbox, e)
    BY <1>6 DEF ReadReply, Send
  <2>3. docs' = docs /\ UNCHANGED <<isOpen, text, version, synced>>
    BY <1>6 DEF ReadReply, serverVars
  <2> HIDE DEF e
  <2>4. TextWrites(u)
    BY <2>1, <2>2, <2>3 DEF TextWrites
  <2> QED
    BY <2>4, WritingKeepsFollows
<1>7. CASE ReadPublish
  BY <1>2, <1>7 DEF ReadPublish, serverVars
<1>8. CASE UserActs
  BY <1>8, UserWritesText, WritingKeepsFollows
<1> QED
  BY <1>3, <1>4, <1>5, <1>6, <1>7, <1>8 DEF Next, EditorReads

\* apply_changes over the batches the editor sends: with nothing about an open document in
\* the pipe, and every range since its last whole text exact, the registry has the editor's
\* text under the editor's version.
THEOREM RegistryKeepsUp == Spec => []RegistryFollows
<1> DEFINE Inv == TypeOK /\ NotesFitRegistry /\ OpenSetAgrees /\ \A u \in Uris : Follows(u)
<1>1. Init => Inv
  BY TypeInit, InvariantInit, FollowsInit
<1>2. Inv /\ [Next]_vars => Inv'
  <2> SUFFICES ASSUME Inv, [Next]_vars PROVE Inv'
    OBVIOUS
  <2>1. TypeOK' /\ NotesFitRegistry' /\ OpenSetAgrees'
    BY TypeStep, InvariantStep
  <2>2. ASSUME NEW u \in Uris PROVE Follows(u)'
    BY FollowsStep
  <2> QED
    BY <2>1, <2>2
<1>3. Inv => RegistryFollows
  <2> SUFFICES ASSUME Inv, NEW u \in Uris, AboutIn(u) = {}, isOpen[u], synced[u]
               PROVE  docs[u].contents = text[u] /\ docs[u].version = version[u]
    BY DEF RegistryFollows
  <2>1. Edits(u) = {}
    BY DEF Edits, WritesTo, AboutIn, NotesOn, Concerns
  <2> QED
    BY <2>1 DEF Follows, InStep
<1> QED
  BY <1>1, <1>2, <1>3, PTL DEF Spec

-----------------------------------------------------------------------------
(* The invariants *)

\* What the editor shows of a document once it has read all there is in the pipe.
LastOf(S) == CHOOSE i \in S : \A j \in S : j <= i
Seen(u) ==
  IF AboutOut(u) = {} THEN shown[u]
  ELSE [version |-> outbox[LastOf(AboutOut(u))].version, diags |-> outbox[LastOf(AboutOut(u))].diags]

\* The versions of a document rise from the registry through the pipe to the editor.
VersionsRise(u) ==
  \A i, j \in Edits(u) :
    i < j /\ (\A k \in Edits(u) : k <= i \/ j <= k) /\ inbox[j].method = "didChange"
      => inbox[i].version < inbox[j].version
FirstIsNewer(u) ==
  \A f \in Edits(u) :
    (\A j \in Edits(u) : f <= j) /\ inbox[f].method = "didChange" /\ docs[u] # NoDoc
      => docs[u].version < inbox[f].version
NoneAhead(u) ==
  isOpen[u] /\ Edits(u) = {} => docs[u] # NoDoc /\ docs[u].version <= version[u]
Ordered(u) == VersionsRise(u) /\ FirstIsNewer(u) /\ NoneAhead(u)

\* No publish is ahead of the registry, and one that is level with it is of its text,
\* unless a whole text is on its way.
NotAhead(u) ==
  IF docs[u] = NoDoc THEN Seen(u).version = 0 ELSE Seen(u).version <= docs[u].version
LevelIsRight(u) ==
  isOpen[u] /\ synced[u] /\ docs[u] # NoDoc /\ Seen(u).version = docs[u].version =>
    \/ Seen(u).diags.text = docs[u].contents
    \/ \E a \in Edits(u) : Whole(inbox[a])
Named(u) == NotAhead(u) /\ LevelIsRight(u)

\* A settled document is fresh, or the open or save that makes it so is its last note.
LastNoteRefreshes(u) ==
  isOpen[u] /\ settled[u] =>
    \A i \in AboutIn(u) : (\A j \in AboutIn(u) : j <= i) => inbox[i].method \in {"didOpen", "didSave"}
FreshOnceRead(u) ==
  isOpen[u] /\ settled[u] /\ synced[u] /\ AboutIn(u) = {} =>
    Seen(u) = [version |-> version[u], diags |-> LintOf(text[u])]
Settles(u) == LastNoteRefreshes(u) /\ FreshOnceRead(u)

\* The options are fixed before the first document is opened.
Hellos(q) == {i \in DOMAIN q : q[i].method = "initialize"}
HelloFirst ==
  /\ phase = "start" => inbox = <<>> /\ outbox = <<>>
  /\ phase = "initializing" => Hellos(inbox) = {} \/ (Len(inbox) = 1 /\ outbox = <<>>)
  /\ phase \in {"ready", "closing"} => Hellos(inbox) = {}
  /\ phase \in {"start", "initializing"} \/ Hellos(inbox) # {} => \A u \in Uris : ~isOpen[u]

-----------------------------------------------------------------------------
(* What the editor will have seen *)

LEMMA LargestNumber ==
  ASSUME NEW n \in Nat, NEW S, S \subseteq 1..n, S # {}
  PROVE  \E x \in S : \A y \in S : y <= x
<1> DEFINE T == {n - i : i \in S}
<1>1. T \subseteq Nat /\ T # {}
  <2>1. \A i \in S : n - i \in Nat /\ n - i \in T
    OBVIOUS
  <2> QED
    BY <2>1
<1>2. PICK t \in T : \A y \in T : t <= y
  <2> HIDE DEF T
  <2> QED
    BY <1>1, SmallestNumber
<1>3. PICK x \in S : t = n - x
  BY <1>2
<1>4. ASSUME NEW y \in S PROVE y <= x
  <2>1. n - x <= n - y
    BY <1>2, <1>3
  <2> QED
    BY <2>1
<1> QED
  BY <1>4

LEMMA LastIs ==
  ASSUME NEW S, NEW x \in S, S \subseteq Int, \A y \in S : y <= x
  PROVE  LastOf(S) = x
<1>1. LastOf(S) \in S /\ \A y \in S : y <= LastOf(S)
  BY Zenon DEF LastOf
<1> DEFINE y == LastOf(S)
<1>2. y \in Int /\ x \in Int /\ y <= x /\ x <= y
  BY <1>1
<1> HIDE DEF y
<1>3. y = x
  BY <1>2
<1> QED
  BY <1>3 DEF y

LEMMA OutPositions ==
  ASSUME TypeOK, NEW u
  PROVE  /\ outbox \in Seq(ServerMsg) /\ DOMAIN outbox = 1..Len(outbox) /\ Len(outbox) \in Nat
         /\ AboutOut(u) \subseteq 1..Len(outbox) /\ AboutOut(u) \subseteq Int
<1>1. outbox \in Seq(ServerMsg)
  BY DEF TypeOK, ServerTypeOK
<1>2. AboutOut(u) \subseteq 1..Len(outbox) /\ Len(outbox) \in Nat
  BY Positions
<1> QED
  BY <1>1, <1>2

LEMMA SeenLast ==
  ASSUME TypeOK, NEW u, NEW x \in AboutOut(u), \A y \in AboutOut(u) : y <= x
  PROVE  Seen(u) = [version |-> outbox[x].version, diags |-> outbox[x].diags]
<1>1. LastOf(AboutOut(u)) = x
  BY OutPositions, LastIs
<1> QED
  BY <1>1 DEF Seen

LEMMA SeenType ==
  ASSUME TypeOK, NEW u \in Uris
  PROVE  Seen(u) \in [version : Nat, diags : Diags]
<1>1. CASE AboutOut(u) = {}
  BY <1>1 DEF Seen, TypeOK
<1>2. CASE AboutOut(u) # {}
  <2>1. PICK x \in AboutOut(u) : \A y \in AboutOut(u) : y <= x
    BY <1>2, OutPositions, LargestNumber
  <2>2. outbox[x] \in ServerMsg /\ outbox[x].type = "publish"
    BY OutPositions DEF AboutOut, PublishesOn
  <2>3. outbox[x].version \in Nat /\ outbox[x].diags \in Diags
    BY <2>2, ServerMsgFields
  <2> QED
    BY <2>1, <2>3, SeenLast
<1> QED
  BY <1>1, <1>2

\* A publish about the document is the last thing the editor will see of it.
LEMMA SeenPublish ==
  ASSUME TypeOK, NEW u, NEW e \in ServerMsg, outbox' = Append(outbox, e),
         e.type = "publish", e.uri = u
  PROVE  Seen(u)' = [version |-> e.version, diags |-> e.diags]
<1> DEFINE n == Len(outbox) + 1
           T == AboutOut(u)'
<1>1. \A i : i \in T <=> i \in AboutOut(u) \/ i = n
  BY OutPositions, AppendPublishes DEF AboutOut
<1>2. outbox'[n] = e /\ n \in Int
  BY OutPositions, AppendElements
<1>3. \A y \in T : y <= n
  BY <1>1, OutPositions
<1>4. T \subseteq Int /\ n \in T
  BY <1>1, <1>2, OutPositions
<1> HIDE DEF T, n
<1>5. LastOf(T) = n
  BY <1>3, <1>4, LastIs
<1>6. Seen(u)' = IF T = {} THEN shown'[u]
                 ELSE [version |-> outbox'[LastOf(T)].version, diags |-> outbox'[LastOf(T)].diags]
  BY DEF Seen, T, LastOf
<1> QED
  BY <1>2, <1>4, <1>5, <1>6

LEMMA SeenStays ==
  ASSUME TypeOK, NEW u, Silent(u), shown'[u] = shown[u]
  PROVE  Seen(u)' = Seen(u)
<1> DEFINE S == AboutOut(u)
           T == AboutOut(u)'
<1>1. Seen(u)' = IF T = {} THEN shown'[u]
                 ELSE [version |-> outbox'[LastOf(T)].version, diags |-> outbox'[LastOf(T)].diags]
  BY DEF Seen, LastOf
<1>2. T = S /\ \A i \in S : outbox'[i] = outbox[i]
  <2>1. CASE outbox' = outbox
    BY <2>1 DEF AboutOut
  <2>2. ASSUME NEW e \in ServerMsg, outbox' = Append(outbox, e), ~(e.type = "publish" /\ e.uri = u)
        PROVE  T = S /\ \A i \in S : outbox'[i] = outbox[i]
    <3>1. \A i : i \in T <=> i \in S
      BY <2>2, OutPositions, AppendPublishes DEF AboutOut
    <3>2. \A i \in S : outbox'[i] = outbox[i]
      BY <2>2, OutPositions, AppendElements
    <3> QED
      BY <3>1, <3>2
  <2> QED
    BY <2>1, <2>2 DEF Silent
<1> HIDE DEF S, T
<1>3. CASE S = {}
  BY <1>1, <1>2, <1>3 DEF Seen, S
<1>4. CASE S # {}
  <2>1. PICK x \in S : \A y \in S : y <= x
    BY <1>4, OutPositions, LargestNumber DEF S
  <2>2. LastOf(S) = x
    BY <2>1, OutPositions, LastIs DEF S
  <2> QED
    BY <1>1, <1>2, <1>4, <2>2 DEF Seen, S
<1> QED
  BY <1>3, <1>4

\* Displaying a publish, or reading a reply, changes nothing of what it will have seen.
LEMMA SeenRead ==
  ASSUME TypeOK, NEW u \in Uris, outbox # <<>>, outbox' = Tail(outbox),
         IF Head(outbox).type = "publish" /\ Head(outbox).uri = u
           THEN shown'[u] = [version |-> Head(outbox).version, diags |-> Head(outbox).diags]
           ELSE shown'[u] = shown[u]
  PROVE  Seen(u)' = Seen(u)
<1> DEFINE S == AboutOut(u)
           T == AboutOut(u)'
<1>1. Seen(u)' = IF T = {} THEN shown'[u]
                 ELSE [version |-> outbox'[LastOf(T)].version, diags |-> outbox'[LastOf(T)].diags]
  BY DEF Seen, LastOf
<1>2. \A i \in Int : i \in T <=> i >= 1 /\ i + 1 \in S
  BY OutPositions, TailPublishes DEF AboutOut
<1>3. /\ \A i \in 1..(Len(outbox) - 1) : outbox'[i] = outbox[i + 1]
      /\ Head(outbox) = outbox[1] /\ Len(outbox) \in Nat \ {0}
      /\ outbox' \in Seq(ServerMsg) /\ Len(outbox') = Len(outbox) - 1
  BY OutPositions, TailElements
<1>4. S \subseteq 1..Len(outbox) /\ T \subseteq 1..(Len(outbox) - 1) /\ T \subseteq Int
  <2>1. DOMAIN outbox' = 1..(Len(outbox) - 1)
    BY <1>3
  <2> QED
    BY <2>1, OutPositions DEF AboutOut, PublishesOn
<1>5. 1 \in S <=> Head(outbox).type = "publish" /\ Head(outbox).uri = u
  BY <1>3, OutPositions DEF AboutOut, PublishesOn
<1> HIDE DEF S, T
<1>6. ASSUME NEW x \in S, \A y \in S : y <= x, x # 1
      PROVE  Seen(u)' = Seen(u)
  <2>1. x - 1 \in Int /\ x - 1 >= 1 /\ (x - 1) + 1 = x /\ x - 1 \in 1..(Len(outbox) - 1)
    BY <1>3, <1>4, <1>6
  <2>2. x - 1 \in T
    BY <1>2, <1>6, <2>1
  <2>3. ASSUME NEW y \in T PROVE y <= x - 1
    <3>1. y \in Int /\ y + 1 \in S
      BY <1>2, <1>4
    <3>2. y + 1 <= x
      BY <1>6, <3>1
    <3> QED
      BY <2>1, <3>1, <3>2
  <2>4. LastOf(T) = x - 1
    BY <1>4, <2>2, <2>3, LastIs
  <2>5. outbox'[x - 1] = outbox[x]
    BY <1>3, <2>1
  <2>6. Seen(u) = [version |-> outbox[x].version, diags |-> outbox[x].diags]
    BY <1>6, SeenLast DEF S
  <2> QED
    BY <1>1, <2>2, <2>4, <2>5, <2>6
<1>7. ASSUME \A x \in S : x = 1 PROVE T = {}
  <2> SUFFICES ASSUME NEW y \in T PROVE FALSE
    OBVIOUS
  <2>1. y \in Int /\ y >= 1 /\ y + 1 \in S
    BY <1>2, <1>4
  <2>2. y + 1 = 1
    BY <1>7, <2>1
  <2> QED
    BY <2>1, <2>2
<1>8. CASE S = {}
  BY <1>1, <1>5, <1>7, <1>8 DEF Seen, S
<1>9. ASSUME 1 \in S, \A y \in S : y <= 1 PROVE Seen(u)' = Seen(u)
  <2>1. \A y \in S : y = 1
    BY <1>4, <1>9
  <2>2. Seen(u) = [version |-> outbox[1].version, diags |-> outbox[1].diags]
    BY <1>9, SeenLast DEF S
  <2> QED
    BY <1>1, <1>3, <1>5, <1>7, <1>9, <2>1, <2>2
<1>10. CASE S # {}
  <2>1. PICK x \in S : \A y \in S : y <= x
    BY <1>10, OutPositions, LargestNumber DEF S
  <2> QED
    BY <1>6, <1>9, <2>1
<1> QED
  BY <1>8, <1>10

-----------------------------------------------------------------------------
(* The server reads a message *)

Published(u) == Seen(u)' = [version |-> docs'[u].version, diags |-> LintOf(docs'[u].contents)]

\* What that means for the versions and the display of document u.
ServerShows(u) ==
  LET m == Head(inbox) IN
  /\ inbox # <<>> /\ inbox' = Tail(inbox)
  /\ UNCHANGED <<phase, isOpen, text, version, synced, settled>>
  /\ ~Concerns(m, u) => docs'[u] = docs[u] /\ Seen(u)' = Seen(u)
  /\ m.method = "didOpen" /\ m.uri = u =>
       docs'[u] # NoDoc /\ docs'[u].contents = m.text /\ docs'[u].version = m.version /\ Published(u)
  /\ m.method = "didClose" /\ m.uri = u =>
       docs'[u] = NoDoc /\ Seen(u)' = [version |-> 0, diags |-> NoDiags]
  /\ m.method = "didSave" /\ m.uri = u /\ docs[u] # NoDoc =>
       /\ docs'[u] # NoDoc /\ docs'[u].contents = docs[u].contents /\ docs'[u].version = docs[u].version
       /\ Published(u) \/ (docs[u].contents = Scrambled /\ Seen(u)' = Seen(u))
  /\ m.method = "didChange" /\ m.uri = u /\ docs[u] # NoDoc =>
       /\ docs'[u] # NoDoc
       /\ \/ docs'[u].version = m.version /\ (Published(u) \/ Seen(u)' = Seen(u))
          \/ docs'[u].version = docs[u].version /\ Seen(u)' = Seen(u)

LEMMA LintShows ==
  ASSUME TypeOK, NEW ds \in [Uris -> Doc \cup {NoDoc}], NEW u \in Uris, LintAndPublish(ds, u),
         ds[u] # NoDoc, shown' = shown
  PROVE  Published(u) \/ (ds[u].contents = Scrambled /\ Seen(u)' = Seen(u))
<1>1. ds[u] \in Doc /\ ds[u].contents \in Text /\ ds[u].version \in Nat
  BY DEF Doc
<1> DEFINE lint == LintOf(ds[u].contents)
           e == PublishMsg(u, ds[u].version, lint)
<1>2. lint \in Diags
  BY <1>1, LintOfType
<1>3. e \in ServerMsg /\ e.type = "publish" /\ e.uri = u /\ e.version = ds[u].version /\ e.diags = lint
  BY <1>1, <1>2, MessageTypes DEF PublishMsg
<1>4. outbox' = Append(outbox, e) \/ (ds[u].contents = Scrambled /\ outbox' = outbox)
  BY DEF LintAndPublish, Serialisable
<1>5. docs'[u].contents = ds[u].contents /\ docs'[u].version = ds[u].version
  BY LintKeepsText
<1> HIDE DEF lint, e
<1>6. CASE outbox' = Append(outbox, e)
  <2>1. Seen(u)' = [version |-> e.version, diags |-> e.diags]
    BY <1>3, <1>6, SeenPublish
  <2> QED
    BY <1>3, <1>5, <2>1 DEF Published, lint
<1>7. CASE ds[u].contents = Scrambled /\ outbox' = outbox
  BY <1>7, SeenStays DEF Silent
<1> QED
  BY <1>4, <1>6, <1>7

\* A batch that is accepted brings its version, one that is rejected none.
LEMMA ApplyVersion ==
  ASSUME NEW d \in Doc, NEW v \in Nat, NEW cs \in Seq(Change), NEW r \in ApplyChanges(d, v, cs)
  PROVE  (r.ok /\ r.doc.version = v) \/ (~r.ok /\ r.doc.version = d.version)
<1> DEFINE n == Len(cs)
           reachable == {d.contents, Scrambled} \cup {cs[i].to : i \in 1..n}
<1>1. \/ r.ok = TRUE /\ \E after \in [0..n -> reachable] :
              r.doc = [d EXCEPT !.contents = after[n], !.version = v]
      \/ r.ok = FALSE /\ \E after \in [0..n -> reachable], k \in 0..n-1 :
              r.doc = [d EXCEPT !.contents = after[k]]
  BY Zenon DEF ApplyChanges
<1> HIDE DEF n, reachable
<1>2. \A t : /\ [d EXCEPT !.contents = t, !.version = v].version = v
             /\ [d EXCEPT !.contents = t].version = d.version
  BY DEF Doc
<1> QED
  BY <1>1, <1>2

LEMMA ServerReadsShows ==
  ASSUME TypeOK, ServerNext, ~LeaveLoop, NEW u \in Uris
  PROVE  ServerShows(u)
<1> DEFINE m == Head(inbox)
<1>1. /\ inbox # <<>> /\ inbox' = Tail(inbox) /\ shown' = shown
      /\ UNCHANGED <<phase, isOpen, text, version, synced, settled>>
      /\ Reads(u)
  BY ServerReads DEF Reads, ServerNext, editorVars
<1>2. docs \in [Uris -> Doc \cup {NoDoc}]
  BY DEF TypeOK, ServerTypeOK
<1>3. m \in ClientMsg
  BY <1>1, TailElements DEF TypeOK, ServerTypeOK
<1>4. /\ m.method = "didOpen" => OnDidOpen
      /\ m.method = "didChange" => OnDidChange
      /\ m.method = "didSave" => OnDidSave
      /\ m.method = "didClose" => OnDidClose
  BY DEF ServerNext, ServerStep, OnInitialize, OnShutdown, OnUnknownRequest, OnCodeAction, OnHover,
         OnIgnoredNotification, OnDidOpen, OnDidChange, OnDidSave, OnDidClose, OnExit, Take
<1>5. ASSUME ~Concerns(m, u) PROVE docs'[u] = docs[u] /\ Seen(u)' = Seen(u)
  BY <1>1, <1>5, SeenStays DEF Reads
<1>6. ASSUME m.method = "didOpen", m.uri = u
      PROVE  docs'[u] # NoDoc /\ docs'[u].contents = m.text /\ docs'[u].version = m.version /\ Published(u)
  <2> DEFINE opened == [contents |-> m.text, version |-> m.version,
                        latest_diagnostics |-> NoDiags, linted |-> FALSE]
             ds == [docs EXCEPT ![u] = opened]
  <2>1. LintAndPublish(ds, u)
    BY <1>4, <1>6 DEF OnDidOpen
  <2>2. m.text \in Nat /\ m.version \in Nat
    BY <1>3, <1>6, ClientMsgFields
  <2>3. opened \in Doc /\ opened.contents = m.text /\ opened.version = m.version
    BY <2>2 DEF Doc, Text, Diags
  <2> HIDE DEF opened
  <2>4. ds \in [Uris -> Doc \cup {NoDoc}] /\ ds[u] = opened /\ ds[u] # NoDoc
    BY <1>2, <2>3, NoDocAssumption
  <2> HIDE DEF ds
  <2>5. docs'[u].contents = m.text /\ docs'[u].version = m.version
    BY <2>1, <2>3, <2>4, LintKeepsText
  <2>6. Published(u)
    BY <1>1, <2>1, <2>2, <2>3, <2>4, LintShows, SentinelAssumption
  <2>7. docs'[u] # NoDoc
    BY <1>1, <1>6 DEF Reads, Concerns
  <2> QED
    BY <2>5, <2>6, <2>7
<1>7. ASSUME m.method = "didClose", m.uri = u
      PROVE  docs'[u] = NoDoc /\ Seen(u)' = [version |-> 0, diags |-> NoDiags]
  <2> DEFINE e == PublishMsg(u, 0, NoDiags)
  <2>1. outbox' = Append(outbox, e)
    BY <1>4, <1>7 DEF OnDidClose
  <2>2. e \in ServerMsg /\ e.type = "publish" /\ e.uri = u /\ e.version = 0 /\ e.diags = NoDiags
    <3>1. NoDiags \in Diags /\ 0 \in Nat
      BY DEF Diags
    <3> QED
      BY <3>1, MessageTypes DEF PublishMsg
  <2> HIDE DEF e
  <2>3. Seen(u)' = [version |-> e.version, diags |-> e.diags]
    BY <2>1, <2>2, SeenPublish
  <2>4. docs'[u] = NoDoc
    BY <1>1, <1>7 DEF Reads, Concerns
  <2> QED
    BY <2>2, <2>3, <2>4
<1>8. ASSUME m.method = "didSave", m.uri = u, docs[u] # NoDoc
      PROVE  /\ docs'[u] # NoDoc /\ docs'[u].contents = docs[u].contents /\ docs'[u].version = docs[u].version
             /\ Published(u) \/ (docs[u].contents = Scrambled /\ Seen(u)' = Seen(u))
  <2>1. LintAndPublish(docs, u)
    BY <1>4, <1>8 DEF OnDidSave
  <2>2. docs'[u] # NoDoc
    BY <1>1, <1>8 DEF Reads, Concerns
  <2>3. docs'[u].contents = docs[u].contents /\ docs'[u].version = docs[u].version
    BY <1>2, <2>1, LintKeepsText
  <2>4. Published(u) \/ (docs[u].contents = Scrambled /\ Seen(u)' = Seen(u))
    BY <1>1, <1>2, <1>8, <2>1, LintShows
  <2> QED
    BY <2>2, <2>3, <2>4
<1>9. ASSUME m.method = "didChange", m.uri = u, docs[u] # NoDoc
      PROVE  /\ docs'[u] # NoDoc
             /\ \/ docs'[u].version = m.version /\ (Published(u) \/ Seen(u)' = Seen(u))
                \/ docs'[u].version = docs[u].version /\ Seen(u)' = Seen(u)
  <2>1. m.version \in Nat /\ m.changes \in Seq(Change) /\ docs[u] \in Doc
    BY <1>2, <1>3, <1>9, ClientMsgFields
  <2>2. docs'[u] # NoDoc
    BY <1>1, <1>9 DEF Reads, Concerns
  <2>3. PICK r \in ApplyChanges(docs[u], m.version, m.changes) :
          \/ docs' = [docs EXCEPT ![u] = r.doc] /\ outbox' = outbox
          \/ r.ok /\ LintAndPublish([docs EXCEPT ![u] = r.doc], u)
    BY <1>4, <1>9 DEF OnDidChange
  <2> DEFINE ds == [docs EXCEPT ![u] = r.doc]
  <2>4. r.doc \in Doc
    BY <2>1, ApplyChangesType
  <2>5. ds \in [Uris -> Doc \cup {NoDoc}] /\ ds[u] = r.doc /\ ds[u] # NoDoc
    BY <1>2, <2>4, NoDocAssumption
  <2>6. (r.ok /\ r.doc.version = m.version) \/ (~r.ok /\ r.doc.version = docs[u].version)
    BY <2>1, ApplyVersion
  <2>7. (docs' = ds /\ outbox' = outbox) \/ (r.ok /\ LintAndPublish(ds, u))
    BY <2>3
  <2> HIDE DEF ds
  <2>8. CASE docs' = ds /\ outbox' = outbox
    <3>1. Seen(u)' = Seen(u)
      BY <1>1, <2>8, SeenStays DEF Silent
    <3> QED
      BY <2>2, <2>5, <2>6, <2>8, <3>1
  <2>9. CASE r.ok /\ LintAndPublish(ds, u)
    <3>1. docs'[u].version = ds[u].version
      BY <2>5, <2>9, LintKeepsText
    <3>2. Published(u) \/ Seen(u)' = Seen(u)
      BY <1>1, <2>5, <2>9, LintShows
    <3> QED
      BY <2>2, <2>5, <2>6, <2>9, <3>1, <3>2
  <2> QED
    BY <2>7, <2>8, <2>9
<1> QED
  BY <1>1, <1>5, <1>6, <1>7, <1>8, <1>9 DEF ServerShows

-----------------------------------------------------------------------------
(* Reading keeps the invariants *)

LEMMA NotesShift ==
  ASSUME TypeOK, NEW u, inbox # <<>>, inbox' = Tail(inbox)
  PROVE  /\ \A i \in AboutIn(u)' : /\ i \in Int /\ i >= 1 /\ i + 1 \in AboutIn(u)
                                   /\ inbox'[i] = inbox[i + 1]
         /\ \A j \in AboutIn(u) : j \in Int /\ j >= 1 /\ (j = 1 \/ j - 1 \in AboutIn(u)')
         /\ 1 \in AboutIn(u) <=> Concerns(inbox[1], u)
         /\ inbox[1] = Head(inbox)
<1> DEFINE S == AboutIn(u)
           T == AboutIn(u)'
<1>1. inbox \in Seq(ClientMsg) /\ inbox[1] = Head(inbox)
  BY TailElements DEF TypeOK, ServerTypeOK
<1>2. /\ \A i \in T : i \in Int /\ i >= 1 /\ i + 1 \in S /\ inbox'[i] = inbox[i + 1]
      /\ \A i \in Int : i >= 1 /\ i + 1 \in S => i \in T
      /\ \A i \in S : i \in Int /\ i >= 1
      /\ 1 \in S <=> Concerns(inbox[1], u)
  <2>1. /\ Len(inbox) \in Nat \ {0} /\ Len(inbox') = Len(inbox) - 1
        /\ \A i \in 1..(Len(inbox) - 1) : inbox'[i] = inbox[i + 1]
        /\ inbox' \in Seq(ClientMsg)
    BY <1>1, TailElements
  <2>2. DOMAIN inbox = 1..Len(inbox) /\ DOMAIN inbox' = 1..(Len(inbox) - 1)
    BY <1>1, <2>1
  <2> QED
    BY <2>1, <2>2 DEF AboutIn, NotesOn
<1>3. ASSUME NEW j \in S, j # 1 PROVE j - 1 \in T
  <2>1. j - 1 \in Int /\ j - 1 >= 1 /\ (j - 1) + 1 = j
    BY <1>2, <1>3
  <2> QED
    BY <1>2, <1>3, <2>1
<1> HIDE DEF S, T
<1>4. \A j \in S : j = 1 \/ j - 1 \in T
  BY <1>3
<1> QED
  BY <1>1, <1>2, <1>4 DEF S, T

\* The first edit is the head of the pipe or stays where it is in the order.
LEMMA ReadingKeepsOrdered ==
  ASSUME TypeOK, NEW u \in Uris, Agrees(u), Follows(u), Ordered(u), ServerShows(u)
  PROVE  Ordered(u)'
<1> DEFINE S == Edits(u)
           T == Edits(u)'
           m == inbox[1]
<1>1. /\ inbox # <<>> /\ inbox' = Tail(inbox) /\ m = Head(inbox)
      /\ isOpen' = isOpen /\ version' = version
  BY EditsShift DEF ServerShows
<1>2. /\ \A i \in T : i \in Int /\ i >= 1 /\ i + 1 \in S /\ inbox'[i] = inbox[i + 1]
      /\ \A j \in S : j \in Int /\ j >= 1 /\ (j = 1 \/ j - 1 \in T)
      /\ 1 \in S <=> WritesTo(m, u)
  BY <1>1, EditsShift
<1>3. m \in ClientMsg /\ (docs[u] # NoDoc => docs[u].version \in Nat)
  <2>1. inbox \in Seq(ClientMsg) /\ docs[u] \in Doc \cup {NoDoc}
    BY DEF TypeOK, ServerTypeOK
  <2>2. m \in ClientMsg
    BY <1>1, <2>1, TailElements
  <2> QED
    BY <2>1, <2>2 DEF Doc
\* What an edit leaves in the registry is not newer than the edit.
<1>4. ASSUME 1 \in S
      PROVE  docs'[u] # NoDoc /\ docs'[u].version \in Nat /\ m.version \in Nat /\ docs'[u].version <= m.version
  <2>1. WritesTo(m, u) /\ m.version \in Nat
    BY <1>2, <1>3, <1>4, ClientMsgFields DEF WritesTo
  <2>2. CASE m.method = "didOpen"
    BY <1>1, <2>1, <2>2 DEF ServerShows, WritesTo
  <2>3. CASE m.method = "didChange"
    <3>1. docs[u] # NoDoc
      BY <1>1, <2>1, <2>3, HeadNoteFits DEF WritesTo, Concerns
    <3>2. docs[u].version < m.version
      BY <1>2, <1>4, <2>3, <3>1 DEF Ordered, FirstIsNewer
    <3>3. docs'[u] # NoDoc /\ (docs'[u].version = m.version \/ docs'[u].version = docs[u].version)
      BY <1>1, <2>1, <2>3, <3>1 DEF ServerShows, WritesTo
    <3> QED
      BY <1>3, <2>1, <3>1, <3>2, <3>3
  <2> QED
    BY <2>1, <2>2, <2>3 DEF WritesTo
<1>5. ASSUME 1 \notin S
      PROVE  \/ docs'[u] = NoDoc /\ m.method = "didClose" /\ m.uri = u
             \/ (docs'[u] = NoDoc <=> docs[u] = NoDoc) /\ docs'[u].version = docs[u].version
  <2>1. ~WritesTo(m, u)
    BY <1>2, <1>5
  <2>2. CASE ~Concerns(m, u)
    BY <1>1, <2>2 DEF ServerShows
  <2>3. CASE m.method = "didClose" /\ m.uri = u
    BY <1>1, <2>3 DEF ServerShows
  <2>4. CASE m.method = "didSave" /\ m.uri = u
    <3>1. docs[u] # NoDoc
      BY <1>1, <2>4, HeadNoteFits DEF Concerns
    <3> QED
      BY <1>1, <2>4, <3>1 DEF ServerShows
  <2> QED
    BY <2>1, <2>2, <2>3, <2>4 DEF WritesTo, Concerns
<1> HIDE DEF S, T, m
<1>6. ASSUME NEW i \in T, NEW j \in T, i < j, \A k \in T : k <= i \/ j <= k,
             inbox'[j].method = "didChange"
      PROVE  inbox'[i].version < inbox'[j].version
  <2>1. /\ i + 1 \in S /\ j + 1 \in S /\ i + 1 < j + 1
        /\ inbox'[i] = inbox[i + 1] /\ inbox'[j] = inbox[j + 1]
    BY <1>2, <1>6
  <2>2. \A k \in S : k <= i + 1 \/ j + 1 <= k
    BY <1>2, <1>6
  <2>3. inbox[i + 1].version < inbox[j + 1].version
    BY <1>6, <2>1, <2>2 DEF Ordered, VersionsRise, S
  <2> QED
    BY <2>1, <2>3
<1>7. ASSUME NEW f \in T, \A j \in T : f <= j, inbox'[f].method = "didChange", docs'[u] # NoDoc
      PROVE  docs'[u].version < inbox'[f].version
  <2>1. f + 1 \in S /\ inbox'[f] = inbox[f + 1] /\ f \in Int /\ f >= 1
    BY <1>2
  <2>2. \A j \in S : j = 1 \/ f + 1 <= j
    BY <1>2, <1>7, <2>1
  <2>3. CASE 1 \in S
    <3>1. 1 < f + 1 /\ \A k \in S : k <= 1 \/ f + 1 <= k
      BY <2>1, <2>2
    <3>2. m.version < inbox[f + 1].version
      BY <1>7, <2>1, <2>3, <3>1 DEF Ordered, VersionsRise, S, m
    <3>3. inbox[f + 1].version \in Nat
      <4>1. inbox[f + 1] \in ClientMsg /\ WritesTo(inbox[f + 1], u)
        <5>1. inbox \in Seq(ClientMsg) /\ f + 1 \in 1..Len(inbox) /\ DOMAIN inbox = 1..Len(inbox)
          BY <2>1, EditPositions DEF S
        <5> QED
          BY <2>1, <5>1 DEF S, Edits
      <4> QED
        BY <4>1, ClientMsgFields DEF WritesTo
    <3> QED
      BY <1>4, <2>1, <2>3, <3>2, <3>3
  <2>4. CASE 1 \notin S
    <3>1. \A j \in S : f + 1 <= j
      BY <2>2, <2>4
    <3>2. docs[u] # NoDoc /\ docs'[u].version = docs[u].version
      BY <1>5, <1>7, <2>4
    <3> QED
      BY <1>7, <2>1, <3>1, <3>2 DEF Ordered, FirstIsNewer, S
  <2> QED
    BY <2>3, <2>4
<1>8. ASSUME isOpen'[u], T = {}
      PROVE  docs'[u] # NoDoc /\ docs'[u].version <= version'[u]
  <2>1. \A j \in S : j = 1
    BY <1>2, <1>8
  <2>2. CASE 1 \in S
    <3>1. m.version = version[u]
      <4>1. \A j \in S : j <= 1
        BY <2>1
      <4> QED
        BY <1>1, <1>8, <2>2, <4>1 DEF Follows, LastEditIsCurrent, S, m
    <3> QED
      BY <1>1, <1>4, <2>2, <3>1
  <2>3. CASE 1 \notin S
    <3>1. S = {}
      BY <2>1, <2>3
    <3>2. docs[u] # NoDoc /\ docs[u].version <= version[u]
      BY <1>1, <1>8, <3>1 DEF Ordered, NoneAhead, S
    <3>3. ~(m.method = "didClose" /\ m.uri = u)
      <4> SUFFICES ASSUME m.method = "didClose", m.uri = u PROVE FALSE
        OBVIOUS
      <4>1. \E a \in Edits(u) : a # 1 /\ Whole(inbox[a])
        BY <1>1, <1>8, CloseThenOpen
      <4> QED
        BY <3>1, <4>1 DEF S
    <3> QED
      BY <1>1, <1>5, <2>3, <3>2, <3>3
  <2> QED
    BY <2>2, <2>3
<1>9. VersionsRise(u)'
  BY <1>6 DEF VersionsRise, T
<1>10. FirstIsNewer(u)'
  BY <1>7 DEF FirstIsNewer, T
<1>11. NoneAhead(u)'
  BY <1>8 DEF NoneAhead, T
<1> QED
  BY <1>9, <1>10, <1>11 DEF Ordered

LEMMA ReadingKeepsNamed ==
  ASSUME TypeOK, TypeOK', NEW u \in Uris, Agrees(u), Follows(u), Ordered(u), Named(u),
         TextReads(u), ServerShows(u)
  PROVE  Named(u)'
<1> DEFINE m == Head(inbox)
<1>1. /\ inbox # <<>> /\ inbox' = Tail(inbox) /\ isOpen' = isOpen /\ synced' = synced
      /\ inbox[1] = m /\ m \in ClientMsg
  <2>1. inbox # <<>> /\ inbox' = Tail(inbox) /\ isOpen' = isOpen /\ synced' = synced
    BY DEF ServerShows
  <2> QED
    BY <2>1, TailElements DEF TypeOK, ServerTypeOK
<1>2. /\ docs[u] # NoDoc => docs[u].version \in Nat
      /\ docs'[u] # NoDoc => docs'[u].version \in Nat
      /\ Seen(u).version \in Nat
  <2>1. docs[u] \in Doc \cup {NoDoc} /\ docs'[u] \in Doc \cup {NoDoc}
    BY DEF TypeOK, ServerTypeOK
  <2> QED
    BY <2>1, SeenType DEF Doc
<1>3. ASSUME docs'[u] # NoDoc, Published(u) PROVE Named(u)'
  <2>1. Seen(u)'.version = docs'[u].version /\ Seen(u)'.diags.text = docs'[u].contents
    BY <1>3 DEF Published, LintOf
  <2> QED
    BY <1>2, <1>3, <2>1 DEF Named, NotAhead, LevelIsRight
\* Nothing happened to the text nor to the display.
<1>4. ASSUME docs'[u] = NoDoc <=> docs[u] = NoDoc, docs'[u].contents = docs[u].contents,
             docs'[u].version = docs[u].version, Seen(u)' = Seen(u), ~WritesTo(m, u)
      PROVE  Named(u)'
  <2>1. 1 \notin Edits(u)
    BY <1>1, <1>4, EditsShift
  <2>2. (\E a \in Edits(u) : Whole(inbox[a])) => \E b \in Edits(u)' : Whole(inbox'[b])
    BY <1>1, <2>1, WholeShifts
  <2> QED
    BY <1>1, <1>4, <2>2 DEF Named, NotAhead, LevelIsRight
<1>5. CASE ~Concerns(m, u)
  BY <1>4, <1>5 DEF ServerShows, Concerns, WritesTo
<1>6. CASE m.method = "didOpen" /\ m.uri = u
  BY <1>3, <1>6 DEF ServerShows
<1>7. CASE m.method = "didClose" /\ m.uri = u
  BY <1>7 DEF ServerShows, Named, NotAhead, LevelIsRight
<1>8. CASE m.method = "didSave" /\ m.uri = u
  <2>1. docs[u] # NoDoc
    BY <1>1, <1>8, HeadNoteFits DEF Concerns
  <2> QED
    BY <1>3, <1>4, <1>8, <2>1 DEF ServerShows, WritesTo
<1>9. CASE m.method = "didChange" /\ m.uri = u
  <2>1. docs[u] # NoDoc
    BY <1>1, <1>9, HeadNoteFits DEF Concerns
  <2>2. m.version \in Nat /\ docs[u].version < m.version
    <3>1. WritesTo(inbox[1], u) /\ inbox[1].method = "didChange"
      BY <1>1, <1>9 DEF WritesTo
    <3>2. 1 \in Edits(u) /\ \A j \in Edits(u) : 1 <= j
      BY <1>1, <3>1, EditsShift
    <3>3. docs[u].version < inbox[1].version
      BY <2>1, <3>1, <3>2 DEF Ordered, FirstIsNewer
    <3> QED
      BY <1>1, <1>9, <3>3, ClientMsgFields
  <2>3. docs'[u] # NoDoc /\ Seen(u).version <= docs[u].version
    BY <1>9, <2>1 DEF ServerShows, Named, NotAhead
  <2>4. CASE docs'[u].version = m.version /\ Seen(u)' = Seen(u)
    <3>1. Seen(u)'.version < docs'[u].version
      BY <1>2, <2>1, <2>2, <2>3, <2>4
    <3>2. Seen(u)'.version <= docs'[u].version /\ Seen(u)'.version # docs'[u].version
      BY <1>2, <2>2, <2>3, <2>4, <3>1
    <3> QED
      BY <2>3, <3>2 DEF Named, NotAhead, LevelIsRight
  <2>5. CASE docs'[u].version = docs[u].version /\ Seen(u)' = Seen(u)
    <3>1. docs'[u].version # m.version
      BY <1>2, <2>1, <2>2, <2>5
    <3>2. ~Whole(m) /\ (Exact(m) => docs[u].contents # StartText(m))
      BY <1>9, <2>1, <3>1 DEF TextReads, WritesTo
    <3>3. ASSUME isOpen[u], synced[u] PROVE \E b \in Edits(u)' : Whole(inbox'[b])
      <4>1. \E a \in Edits(u) : a # 1 /\ Whole(inbox[a])
        BY <1>1, <1>9, <3>2, <3>3, MissIsMended DEF WritesTo
      <4> QED
        BY <1>1, <4>1, WholeShifts
    <3>4. NotAhead(u)'
      BY <2>1, <2>3, <2>5 DEF NotAhead
    <3>5. LevelIsRight(u)'
      BY <1>1, <3>3 DEF LevelIsRight
    <3> QED
      BY <3>4, <3>5 DEF Named
  <2>6. CASE Published(u)
    BY <1>3, <2>3, <2>6
  <2> QED
    BY <1>9, <2>1, <2>4, <2>5, <2>6 DEF ServerShows
<1> QED
  BY <1>5, <1>6, <1>7, <1>8, <1>9 DEF Concerns

LEMMA ReadingKeepsSettles ==
  ASSUME TypeOK, NEW u \in Uris, Agrees(u), Follows(u)', Settles(u), ServerShows(u),
         toml' = toml, isOpen[u] => options' = options
  PROVE  Settles(u)'
<1> DEFINE S == AboutIn(u)
           T == AboutIn(u)'
           m == Head(inbox)
<1>1. /\ inbox # <<>> /\ inbox' = Tail(inbox) /\ inbox[1] = m
      /\ UNCHANGED <<phase, isOpen, text, version, synced, settled>>
  BY NotesShift DEF ServerShows
<1>2. /\ \A i \in T : i \in Int /\ i >= 1 /\ i + 1 \in S /\ inbox'[i] = inbox[i + 1]
      /\ \A j \in S : j \in Int /\ j >= 1 /\ (j = 1 \/ j - 1 \in T)
      /\ 1 \in S <=> Concerns(m, u)
  BY <1>1, NotesShift
<1>3. isOpen[u] => LintOf(text[u])' = LintOf(text[u])
  BY <1>1 DEF LintOf, ResolveConfig
<1> HIDE DEF S, T
<1>4. ASSUME isOpen'[u], settled'[u], NEW i \in T, \A j \in T : j <= i
      PROVE  inbox'[i].method \in {"didOpen", "didSave"}
  <2>1. i + 1 \in S /\ inbox'[i] = inbox[i + 1] /\ \A j \in S : j <= i + 1
    BY <1>2, <1>4
  <2>2. inbox[i + 1].method \in {"didOpen", "didSave"}
    BY <1>1, <1>4, <2>1 DEF Settles, LastNoteRefreshes, S
  <2> QED
    BY <2>1, <2>2
<1>5. ASSUME isOpen'[u], settled'[u], synced'[u], T = {}
      PROVE  Seen(u)' = [version |-> version'[u], diags |-> LintOf(text[u])']
  <2>1. \A j \in S : j = 1
    BY <1>2, <1>5
  <2>2. CASE 1 \notin S
    <3>1. S = {} /\ ~Concerns(m, u)
      BY <1>2, <2>1, <2>2
    <3>2. Seen(u) = [version |-> version[u], diags |-> LintOf(text[u])]
      BY <1>1, <1>5, <3>1 DEF Settles, FreshOnceRead, S
    <3>3. Seen(u)' = Seen(u)
      BY <3>1 DEF ServerShows
    <3> QED
      BY <1>1, <1>3, <1>5, <3>2, <3>3
  <2>3. CASE 1 \in S
    <3>1. Concerns(m, u) /\ m.method \in {"didOpen", "didSave"}
      <4>1. \A j \in S : j <= 1
        BY <2>1
      <4>2. inbox[1].method \in {"didOpen", "didSave"}
        BY <1>1, <1>5, <2>3, <4>1 DEF Settles, LastNoteRefreshes, S
      <4> QED
        BY <1>1, <1>2, <2>3, <4>2
    <3>2. docs'[u].contents = text[u] /\ docs'[u].version = version[u]
      <4>1. Edits(u)' = {}
        BY <1>5 DEF T, Edits, WritesTo, AboutIn, NotesOn, Concerns
      <4> QED
        BY <1>1, <1>5, <4>1 DEF Follows, InStep
    <3>3. text[u] # Scrambled
      BY SentinelAssumption DEF TypeOK
    <3>4. Published(u)
      <4>1. CASE m.method = "didOpen"
        BY <3>1, <4>1 DEF ServerShows, Concerns
      <4>2. CASE m.method = "didSave"
        <5>1. docs[u] # NoDoc
          BY <1>1, <3>1, <4>2, HeadNoteFits
        <5> QED
          BY <3>1, <3>2, <3>3, <4>2, <5>1 DEF ServerShows, Concerns
      <4> QED
        BY <3>1, <4>1, <4>2
    <3>5. Seen(u)' = [version |-> version[u], diags |-> LintOf(text[u])]
      BY <3>2, <3>4 DEF Published
    <3> QED
      BY <1>1, <1>3, <1>5, <3>5
  <2> QED
    BY <2>2, <2>3
<1>6. LastNoteRefreshes(u)'
  BY <1>4 DEF LastNoteRefreshes, T
<1>7. FreshOnceRead(u)'
  BY <1>5 DEF FreshOnceRead, T
<1> QED
  BY <1>6, <1>7 DEF Settles

-----------------------------------------------------------------------------
(* Writing keeps the invariants *)

Quiet(u) ==
  /\ isOpen'[u] = isOpen[u] /\ text'[u] = text[u] /\ version'[u] = version[u] /\ synced'[u] = synced[u]
  /\ settled'[u] => settled[u] /\ toml' = toml

\* The editor writes a message, or none: what that means for the display of document u.
EditorShows(u) ==
  /\ docs' = docs /\ Seen(u)' = Seen(u) /\ options' = options
  /\ \/ inbox' = inbox /\ Quiet(u)
     \/ \E e \in ClientMsg :
          /\ inbox' = Append(inbox, e)
          /\ ~Concerns(e, u) => Quiet(u)
          /\ Concerns(e, u) /\ isOpen'[u] /\ settled'[u] => e.method \in {"didOpen", "didSave"}
          /\ ~WritesTo(e, u) /\ isOpen'[u] => isOpen[u] /\ version'[u] = version[u]
          /\ e.method = "didChange" /\ e.uri = u => isOpen[u] /\ e.version = version[u] + 1

LEMMA WritingKeepsOrdered ==
  ASSUME TypeOK, NEW u \in Uris, Follows(u), Ordered(u), EditorShows(u)
  PROVE  Ordered(u)'
<1> DEFINE S == Edits(u)
           T == Edits(u)'
           n == Len(inbox) + 1
<1>1. docs' = docs /\ version[u] \in Nat /\ (docs[u] # NoDoc => docs[u].version \in Nat)
  <2>1. docs[u] \in Doc \cup {NoDoc} /\ version[u] \in Nat
    BY DEF TypeOK, ServerTypeOK
  <2> QED
    BY <2>1 DEF EditorShows, Doc
<1>2. CASE inbox' = inbox /\ Quiet(u)
  BY <1>1, <1>2 DEF Ordered, VersionsRise, FirstIsNewer, NoneAhead, Edits, Quiet
<1>3. ASSUME NEW e \in ClientMsg, inbox' = Append(inbox, e), ~WritesTo(e, u),
             isOpen'[u] => isOpen[u] /\ version'[u] = version[u]
      PROVE  Ordered(u)'
  <2>1. T = S /\ \A i \in S : inbox'[i] = inbox[i]
    <3>1. \A i : i \in T <=> i \in S
      BY <1>3, EditsGrow
    <3>2. \A i \in S : inbox'[i] = inbox[i]
      BY <1>3, EditsGrow
    <3> QED
      BY <3>1, <3>2
  <2> HIDE DEF S, T
  <2>2. \A i, j \in T :
          i < j /\ (\A k \in T : k <= i \/ j <= k) /\ inbox'[j].method = "didChange"
            => inbox'[i].version < inbox'[j].version
    BY <2>1 DEF Ordered, VersionsRise, S
  <2>3. \A f \in T :
          (\A j \in T : f <= j) /\ inbox'[f].method = "didChange" /\ docs'[u] # NoDoc
            => docs'[u].version < inbox'[f].version
    BY <1>1, <2>1 DEF Ordered, FirstIsNewer, S
  <2>4. isOpen'[u] /\ T = {} => docs'[u] # NoDoc /\ docs'[u].version <= version'[u]
    BY <1>1, <1>3, <2>1 DEF Ordered, NoneAhead, S
  <2> QED
    BY <2>2, <2>3, <2>4 DEF Ordered, VersionsRise, FirstIsNewer, NoneAhead, T
<1>4. ASSUME NEW e \in ClientMsg, inbox' = Append(inbox, e), WritesTo(e, u),
             e.method = "didChange" /\ e.uri = u => isOpen[u] /\ e.version = version[u] + 1
      PROVE  Ordered(u)'
  <2>1. /\ \A i : i \in T <=> i \in S \/ i = n
        /\ \A i \in S : i \in Int /\ i < n /\ inbox'[i] = inbox[i]
        /\ inbox'[n] = e /\ n \in Int
    <3>1. inbox' = Append(inbox, e) /\ WritesTo(e, u)
      BY <1>4
    <3>2. /\ \A i : i \in T <=> i \in S \/ (i = n /\ WritesTo(e, u))
          /\ \A i \in S : i \in Int /\ i < n /\ inbox'[i] = inbox[i]
          /\ inbox'[n] = e /\ n \in Int
      BY <3>1, EditsGrow
    <3> QED
      BY <3>1, <3>2, Zenon
  <2>2. e.method = "didChange" => isOpen[u] /\ e.version = version[u] + 1
    BY <1>4 DEF WritesTo
  <2> HIDE DEF S, T, n
  <2>3. VersionsRise(u)'
    <3>1. ASSUME NEW i \in T, NEW j \in T, i < j, \A k \in T : k <= i \/ j <= k,
                 inbox'[j].method = "didChange"
          PROVE  inbox'[i].version < inbox'[j].version
      <4>1. i \in S /\ \A k \in S : k \in T
        <5>1. i = n => FALSE
          BY <2>1, <3>1
        <5> QED
          BY <2>1, <5>1
      <4>2. CASE j \in S
        <5>1. inbox[i].version < inbox[j].version
          BY <2>1, <3>1, <4>1, <4>2 DEF Ordered, VersionsRise, S
        <5> QED
          BY <2>1, <4>1, <4>2, <5>1
      <4>3. CASE j = n
        <5>1. ASSUME NEW k \in S PROVE k <= i
          <6>1. k \in T /\ k \in Int /\ k < n /\ i \in Int
            BY <2>1, <4>1, <5>1
          <6>2. k <= i \/ (i < k /\ k < j)
            BY <4>3, <6>1
          <6> QED
            BY <3>1, <6>1, <6>2
        <5>2. isOpen[u] /\ inbox'[j].version = version[u] + 1
          BY <2>1, <2>2, <3>1, <4>3
        <5>3. inbox[i].version = version[u]
          BY <4>1, <5>1, <5>2 DEF Follows, LastEditIsCurrent, S
        <5> QED
          BY <1>1, <2>1, <4>1, <5>2, <5>3
      <4> QED
        BY <2>1, <4>2, <4>3
    <3> QED
      BY <3>1 DEF VersionsRise, T
  <2>4. FirstIsNewer(u)'
    <3>1. ASSUME NEW f \in T, \A j \in T : f <= j, inbox'[f].method = "didChange", docs'[u] # NoDoc
          PROVE  docs'[u].version < inbox'[f].version
      <4>1. CASE f \in S
        <5>1. \A j \in S : f <= j
          BY <2>1, <3>1
        <5>2. docs[u].version < inbox[f].version
          BY <1>1, <2>1, <3>1, <4>1, <5>1 DEF Ordered, FirstIsNewer, S
        <5> QED
          BY <1>1, <2>1, <4>1, <5>2
      <4>2. CASE f = n
        <5>1. S = {}
          BY <2>1, <3>1, <4>2
        <5>2. isOpen[u] /\ inbox'[f].version = version[u] + 1
          BY <2>1, <2>2, <3>1, <4>2
        <5>3. docs[u].version <= version[u]
          BY <5>1, <5>2 DEF Ordered, NoneAhead, S
        <5> QED
          BY <1>1, <3>1, <5>2, <5>3
      <4> QED
        BY <2>1, <4>1, <4>2
    <3> QED
      BY <3>1 DEF FirstIsNewer, T
  <2>5. NoneAhead(u)'
    <3>1. n \in T
      BY <2>1
    <3> QED
      BY <3>1 DEF NoneAhead, T
  <2> QED
    BY <2>3, <2>4, <2>5 DEF Ordered
<1> QED
  BY <1>2, <1>3, <1>4 DEF EditorShows

LEMMA WritingKeepsNamed ==
  ASSUME TypeOK, NEW u \in Uris, Named(u), TextWrites(u), EditorShows(u)
  PROVE  Named(u)'
<1>1. docs' = docs /\ Seen(u)' = Seen(u)
  BY DEF EditorShows
<1>2. NotAhead(u)'
  BY <1>1 DEF Named, NotAhead
<1>3. CASE inbox' = inbox /\ isOpen'[u] = isOpen[u] /\ synced'[u] = synced[u]
  BY <1>1, <1>2, <1>3 DEF Named, LevelIsRight, Edits
<1>4. ASSUME NEW e \in ClientMsg, inbox' = Append(inbox, e),
             ~WritesTo(e, u) =>
               isOpen'[u] = FALSE \/ (isOpen'[u] = isOpen[u] /\ synced'[u] = synced[u]),
             WritesTo(e, u) => Whole(e) \/ (isOpen[u] /\ (synced'[u] => synced[u]))
      PROVE  LevelIsRight(u)'
  <2>1. ASSUME NEW a \in Edits(u), Whole(inbox[a]) PROVE \E b \in Edits(u)' : Whole(inbox'[b])
    <3>1. a \in Edits(u)' /\ inbox'[a] = inbox[a]
      BY <1>4, EditsGrow
    <3>2. Whole(inbox'[a])
      BY <2>1, <3>1
    <3> QED
      BY <3>1, <3>2
  <2>2. CASE WritesTo(e, u) /\ Whole(e)
    <3> DEFINE n == Len(inbox) + 1
    <3>1. n \in Edits(u)' /\ inbox'[n] = e
      BY <1>4, <2>2, EditsGrow
    <3> HIDE DEF n
    <3>2. Whole(inbox'[n])
      BY <2>2, <3>1
    <3> QED
      BY <3>1, <3>2 DEF LevelIsRight
  <2>3. CASE ~(WritesTo(e, u) /\ Whole(e))
    <3>1. isOpen'[u] /\ synced'[u] => isOpen[u] /\ synced[u]
      BY <1>4, <2>3
    <3> QED
      BY <1>1, <2>1, <3>1 DEF Named, LevelIsRight
  <2> QED
    BY <2>2, <2>3
<1> QED
  BY <1>2, <1>3, <1>4 DEF TextWrites, Named

LEMMA WritingKeepsSettles ==
  ASSUME TypeOK, NEW u \in Uris, Settles(u), EditorShows(u)
  PROVE  Settles(u)'
<1> DEFINE S == AboutIn(u)
           T == AboutIn(u)'
           n == Len(inbox) + 1
<1>1. inbox \in Seq(ClientMsg) /\ S \subseteq 1..Len(inbox) /\ Len(inbox) \in Nat
  BY Positions DEF TypeOK, ServerTypeOK
\* No note about the document is written.
<1>2. ASSUME T = S, \A i \in S : inbox'[i] = inbox[i], Quiet(u)
      PROVE  Settles(u)'
  <2> HIDE DEF S, T
  <2>1. isOpen'[u] /\ settled'[u] =>
          \A i \in T : (\A j \in T : j <= i) => inbox'[i].method \in {"didOpen", "didSave"}
    BY <1>2 DEF Settles, LastNoteRefreshes, S, Quiet
  <2>2. ASSUME isOpen'[u], settled'[u], synced'[u], T = {}
        PROVE  Seen(u)' = [version |-> version'[u], diags |-> LintOf(text[u])']
    <3>1. Seen(u) = [version |-> version[u], diags |-> LintOf(text[u])]
      BY <1>2, <2>2 DEF Settles, FreshOnceRead, S, Quiet
    <3>2. LintOf(text[u])' = LintOf(text[u])
      BY <1>2, <2>2 DEF LintOf, ResolveConfig, Quiet, EditorShows
    <3> QED
      BY <1>2, <3>1, <3>2 DEF Quiet, EditorShows
  <2>3. LastNoteRefreshes(u)'
    BY <2>1 DEF LastNoteRefreshes, T
  <2>4. FreshOnceRead(u)'
    BY <2>2 DEF FreshOnceRead, T
  <2> QED
    BY <2>3, <2>4 DEF Settles
<1>3. CASE inbox' = inbox /\ Quiet(u)
  <2>1. T = S
    BY <1>3 DEF AboutIn
  <2> QED
    BY <1>2, <1>3, <2>1
<1>4. ASSUME NEW e \in ClientMsg, inbox' = Append(inbox, e), ~Concerns(e, u), Quiet(u)
      PROVE  Settles(u)'
  <2>1. \A i : i \in T <=> i \in S
    BY <1>1, <1>4, AppendNotes DEF AboutIn
  <2>2. \A i \in S : inbox'[i] = inbox[i]
    BY <1>1, <1>4, AppendElements
  <2>3. T = S
    BY <2>1
  <2> QED
    BY <1>2, <1>4, <2>2, <2>3
<1>5. ASSUME NEW e \in ClientMsg, inbox' = Append(inbox, e), Concerns(e, u),
             isOpen'[u] /\ settled'[u] => e.method \in {"didOpen", "didSave"}
      PROVE  Settles(u)'
  <2>1. \A i : i \in T <=> i \in S \/ i = n
    <3>1. \A i : i \in T <=> i \in S \/ (i = n /\ Concerns(e, u))
      BY <1>1, <1>5, AppendNotes DEF AboutIn
    <3>2. Concerns(e, u)
      BY <1>5
    <3> HIDE DEF S, T, n
    <3> QED
      BY <3>1, <3>2, Zenon
  <2>2. inbox'[n] = e /\ n \in Int /\ \A i \in S : i \in Int /\ i < n
    BY <1>1, <1>5, AppendElements
  <2> HIDE DEF S, T, n
  <2>3. \A i \in T : (\A j \in T : j <= i) => i = n
    BY <2>1, <2>2
  <2>4. LastNoteRefreshes(u)'
    <3>1. isOpen'[u] /\ settled'[u] =>
            \A i \in T : (\A j \in T : j <= i) => inbox'[i].method \in {"didOpen", "didSave"}
      BY <1>5, <2>2, <2>3
    <3> QED
      BY <3>1 DEF LastNoteRefreshes, T
  <2>5. FreshOnceRead(u)'
    <3>1. T # {}
      BY <2>1
    <3> QED
      BY <3>1 DEF FreshOnceRead, T
  <2> QED
    BY <2>4, <2>5 DEF Settles
<1> QED
  BY <1>3, <1>4, <1>5 DEF EditorShows

LEMMA UserShows ==
  ASSUME TypeOK, UserActs, NEW u \in Uris
  PROVE  EditorShows(u)
<1>1. /\ isOpen \in [Uris -> BOOLEAN] /\ text \in [Uris -> Nat] /\ version \in [Uris -> Nat]
      /\ synced \in [Uris -> BOOLEAN] /\ settled \in [Uris -> BOOLEAN]
  BY DEF TypeOK
<1>2. NextId \in Nat
  BY DEF NextId, Bounds, TypeOK
<1>3. Seen(u)' = Seen(u)
  BY UserWrites, SeenStays DEF Silent
\* A message about no document.
<1>4. ASSUME NEW e \in ClientMsg, e.method \notin {"didOpen", "didChange", "didSave", "didClose"},
             inbox' = Append(inbox, e), docs' = docs, options' = options,
             UNCHANGED <<isOpen, text, version, synced>>, settled'[u] => settled[u] /\ toml' = toml
      PROVE  EditorShows(u)
  BY <1>3, <1>4 DEF EditorShows, Quiet, Concerns, WritesTo
<1>5. CASE StartSession
  <2>1. PICK o \in OptionSets : inbox' = Append(inbox, [method |-> "initialize", id |-> NextId, options |-> o])
    BY <1>5 DEF StartSession, Ask, Send
  <2>2. [method |-> "initialize", id |-> NextId, options |-> o] \in ClientMsg
    BY <1>2 DEF ClientMsg
  <2> QED
    BY <1>4, <1>5, <2>1, <2>2 DEF StartSession, serverVars
<1>6. CASE AskUnknown
  <2>1. [method |-> "unknown", id |-> NextId] \in ClientMsg
    BY <1>2 DEF ClientMsg
  <2> QED
    BY <1>4, <1>6, <2>1 DEF AskUnknown, Ask, Send, serverVars
<1>7. CASE AskShutdown
  <2>1. [method |-> "shutdown", id |-> NextId] \in ClientMsg
    BY <1>2 DEF ClientMsg
  <2> QED
    BY <1>4, <1>7, <2>1 DEF AskShutdown, Ask, Send, serverVars
<1>8. CASE EditToml
  <2>1. [method |-> "didChangeConfiguration"] \in ClientMsg
    BY DEF ClientMsg
  <2> QED
    BY <1>4, <1>8, <2>1 DEF EditToml, Send, serverVars
<1>9. CASE SendExit
  <2>1. [method |-> "exit"] \in ClientMsg
    BY DEF ClientMsg
  <2> QED
    BY <1>4, <1>9, <2>1 DEF SendExit, Send, serverVars
<1>10. CASE Vanish
  BY <1>3, <1>10 DEF Vanish, EditorShows, Quiet, serverVars
<1>11. ASSUME NEW v \in Uris, OpenDoc(v)
       PROVE  EditorShows(u)
  <2> DEFINE e == [method |-> "didOpen", uri |-> v, version |-> 1, text |-> text[v]]
  <2>1. e \in ClientMsg /\ e.method = "didOpen" /\ e.uri = v
    BY <1>1 DEF ClientMsg
  <2>2. /\ inbox' = Append(inbox, e) /\ docs' = docs /\ options' = options /\ text' = text /\ toml' = toml
        /\ isOpen' = [isOpen EXCEPT ![v] = TRUE] /\ version' = [version EXCEPT ![v] = 1]
        /\ synced' = [synced EXCEPT ![v] = TRUE] /\ settled' = [settled EXCEPT ![v] = TRUE]
    BY <1>11 DEF OpenDoc, Send, serverVars
  <2> HIDE DEF e
  <2>3. u # v => Quiet(u)
    BY <1>1, <2>2 DEF Quiet
  <2>4. WritesTo(e, u) <=> u = v
    BY <2>1 DEF WritesTo
  <2>5. u # v => isOpen'[u] = isOpen[u] /\ version'[u] = version[u]
    BY <1>1, <2>2
  <2> QED
    BY <1>3, <2>1, <2>2, <2>3, <2>4, <2>5 DEF EditorShows, Concerns
<1>12. ASSUME NEW v \in Uris, EditDoc(v)
       PROVE  EditorShows(u)
  <2>1. PICK batch :
          /\ batch \in Batches(v) \/ batch = WholeText(v)
          /\ Send([method |-> "didChange", uri |-> v, version |-> version[v] + 1, changes |-> batch])
          /\ text' = [text EXCEPT ![v] = @ + Len(batch)]
          /\ synced' = [synced EXCEPT ![v] =
               batch[1].fit = "full" \/ (@ /\ \A i \in DOMAIN batch : batch[i].fit = "exact")]
    BY <1>12, Zenon DEF EditDoc
  <2> DEFINE e == [method |-> "didChange", uri |-> v, version |-> version[v] + 1, changes |-> batch]
  <2>2. batch \in Seq(Change)
    BY <2>1, BatchType, Zenon
  <2>3. version[v] + 1 \in Nat
    BY <1>1
  <2>4. e \in ClientMsg
    BY <2>2, <2>3, Zenon DEF ClientMsg
  <2>5. inbox' = Append(inbox, e)
    BY <2>1 DEF Send
  <2>6. e.method = "didChange" /\ e.uri = v /\ e.version = version[v] + 1
    OBVIOUS
  <2> HIDE DEF e
  <2>7. /\ isOpen' = isOpen /\ isOpen[v] /\ docs' = docs /\ options' = options /\ toml' = toml
        /\ version' = [version EXCEPT ![v] = @ + 1] /\ settled' = [settled EXCEPT ![v] = FALSE]
    BY <1>12 DEF EditDoc, serverVars
  <2>8. CASE u = v
    <3>1. settled'[u] = FALSE /\ WritesTo(e, u) /\ Concerns(e, u)
      BY <1>1, <2>6, <2>7, <2>8 DEF WritesTo, Concerns
    <3> QED
      BY <1>3, <2>4, <2>5, <2>6, <2>7, <2>8, <3>1 DEF EditorShows
  <2>9. CASE u # v
    <3>1. Quiet(u)
      BY <1>1, <2>1, <2>7, <2>9 DEF Quiet
    <3>2. ~Concerns(e, u) /\ version'[u] = version[u]
      BY <1>1, <2>6, <2>7, <2>9 DEF Concerns
    <3> QED
      BY <1>3, <2>4, <2>5, <2>6, <2>7, <2>9, <3>1, <3>2 DEF EditorShows
  <2> QED
    BY <2>8, <2>9
<1>13. ASSUME NEW v \in Uris, SaveDoc(v)
       PROVE  EditorShows(u)
  <2> DEFINE e == [method |-> "didSave", uri |-> v]
  <2>1. e \in ClientMsg /\ e.method = "didSave" /\ e.uri = v
    BY DEF ClientMsg
  <2>2. /\ inbox' = Append(inbox, e) /\ docs' = docs /\ options' = options /\ toml' = toml
        /\ UNCHANGED <<isOpen, text, version, synced>> /\ settled' = [settled EXCEPT ![v] = TRUE]
    BY <1>13 DEF SaveDoc, Send, serverVars
  <2> HIDE DEF e
  <2>3. u # v => Quiet(u)
    BY <1>1, <2>2 DEF Quiet
  <2> QED
    BY <1>3, <2>1, <2>2, <2>3 DEF EditorShows, Concerns, WritesTo
<1>14. ASSUME NEW v \in Uris, CloseDoc(v)
       PROVE  EditorShows(u)
  <2> DEFINE e == [method |-> "didClose", uri |-> v]
  <2>1. e \in ClientMsg /\ e.method = "didClose" /\ e.uri = v
    BY DEF ClientMsg
  <2>2. /\ inbox' = Append(inbox, e) /\ docs' = docs /\ options' = options /\ toml' = toml
        /\ UNCHANGED <<text, version, synced>>
        /\ isOpen' = [isOpen EXCEPT ![v] = FALSE] /\ settled' = [settled EXCEPT ![v] = FALSE]
    BY <1>14 DEF CloseDoc, Send, serverVars
  <2> HIDE DEF e
  <2>3. u # v => Quiet(u)
    BY <1>1, <2>2 DEF Quiet
  <2>4. (u = v => isOpen'[u] = FALSE) /\ (u # v => isOpen'[u] = isOpen[u])
    BY <1>1, <2>2
  <2> QED
    BY <1>3, <2>1, <2>2, <2>3, <2>4 DEF EditorShows, Concerns, WritesTo
<1>15. ASSUME NEW v \in Uris, AskFixes(v)
       PROVE  EditorShows(u)
  <2>1. PICK method \in {"codeAction", "hover"} :
          inbox' = Append(inbox, [method |-> method, id |-> NextId, uri |-> v])
    BY <1>15 DEF AskFixes, Ask, Send
  <2>2. [method |-> method, id |-> NextId, uri |-> v] \in ClientMsg
    BY <1>2 DEF ClientMsg
  <2> QED
    BY <1>4, <1>15, <2>1, <2>2 DEF AskFixes, serverVars
<1> QED
  BY <1>5, <1>6, <1>7, <1>8, <1>9, <1>10, <1>11, <1>12, <1>13, <1>14, <1>15 DEF UserActs

LEMMA ReaderShows ==
  ASSUME TypeOK, EditorReads, NEW u \in Uris
  PROVE  EditorShows(u) /\ TextWrites(u)
<1>1. outbox # <<>> => Head(outbox) \in ServerMsg
  BY TailElements DEF TypeOK, ServerTypeOK
<1>2. CASE ReadReply
  <2> DEFINE e == [method |-> "initialized"]
  <2>1. e \in ClientMsg /\ ~Concerns(e, u) /\ ~WritesTo(e, u) /\ e.method = "initialized"
    BY DEF ClientMsg, Concerns, WritesTo
  <2>2. inbox' = inbox \/ inbox' = Append(inbox, e)
    BY <1>2 DEF ReadReply, Send
  <2>3. /\ docs' = docs /\ options' = options /\ toml' = toml
        /\ UNCHANGED <<isOpen, text, version, synced, settled, shown>>
        /\ outbox # <<>> /\ outbox' = Tail(outbox) /\ Head(outbox).type = "reply"
    BY <1>2 DEF ReadReply, serverVars
  <2> HIDE DEF e
  <2>4. Seen(u)' = Seen(u)
    BY <2>3, SeenRead
  <2>5. Quiet(u)
    BY <2>3 DEF Quiet
  <2>6. TextWrites(u)
    BY <2>1, <2>2, <2>3 DEF TextWrites
  <2>7. EditorShows(u)
    BY <2>1, <2>2, <2>3, <2>4, <2>5 DEF EditorShows
  <2> QED
    BY <2>6, <2>7
<1>3. CASE ReadPublish
  <2>1. /\ docs' = docs /\ options' = options /\ toml' = toml /\ inbox' = inbox
        /\ UNCHANGED <<isOpen, text, version, synced, settled>>
        /\ outbox # <<>> /\ outbox' = Tail(outbox) /\ Head(outbox).type = "publish"
        /\ shown' = [shown EXCEPT ![Head(outbox).uri] =
                       [version |-> Head(outbox).version, diags |-> Head(outbox).diags]]
    BY <1>3 DEF ReadPublish, serverVars
  <2>2. Seen(u)' = Seen(u)
    <3>1. IF Head(outbox).type = "publish" /\ Head(outbox).uri = u
            THEN shown'[u] = [version |-> Head(outbox).version, diags |-> Head(outbox).diags]
            ELSE shown'[u] = shown[u]
      BY <1>1, <2>1, ServerMsgFields DEF TypeOK
    <3> QED
      BY <2>1, <3>1, SeenRead
  <2> QED
    BY <2>1, <2>2 DEF EditorShows, Quiet, TextWrites
<1> QED
  BY <1>2, <1>3 DEF EditorReads

-----------------------------------------------------------------------------
(* The handshake *)

LEMMA HelloTail ==
  ASSUME NEW q \in Seq(ClientMsg), q # <<>>
  PROVE  /\ Hellos(q) = {} \/ Len(q) = 1 => Hellos(Tail(q)) = {}
<1>1. /\ Tail(q) \in Seq(ClientMsg) /\ Len(Tail(q)) = Len(q) - 1 /\ Len(q) \in Nat \ {0}
      /\ \A i \in 1..(Len(q) - 1) : Tail(q)[i] = q[i+1]
  BY TailElements
<1>2. DOMAIN q = 1..Len(q) /\ DOMAIN Tail(q) = 1..(Len(q) - 1)
  BY <1>1
<1>3. ASSUME NEW i \in Hellos(Tail(q)) PROVE i + 1 \in Hellos(q) /\ Len(q) # 1
  BY <1>1, <1>2 DEF Hellos
<1> QED
  BY <1>3

LEMMA HelloAppend ==
  ASSUME NEW q \in Seq(ClientMsg), NEW e \in ClientMsg, e.method # "initialize"
  PROVE  Hellos(Append(q, e)) = {} <=> Hellos(q) = {}
<1>1. /\ Append(q, e) \in Seq(ClientMsg) /\ Len(Append(q, e)) = Len(q) + 1 /\ Len(q) \in Nat
      /\ \A i \in 1..Len(q) : Append(q, e)[i] = q[i]
      /\ Append(q, e)[Len(q) + 1] = e
  BY AppendElements
<1>2. DOMAIN q = 1..Len(q) /\ DOMAIN Append(q, e) = 1..(Len(q) + 1)
  BY <1>1
<1>3. \A i : i \in Hellos(Append(q, e)) <=> i \in Hellos(q)
  BY <1>1, <1>2 DEF Hellos
<1> QED
  BY <1>3

LEMMA HelloInit == Init => HelloFirst
<1> SUFFICES ASSUME Init PROVE HelloFirst
  OBVIOUS
<1>1. inbox = <<>> /\ outbox = <<>> /\ phase = "start" /\ \A u \in Uris : ~isOpen[u]
  BY DEF Init, ServerInit
<1>2. Hellos(inbox) = {}
  BY <1>1 DEF Hellos
<1> QED
  BY <1>1, <1>2 DEF HelloFirst

LEMMA HelloStep ==
  ASSUME TypeOK, HelloFirst, [Next]_vars
  PROVE  HelloFirst'
<1>1. inbox \in Seq(ClientMsg) /\ outbox \in Seq(ServerMsg)
  BY DEF TypeOK, ServerTypeOK
<1>2. CASE UNCHANGED <<phase, inbox, outbox, isOpen>>
  BY <1>2 DEF HelloFirst
<1>3. CASE UNCHANGED vars
  BY <1>2, <1>3 DEF vars, wireVars, editorVars
<1>4. CASE ServerNext /\ LeaveLoop
  BY <1>2, <1>4 DEF ServerNext, LeaveLoop, wireVars, editorVars
<1>5. CASE ServerNext /\ ~LeaveLoop
  <2>1. phase' = phase /\ isOpen' = isOpen
    BY <1>5 DEF ServerNext, editorVars
  <2>2. inbox # <<>> /\ inbox' = Tail(inbox)
    BY <1>5 DEF ServerNext, ServerStep, OnInitialize, OnShutdown, OnUnknownRequest, OnCodeAction,
                OnHover, OnIgnoredNotification, OnDidOpen, OnDidChange, OnDidSave, OnDidClose, OnExit, Take
  <2>3. Hellos(inbox) = {} \/ Len(inbox) = 1 => Hellos(inbox') = {}
    BY <1>1, <2>2, HelloTail
  <2> QED
    BY <2>1, <2>2, <2>3 DEF HelloFirst
\* Any message but the first one.
<1>6. ASSUME NEW e \in ClientMsg, e.method # "initialize", inbox' = Append(inbox, e),
             phase \in {"ready", "closing"} \/ (phase = "initializing" /\ outbox # <<>>),
             phase' \in {"ready", "closing", "gone"}
      PROVE  HelloFirst'
  <2>1. Hellos(inbox) = {}
    BY <1>6 DEF HelloFirst
  <2>2. Hellos(inbox') = {}
    BY <1>1, <1>6, <2>1, HelloAppend
  <2> QED
    BY <1>6, <2>2 DEF HelloFirst
<1>7. NextId \in Nat /\ text \in [Uris -> Nat] /\ version \in [Uris -> Nat]
  BY DEF NextId, Bounds, TypeOK
<1>8. CASE ReadReply
  <2>1. [method |-> "initialized"] \in ClientMsg
    BY DEF ClientMsg
  <2>2. CASE phase = "initializing"
    BY <1>6, <1>8, <2>1, <2>2 DEF ReadReply, Send
  <2>3. CASE phase # "initializing"
    BY <1>8, <2>3 DEF ReadReply, HelloFirst
  <2> QED
    BY <2>2, <2>3
<1>9. CASE ReadPublish
  BY <1>9 DEF ReadPublish, HelloFirst
<1>10. CASE StartSession
  <2>1. PICK o \in OptionSets : inbox' = Append(inbox, [method |-> "initialize", id |-> NextId, options |-> o])
    BY <1>10 DEF StartSession, Ask, Send
  <2>2. [method |-> "initialize", id |-> NextId, options |-> o] \in ClientMsg
    BY <1>7 DEF ClientMsg
  <2>3. /\ phase = "start" /\ phase' = "initializing" /\ inbox = <<>> /\ outbox' = <<>>
        /\ isOpen' = isOpen /\ \A u \in Uris : ~isOpen[u]
    BY <1>10 DEF StartSession, HelloFirst
  <2>4. Len(inbox') = 1
    BY <2>1, <2>3
  <2> QED
    BY <2>3, <2>4 DEF HelloFirst
<1>11. CASE AskUnknown
  <2>1. [method |-> "unknown", id |-> NextId] \in ClientMsg
    BY <1>7 DEF ClientMsg
  <2> QED
    BY <1>6, <1>11, <2>1 DEF AskUnknown, Ask, Send
<1>12. CASE EditToml
  <2>1. [method |-> "didChangeConfiguration"] \in ClientMsg
    BY DEF ClientMsg
  <2> QED
    BY <1>6, <1>12, <2>1 DEF EditToml, Send
<1>13. CASE AskShutdown
  <2>1. [method |-> "shutdown", id |-> NextId] \in ClientMsg
    BY <1>7 DEF ClientMsg
  <2> QED
    BY <1>6, <1>13, <2>1 DEF AskShutdown, Ask, Send
<1>14. CASE SendExit
  <2>1. [method |-> "exit"] \in ClientMsg
    BY DEF ClientMsg
  <2> QED
    BY <1>6, <1>14, <2>1 DEF SendExit, Send
<1>15. CASE Vanish
  BY <1>15 DEF Vanish, HelloFirst
<1>16. ASSUME NEW v \in Uris, OpenDoc(v)
       PROVE  HelloFirst'
  <2>1. [method |-> "didOpen", uri |-> v, version |-> 1, text |-> text[v]] \in ClientMsg
    BY <1>7 DEF ClientMsg
  <2> QED
    BY <1>6, <1>16, <2>1 DEF OpenDoc, Send
<1>17. ASSUME NEW v \in Uris, EditDoc(v)
       PROVE  HelloFirst'
  <2>1. PICK batch :
          /\ batch \in Batches(v) \/ batch = WholeText(v)
          /\ Send([method |-> "didChange", uri |-> v, version |-> version[v] + 1, changes |-> batch])
    BY <1>17, Zenon DEF EditDoc
  <2> DEFINE e == [method |-> "didChange", uri |-> v, version |-> version[v] + 1, changes |-> batch]
  <2>2. batch \in Seq(Change) /\ version[v] + 1 \in Nat
    BY <1>7, <2>1, BatchType
  <2>3. e \in ClientMsg /\ e.method # "initialize"
    BY <2>2, Zenon DEF ClientMsg
  <2>4. inbox' = Append(inbox, e) /\ phase = "ready" /\ phase' = "ready"
    BY <1>17, <2>1 DEF EditDoc, Send
  <2> HIDE DEF e
  <2> QED
    BY <1>6, <2>3, <2>4
<1>18. ASSUME NEW v \in Uris, SaveDoc(v)
       PROVE  HelloFirst'
  <2>1. [method |-> "didSave", uri |-> v] \in ClientMsg
    BY DEF ClientMsg
  <2> QED
    BY <1>6, <1>18, <2>1 DEF SaveDoc, Send
<1>19. ASSUME NEW v \in Uris, CloseDoc(v)
       PROVE  HelloFirst'
  <2>1. [method |-> "didClose", uri |-> v] \in ClientMsg
    BY DEF ClientMsg
  <2> QED
    BY <1>6, <1>19, <2>1 DEF CloseDoc, Send
<1>20. ASSUME NEW v \in Uris, AskFixes(v)
       PROVE  HelloFirst'
  <2>1. PICK method \in {"codeAction", "hover"} :
          inbox' = Append(inbox, [method |-> method, id |-> NextId, uri |-> v])
    BY <1>20 DEF AskFixes, Ask, Send
  <2>2. [method |-> method, id |-> NextId, uri |-> v] \in ClientMsg
    BY <1>7 DEF ClientMsg
  <2> QED
    BY <1>6, <1>20, <2>1, <2>2 DEF AskFixes
<1> QED
  BY <1>3, <1>4, <1>5, <1>8, <1>9, <1>10, <1>11, <1>12, <1>13, <1>14, <1>15, <1>16, <1>17, <1>18,
     <1>19, <1>20 DEF Next, EditorReads, UserActs

\* Only initialize changes the options, and no handler writes the .toml.
LEMMA OptionsStay ==
  ASSUME TypeOK, HelloFirst, ServerNext, NEW u \in Uris
  PROVE  toml' = toml /\ (isOpen[u] => options' = options)
<1>1. CASE OnInitialize
  <2>1. inbox # <<>> /\ Head(inbox).method = "initialize" /\ toml' = toml
    BY <1>1 DEF OnInitialize, Take
  <2>2. 1 \in Hellos(inbox)
    <3>1. inbox \in Seq(ClientMsg)
      BY DEF TypeOK, ServerTypeOK
    <3>2. inbox[1] = Head(inbox) /\ Len(inbox) \in Nat \ {0} /\ DOMAIN inbox = 1..Len(inbox)
      BY <2>1, <3>1, TailElements
    <3> QED
      BY <2>1, <3>2 DEF Hellos
  <2> QED
    BY <2>1, <2>2 DEF HelloFirst
<1>2. CASE ~OnInitialize
  BY <1>2 DEF ServerNext, ServerStep, OnShutdown, OnUnknownRequest, OnCodeAction, OnHover,
         OnIgnoredNotification, OnDidOpen, OnDidChange, OnDidSave, OnDidClose, OnExit, LeaveLoop,
         Take, AnswerFromView, ReplyThrows, serverVars
<1> QED
  BY <1>1, <1>2

-----------------------------------------------------------------------------
(* The theorems *)

Base == TypeOK /\ NotesFitRegistry /\ OpenSetAgrees /\ \A u \in Uris : Follows(u)

DisplayInv ==
  Base /\ HelloFirst /\ \A u \in Uris : Ordered(u) /\ Named(u) /\ Settles(u)

LEMMA DisplayInit == Init => DisplayInv
<1> SUFFICES ASSUME Init PROVE DisplayInv
  OBVIOUS
<1>1. TypeOK /\ NotesFitRegistry /\ OpenSetAgrees /\ HelloFirst /\ \A u \in Uris : Follows(u)
  BY TypeInit, InvariantInit, FollowsInit, HelloInit
<1>2. ASSUME NEW u \in Uris PROVE Ordered(u) /\ Named(u) /\ Settles(u)
  <2>1. /\ Edits(u) = {} /\ AboutOut(u) = {} /\ AboutIn(u) = {} /\ ~isOpen[u] /\ docs[u] = NoDoc
        /\ shown[u].version = 0
    BY DEF Init, ServerInit, Edits, AboutOut, PublishesOn, AboutIn, NotesOn
  <2> QED
    BY <2>1 DEF Ordered, VersionsRise, FirstIsNewer, NoneAhead, Named, NotAhead, LevelIsRight,
                Settles, LastNoteRefreshes, FreshOnceRead, Seen
<1> QED
  BY <1>1, <1>2 DEF DisplayInv, Base

LEMMA DisplayStep ==
  ASSUME DisplayInv, [Next]_vars
  PROVE  DisplayInv'
<1>1. TypeOK' /\ NotesFitRegistry' /\ OpenSetAgrees' /\ HelloFirst'
  BY TypeStep, InvariantStep, HelloStep DEF DisplayInv, Base
<1>2. ASSUME NEW u \in Uris PROVE Follows(u)' /\ Ordered(u)' /\ Named(u)' /\ Settles(u)'
  <2>1. TypeOK /\ HelloFirst /\ Agrees(u) /\ Follows(u) /\ Ordered(u) /\ Named(u) /\ Settles(u)
    BY InvariantByDocument DEF DisplayInv, Base
  <2>2. Follows(u)'
    BY FollowsStep DEF DisplayInv, Base
  <2>3. CASE UNCHANGED <<docs, options, toml, inbox, outbox, isOpen, text, version, shown, synced, settled>>
    <3>1. Seen(u)' = Seen(u)
      BY <2>1, <2>3, SeenStays DEF Silent
    <3>2. TextWrites(u)
      BY <2>3 DEF TextWrites
    <3>3. EditorShows(u)
      BY <2>3, <3>1 DEF EditorShows, Quiet
    <3> QED
      BY <2>1, <2>2, <3>2, <3>3, WritingKeepsOrdered, WritingKeepsNamed, WritingKeepsSettles
  <2>4. CASE UNCHANGED vars
    BY <2>3, <2>4 DEF vars, serverVars, wireVars, editorVars
  <2>5. CASE ServerNext /\ LeaveLoop
    BY <2>3, <2>5 DEF ServerNext, LeaveLoop, wireVars, editorVars
  <2>6. CASE ServerNext /\ ~LeaveLoop
    <3>1. ServerShows(u) /\ TextReads(u)
      BY <2>1, <2>6, ServerReadsShows, ServerReadsText
    <3>2. toml' = toml /\ (isOpen[u] => options' = options)
      BY <2>1, <2>6, OptionsStay
    <3> QED
      BY <1>1, <2>1, <2>2, <3>1, <3>2, ReadingKeepsOrdered, ReadingKeepsNamed, ReadingKeepsSettles
  <2>7. CASE EditorReads
    <3>1. EditorShows(u) /\ TextWrites(u)
      BY <2>1, <2>7, ReaderShows
    <3> QED
      BY <2>1, <2>2, <3>1, WritingKeepsOrdered, WritingKeepsNamed, WritingKeepsSettles
  <2>8. CASE UserActs
    <3>1. EditorShows(u) /\ TextWrites(u)
      BY <2>1, <2>8, UserShows, UserWritesText
    <3> QED
      BY <2>1, <2>2, <3>1, WritingKeepsOrdered, WritingKeepsNamed, WritingKeepsSettles
  <2> QED
    BY <2>4, <2>5, <2>6, <2>7, <2>8 DEF Next
<1> QED
  BY <1>1, <1>2 DEF DisplayInv, Base

\* lint_and_publish reads doc->version and doc->contents together: when the version on
\* display is the editor's, the diagnostics are those of the editor's text.
THEOREM VersionsNameTheirText == Spec => []VersionNamesText
<1>1. DisplayInv => VersionNamesText
  <2> SUFFICES ASSUME DisplayInv, NEW u \in Uris, isOpen[u], synced[u], AboutIn(u) = {},
                      AboutOut(u) = {}, shown[u].version = version[u]
               PROVE  shown[u].diags.text = text[u]
    BY DEF VersionNamesText
  <2>1. Edits(u) = {}
    BY DEF Edits, WritesTo, AboutIn, NotesOn, Concerns
  <2>2. docs[u].contents = text[u] /\ docs[u].version = version[u] /\ docs[u] # NoDoc
    BY <2>1 DEF DisplayInv, Base, Follows, InStep, Ordered, NoneAhead
  <2>3. Seen(u) = shown[u]
    BY DEF Seen
  <2> QED
    BY <2>1, <2>2, <2>3 DEF DisplayInv, Named, LevelIsRight
<1> QED
  BY <1>1, DisplayInit, DisplayStep, PTL DEF Spec

\* on_did_open and on_did_save lint at once: with the pipes drained and nothing changed since,
\* what is on display is the lint of the editor's text under the configuration on disk.
THEOREM SavesAreFresh == Spec => []SavedIsFresh
<1>1. DisplayInv => SavedIsFresh
  <2> SUFFICES ASSUME DisplayInv, NEW u \in Uris, isOpen[u], settled[u], synced[u],
                      AboutIn(u) = {}, AboutOut(u) = {}
               PROVE  shown[u] = [version |-> version[u], diags |-> LintOf(text[u])]
    BY DEF SavedIsFresh
  <2>1. Seen(u) = [version |-> version[u], diags |-> LintOf(text[u])]
    BY DEF DisplayInv, Settles, FreshOnceRead
  <2>2. Seen(u) = shown[u]
    BY DEF Seen
  <2> QED
    BY <2>1, <2>2
<1> QED
  BY <1>1, DisplayInit, DisplayStep, PTL DEF Spec
=============================================================================
