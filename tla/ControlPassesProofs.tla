-------------------------- MODULE ControlPassesProofs --------------------------
(***************************************************************************)
(* Theorems about ControlPasses, for every graph and every tables.         *)
(*                                                                         *)
(* The search leaves an order in which a block comes after each block that *)
(* dominates it but itself (DfsInv, SearchDone).  During the sweeps the    *)
(* parents form a tree along that order, and whatever dominates a block    *)
(* and is not the block dominates its parent (Tree); intersect finds the   *)
(* meet of two blocks in that tree (IntersectMeets).  A sweep without a    *)
(* change leaves every parent at the meet of the predecessors (Settled),   *)
(* and with that nothing but dominators is above a block                   *)
(* (ClimbsAreDominators).  The sets of the liveness sweeps grow with every *)
(* sweep but the last (LiveInv).                                           *)
(***************************************************************************)
EXTENDS ControlPasses, ReachabilityProofs

-----------------------------------------------------------------------------
(* The graph, and what is reached in it without a block *)

LEMMA ToSetOf ==
  ASSUME NEW S, NEW s \in Seq(S)
  PROVE  /\ ToSet(s) \subseteq S
         /\ \A x : x \in ToSet(s) <=> \E i \in DOMAIN s : s[i] = x
BY DEF ToSet

LEMMA GraphFacts ==
  ASSUME GraphOK
  PROVE  /\ Len(cfg.blocks) \in Nat \ {0} /\ Blocks = 1 .. Len(cfg.blocks)
         /\ Entry \in Blocks /\ Undefined \notin Blocks /\ Blocks \subseteq Nat
         /\ IsFiniteSet(Blocks) /\ Cardinality(Blocks) = Len(cfg.blocks)
         /\ \A b \in Blocks : Succ(b) \in Seq(Blocks) /\ ToSet(Succ(b)) \subseteq Blocks
<1>1. Len(cfg.blocks) \in Nat \ {0} /\ Blocks = 1 .. Len(cfg.blocks)
  BY DEF GraphOK, Blocks
<1>2. IsFiniteSet(Blocks) /\ Cardinality(Blocks) = Len(cfg.blocks)
  BY <1>1, FS_Interval
<1>3. \A b \in Blocks : Succ(b) \in Seq(Blocks)
  <2> DEFINE Record == [lo : Nat, hi : Nat, succ : Seq(Blocks), exit : BOOLEAN,
                        contains_barrier : BOOLEAN, contains_discard : BOOLEAN]
  <2>1. cfg.blocks \in Seq(Record)
    BY DEF GraphOK
  <2>2. \A b \in Blocks : cfg.blocks[b] \in Record
    <3> HIDE DEF Record
    <3> QED
      BY <2>1 DEF Blocks
  <2> QED
    BY <2>2 DEF Succ
<1> QED
  BY <1>1, <1>2, <1>3, ToSetOf DEF Entry, Undefined

Avoiding(a) == Reach([b \in Blocks |-> ToSet(Succ(b)) \ {a}], {Entry} \ {a})

LEMMA AvoidingFacts ==
  ASSUME GraphOK, NEW a
  PROVE  /\ Avoiding(a) \subseteq Blocks /\ a \notin Avoiding(a)
         /\ a # Entry => Entry \in Avoiding(a)
         /\ \A b \in Avoiding(a) : ToSet(Succ(b)) \ {a} \subseteq Avoiding(a)
         /\ \A C \in SUBSET Blocks :
              {Entry} \ {a} \subseteq C /\ (\A b \in C : ToSet(Succ(b)) \ {a} \subseteq C)
                => Avoiding(a) \subseteq C
<1> DEFINE next == [b \in Blocks |-> ToSet(Succ(b)) \ {a}]
<1>1. /\ DOMAIN next = Blocks /\ \A b \in Blocks : next[b] = ToSet(Succ(b)) \ {a}
      /\ {Entry} \ {a} \in SUBSET Blocks /\ IsFiniteSet(Blocks)
      /\ \A b \in Blocks : next[b] \subseteq Blocks
  BY GraphFacts
<1>2. Avoiding(a) = Reach(next, {Entry} \ {a})
  BY DEF Avoiding
<1> HIDE DEF next
<1>3. /\ {Entry} \ {a} \subseteq Avoiding(a) /\ Avoiding(a) \subseteq Blocks
      /\ Closed(Avoiding(a), next)
      /\ \A C \in SUBSET Blocks : {Entry} \ {a} \subseteq C /\ Closed(C, next) => Avoiding(a) \subseteq C
  BY <1>1, <1>2, ReachIsLeast
<1>4. \A C \in SUBSET Blocks : Closed(C, next) <=> \A b \in C : ToSet(Succ(b)) \ {a} \subseteq C
  BY <1>1 DEF Closed
<1>5. Closed(Blocks \ {a}, next)
  BY <1>1, <1>4
<1>6. a \notin Avoiding(a)
  BY <1>1, <1>3, <1>5
<1> QED
  BY <1>3, <1>4, <1>6

LEMMA SameGraph ==
  ASSUME cfg' = cfg
  PROVE  /\ Blocks' = Blocks /\ GraphOK' = GraphOK
         /\ \A b : Succ(b)' = Succ(b)
         /\ \A a : Avoiding(a)' = Avoiding(a)
BY DEF Blocks, GraphOK, Succ, Avoiding

-----------------------------------------------------------------------------
(* The search *)

Frames == [block : Blocks, next : Nat \ {0}]
OnStack == {stack[i].block : i \in DOMAIN stack}
Finished == {order[k] : k \in DOMAIN order}

\* Every block seen is on the stack or finished, and that once.
Distinct ==
  /\ \A i, j \in DOMAIN stack : stack[i].block = stack[j].block => i = j
  /\ \A i, j \in DOMAIN order : order[i] = order[j] => i = j
  /\ OnStack \cap Finished = {}
  /\ seen = OnStack \cup Finished

\* What a finished block leads to was seen, and so was what a frame has tried.
Explored ==
  /\ \A b \in Finished : ToSet(Succ(b)) \subseteq seen
  /\ \A i \in DOMAIN stack :
       /\ stack[i].next <= Len(Succ(stack[i].block)) + 1
       /\ \A j \in 1 .. stack[i].next - 1 : Succ(stack[i].block)[j] \in seen

\* The stack is a path from the entry.  But for the entry, which finishes last, a
\* finished block is led to by one that finishes later.
TreeParents ==
  /\ \A i \in DOMAIN stack :
       IF i = 1 THEN stack[i].block = Entry
       ELSE stack[i].block \in ToSet(Succ(stack[i - 1].block))
  /\ stack = <<>> => order # <<>> /\ order[Len(order)] = Entry
  /\ \A k \in DOMAIN order : order[k] = Entry \/
       \E p \in OnStack \cup {order[l] : l \in k + 1 .. Len(order)} : order[k] \in ToSet(Succ(p))

\* A block that is not below a frame does not dominate it, and a block that neither is on
\* the stack nor finished later does not dominate a finished one.
PathsKnown ==
  /\ seen \subseteq Avoiding(0)
  /\ \A i \in DOMAIN stack, a \in Blocks :
       (\A j \in 1 .. i : stack[j].block # a) => stack[i].block \in Avoiding(a)
  /\ \A k \in DOMAIN order, a \in Blocks :
       a \notin OnStack /\ (\A l \in k .. Len(order) : order[l] # a) => order[k] \in Avoiding(a)

DfsInv == Distinct /\ Explored /\ TreeParents /\ PathsKnown

LEMMA TryEffect ==
  ASSUME GraphOK, DomTypeOK, DfsTry, NEW n, n = Len(stack)
  PROVE  \E x \in ToSet(Succ(stack[n].block)) :
           /\ n \in Nat \ {0} /\ DOMAIN stack = 1 .. n
           /\ \A i \in 1 .. n : stack[i] \in Frames
           /\ stack[n].next <= Len(Succ(stack[n].block))
           /\ x = Succ(stack[n].block)[stack[n].next] /\ x \in Blocks
           /\ stack' \in Seq(Frames)
           /\ DOMAIN stack' = 1 .. IF x \in seen THEN n ELSE n + 1
           /\ \A i \in 1 .. n - 1 : stack'[i] = stack[i]
           /\ stack'[n] = [block |-> stack[n].block, next |-> stack[n].next + 1]
           /\ x \notin seen => stack'[n + 1] = [block |-> x, next |-> 1]
           /\ seen' = seen \cup {x}
           /\ UNCHANGED <<cfg, pc, order, idom, at, changed>>
<1> DEFINE x == Succ(stack[n].block)[stack[n].next]
           top == [block |-> stack[n].block, next |-> stack[n].next + 1]
           rest == Append(SubSeq(stack, 1, n - 1), top)
<1>1. stack \in Seq(Frames)
  BY DEF DomTypeOK, Frames
<1>2. n \in Nat \ {0} /\ DOMAIN stack = 1 .. n /\ \A i \in 1 .. n : stack[i] \in Frames
  BY <1>1 DEF DfsTry
<1>3. Last(stack) = stack[n] /\ Front(stack) = SubSeq(stack, 1, n - 1)
  BY <1>2 DEF Last, Front
<1>4. stack[n].block \in Blocks /\ stack[n].next \in Nat \ {0}
  BY <1>2 DEF Frames
<1>5. Succ(stack[n].block) \in Seq(Blocks)
  BY <1>4, GraphFacts
<1>6. stack[n].next <= Len(Succ(stack[n].block))
  BY <1>3 DEF DfsTry
<1>7. x \in ToSet(Succ(stack[n].block)) /\ x \in Blocks
  BY <1>4, <1>5, <1>6, ToSetOf
<1>8. top \in Frames /\ [stack[n] EXCEPT !.next = @ + 1] = top /\ Frame(x) \in Frames
      /\ Frame(x) = [block |-> x, next |-> 1]
  BY <1>2, <1>4, <1>7 DEF Frames, Frame
<1>9. /\ rest \in Seq(Frames) /\ Len(rest) = n /\ DOMAIN rest = 1 .. n
      /\ \A i \in 1 .. n - 1 : rest[i] = stack[i]
      /\ rest[n] = top
  <2> HIDE DEF top
  <2>1. SubSeq(stack, 1, n - 1) \in Seq(Frames) /\ Len(SubSeq(stack, 1, n - 1)) = n - 1
        /\ \A i \in 1 .. n - 1 : SubSeq(stack, 1, n - 1)[i] = stack[i]
    BY <1>1, <1>2
  <2> QED
    BY <1>2, <1>8, <2>1
<1>10. /\ stack' = IF x \in seen THEN rest ELSE Append(rest, Frame(x))
       /\ seen' = seen \cup {x}
       /\ UNCHANGED <<cfg, pc, order, idom, at, changed>>
  BY <1>3, <1>8 DEF DfsTry
<1> HIDE DEF x, top, rest
<1>11. CASE x \in seen
  BY <1>2, <1>6, <1>7, <1>9, <1>10, <1>11 DEF x, top
<1>12. CASE x \notin seen
  <2>1. Append(rest, Frame(x)) \in Seq(Frames) /\ DOMAIN Append(rest, Frame(x)) = 1 .. n + 1
        /\ \A i \in 1 .. n : Append(rest, Frame(x))[i] = rest[i]
        /\ Append(rest, Frame(x))[n + 1] = Frame(x)
    BY <1>2, <1>8, <1>9
  <2> QED
    BY <1>2, <1>6, <1>7, <1>8, <1>9, <1>10, <1>12, <2>1 DEF x, top
<1> QED
  BY <1>11, <1>12

LEMMA FinishEffect ==
  ASSUME GraphOK, DomTypeOK, DfsFinish, NEW n, n = Len(stack), NEW m, m = Len(order)
  PROVE  /\ n \in Nat \ {0} /\ DOMAIN stack = 1 .. n
         /\ \A i \in 1 .. n : stack[i] \in Frames
         /\ stack[n].next > Len(Succ(stack[n].block))
         /\ stack' \in Seq(Frames) /\ DOMAIN stack' = 1 .. n - 1
         /\ \A i \in 1 .. n - 1 : stack'[i] = stack[i]
         /\ m \in Nat /\ DOMAIN order = 1 .. m /\ m + 1 \in 1 .. m + 1
         /\ order' \in Seq(Blocks) /\ DOMAIN order' = 1 .. m + 1 /\ Len(order') = m + 1
         /\ \A k \in 1 .. m : order'[k] = order[k]
         /\ order'[m + 1] = stack[n].block
         /\ UNCHANGED <<cfg, pc, seen, idom, at, changed>>
<1>1. stack \in Seq(Frames) /\ order \in Seq(Blocks)
  BY DEF DomTypeOK, Frames
<1>2. n \in Nat \ {0} /\ DOMAIN stack = 1 .. n /\ \A i \in 1 .. n : stack[i] \in Frames
  BY <1>1 DEF DfsFinish
<1>3. Last(stack) = stack[n] /\ Front(stack) = SubSeq(stack, 1, n - 1)
  BY <1>2 DEF Last, Front
<1>4. stack[n].block \in Blocks
  BY <1>2 DEF Frames
<1>5. SubSeq(stack, 1, n - 1) \in Seq(Frames) /\ Len(SubSeq(stack, 1, n - 1)) = n - 1
      /\ \A i \in 1 .. n - 1 : SubSeq(stack, 1, n - 1)[i] = stack[i]
  BY <1>1, <1>2
<1>6. /\ stack' = SubSeq(stack, 1, n - 1) /\ order' = Append(order, stack[n].block)
      /\ stack[n].next > Len(Succ(stack[n].block))
      /\ UNCHANGED <<cfg, pc, seen, idom, at, changed>>
  BY <1>3 DEF DfsFinish
<1>7. /\ m \in Nat /\ DOMAIN order = 1 .. m /\ m + 1 \in 1 .. m + 1
      /\ order' \in Seq(Blocks) /\ DOMAIN order' = 1 .. m + 1 /\ Len(order') = m + 1
      /\ \A k \in 1 .. m : order'[k] = order[k]
      /\ order'[m + 1] = stack[n].block
  BY <1>1, <1>4, <1>6
<1>8. stack' \in Seq(Frames) /\ DOMAIN stack' = 1 .. n - 1
      /\ \A i \in 1 .. n - 1 : stack'[i] = stack[i]
  BY <1>2, <1>5, <1>6
<1> QED
  BY <1>2, <1>6, <1>7, <1>8

LEMMA TryKeepsDfsInv ==
  ASSUME GraphOK, DomTypeOK, Distinct, Explored, TreeParents, PathsKnown, DfsTry
  PROVE  DfsInv'
<1> DEFINE n == Len(stack)
<1>1. PICK x \in ToSet(Succ(stack[n].block)) :
           /\ n \in Nat \ {0} /\ DOMAIN stack = 1 .. n
           /\ \A i \in 1 .. n : stack[i] \in Frames
           /\ stack[n].next <= Len(Succ(stack[n].block))
           /\ x = Succ(stack[n].block)[stack[n].next] /\ x \in Blocks
           /\ stack' \in Seq(Frames)
           /\ DOMAIN stack' = 1 .. IF x \in seen THEN n ELSE n + 1
           /\ \A i \in 1 .. n - 1 : stack'[i] = stack[i]
           /\ stack'[n] = [block |-> stack[n].block, next |-> stack[n].next + 1]
           /\ x \notin seen => stack'[n + 1] = [block |-> x, next |-> 1]
           /\ seen' = seen \cup {x}
           /\ UNCHANGED <<cfg, pc, order, idom, at, changed>>
  BY TryEffect
<1>2. \A b : Succ(b)' = Succ(b)
  BY <1>1, SameGraph
<1>3. Blocks' = Blocks /\ \A a : Avoiding(a)' = Avoiding(a)
  BY <1>1, SameGraph
<1> HIDE DEF n
<1>4. \A i \in 1 .. n : stack'[i].block = stack[i].block
  BY <1>1
<1>5. OnStack = {stack[i].block : i \in 1 .. n}
      /\ OnStack' = IF x \in seen THEN OnStack ELSE OnStack \cup {x}
  <2>1. OnStack = {stack[i].block : i \in 1 .. n} /\ OnStack' = {stack'[i].block : i \in DOMAIN stack'}
    BY <1>1 DEF OnStack
  <2>2. CASE x \in seen
    BY <1>1, <1>4, <2>1, <2>2
  <2>3. CASE x \notin seen
    <3>1. DOMAIN stack' = 1 .. n + 1 /\ stack'[n + 1].block = x
      BY <1>1, <2>3
    <3> QED
      BY <1>1, <1>4, <2>1, <2>3, <3>1
  <2> QED
    BY <2>2, <2>3
<1>6. Finished' = Finished
  BY <1>1 DEF Finished
<1>7. Distinct'
  <2>1. ASSUME NEW i \in DOMAIN stack', NEW j \in DOMAIN stack',
               stack'[i].block = stack'[j].block
        PROVE  i = j
    <3>1. CASE i \in 1 .. n /\ j \in 1 .. n
      BY <1>1, <1>4, <2>1, <3>1 DEF Distinct
    <3>2. CASE x \notin seen /\ (i = n + 1 \/ j = n + 1)
      <4>1. \A k \in 1 .. n : stack[k].block # x
        BY <1>5, <3>2 DEF Distinct
      <4> QED
        BY <1>1, <1>4, <2>1, <3>2, <4>1
    <3> QED
      BY <1>1, <3>1, <3>2
  <2> QED
    BY <1>1, <1>5, <1>6, <2>1 DEF Distinct
<1>8. Explored'
  <2>1. \A b \in Finished : ToSet(Succ(b)) \subseteq seen'
    BY <1>1 DEF Explored
  <2>2. ASSUME NEW i \in DOMAIN stack'
        PROVE  /\ stack'[i].next <= Len(Succ(stack'[i].block)) + 1
               /\ \A j \in 1 .. stack'[i].next - 1 : Succ(stack'[i].block)[j] \in seen'
    <3>1. CASE i \in 1 .. n - 1
      BY <1>1, <3>1 DEF Explored
    <3>2. CASE i = n
      <4>1. stack[n] \in Frames /\ n \in DOMAIN stack
        BY <1>1
      <4>2. Succ(stack[n].block) \in Seq(Blocks)
        BY <4>1, GraphFacts DEF Frames
      <4>3. stack'[n].next = stack[n].next + 1 /\ stack'[n].block = stack[n].block
        BY <1>1
      <4>4. stack'[n].next <= Len(Succ(stack'[n].block)) + 1
        BY <1>1, <4>1, <4>2, <4>3 DEF Frames
      <4>5. \A j \in 1 .. stack[n].next : j \in 1 .. stack[n].next - 1 \/ j = stack[n].next
        BY <4>1 DEF Frames
      <4>6. \A j \in 1 .. stack[n].next : Succ(stack[n].block)[j] \in seen'
        BY <1>1, <4>1, <4>5 DEF Explored
      <4> QED
        BY <3>2, <4>1, <4>3, <4>4, <4>6 DEF Frames
    <3>3. CASE x \notin seen /\ i = n + 1
      <4>1. stack'[i].next = 1 /\ stack'[i].block = x /\ Succ(x) \in Seq(Blocks)
        BY <1>1, <3>3, GraphFacts
      <4> QED
        BY <4>1
    <3> QED
      BY <1>1, <3>1, <3>2, <3>3
  <2> QED
    BY <1>2, <1>6, <2>1, <2>2 DEF Explored
<1>9. TreeParents'
  <2>1. ASSUME NEW i \in DOMAIN stack'
        PROVE  IF i = 1 THEN stack'[i].block = Entry
               ELSE stack'[i].block \in ToSet(Succ(stack'[i - 1].block))
    <3>1. CASE i \in 1 .. n
      <4>1. i = 1 \/ i - 1 \in 1 .. n
        BY <1>1, <3>1
      <4> QED
        BY <1>1, <1>4, <3>1, <4>1 DEF TreeParents
    <3>2. CASE x \notin seen /\ i = n + 1
      <4>1. i # 1 /\ i - 1 = n /\ stack'[i].block = x /\ stack'[n].block = stack[n].block
        BY <1>1, <3>2
      <4> QED
        BY <1>1, <4>1
    <3> QED
      BY <1>1, <3>1, <3>2
  <2>2. stack' # <<>>
    BY <1>1
  <2>3. \A k \in DOMAIN order : order[k] = Entry \/
          \E p \in OnStack' \cup {order[l] : l \in k + 1 .. Len(order)} : order[k] \in ToSet(Succ(p))
    BY <1>5 DEF TreeParents
  <2> QED
    BY <1>1, <1>2, <2>1, <2>2, <2>3 DEF TreeParents
<1>10. PathsKnown'
  <2>1. seen' \subseteq Avoiding(0)
    <3>1. stack[n].block \in seen
      BY <1>1, <1>5 DEF Distinct
    <3>2. stack[n].block \in Avoiding(0) /\ x # 0
      BY <1>1, <3>1, GraphFacts DEF PathsKnown, Undefined
    <3> QED
      BY <1>1, <3>2, AvoidingFacts DEF PathsKnown
  <2>2. ASSUME NEW i \in DOMAIN stack', NEW a \in Blocks, \A j \in 1 .. i : stack'[j].block # a
        PROVE  stack'[i].block \in Avoiding(a)
    <3>1. CASE i \in 1 .. n
      BY <1>1, <1>4, <2>2, <3>1 DEF PathsKnown
    <3>2. CASE x \notin seen /\ i = n + 1
      <4>1. \A j \in 1 .. n : stack[j].block # a
        BY <1>1, <1>4, <2>2, <3>2
      <4>2. stack[n].block \in Avoiding(a)
        BY <1>1, <4>1 DEF PathsKnown
      <4>3. stack'[i].block = x /\ x # a
        BY <1>1, <2>2, <3>2
      <4> QED
        BY <1>1, <4>2, <4>3, AvoidingFacts
    <3> QED
      BY <1>1, <3>1, <3>2
  <2>3. \A k \in DOMAIN order, a \in Blocks :
          a \notin OnStack' /\ (\A l \in k .. Len(order) : order[l] # a) => order[k] \in Avoiding(a)
    BY <1>5 DEF PathsKnown
  <2> QED
    BY <1>1, <1>3, <2>1, <2>2, <2>3 DEF PathsKnown
<1> QED
  BY <1>7, <1>8, <1>9, <1>10 DEF DfsInv

LEMMA FinishKeepsDfsInv ==
  ASSUME GraphOK, DomTypeOK, DfsInv, DfsFinish
  PROVE  DfsInv'
<1> DEFINE n == Len(stack)
           m == Len(order)
           q == stack[n].block
<1>1. /\ n \in Nat \ {0} /\ DOMAIN stack = 1 .. n
      /\ \A i \in 1 .. n : stack[i] \in Frames
      /\ stack[n].next > Len(Succ(stack[n].block))
      /\ stack' \in Seq(Frames) /\ DOMAIN stack' = 1 .. n - 1
      /\ \A i \in 1 .. n - 1 : stack'[i] = stack[i]
      /\ m \in Nat /\ DOMAIN order = 1 .. m /\ m + 1 \in 1 .. m + 1
      /\ order' \in Seq(Blocks) /\ DOMAIN order' = 1 .. m + 1 /\ Len(order') = m + 1
      /\ \A k \in 1 .. m : order'[k] = order[k]
      /\ order'[m + 1] = stack[n].block
      /\ UNCHANGED <<cfg, pc, seen, idom, at, changed>>
  BY FinishEffect
<1>2. \A b : Succ(b)' = Succ(b)
  BY <1>1, SameGraph
<1>3. Blocks' = Blocks /\ \A a : Avoiding(a)' = Avoiding(a)
  BY <1>1, SameGraph
<1>4. q \in Blocks /\ n \in DOMAIN stack
  BY <1>1 DEF Frames
<1> HIDE DEF n, m
<1>5. OnStack = {stack[i].block : i \in 1 .. n} /\ OnStack' = {stack[i].block : i \in 1 .. n - 1}
  BY <1>1 DEF OnStack
<1>6. OnStack = OnStack' \cup {q} /\ q \notin OnStack'
  <2>1. \A i \in 1 .. n - 1 : stack[i].block # q
    BY <1>1, <1>4 DEF DfsInv, Distinct
  <2>2. 1 .. n = (1 .. n - 1) \cup {n}
    BY <1>1
  <2> QED
    BY <1>5, <2>1, <2>2
<1>7. Finished' = Finished \cup {q} /\ q \notin Finished
  <2>1. Finished = {order[k] : k \in 1 .. m} /\ Finished' = {order'[k] : k \in 1 .. m + 1}
    BY <1>1 DEF Finished
  <2>2. 1 .. m + 1 = (1 .. m) \cup {m + 1}
    BY <1>1
  <2>3. Finished' = Finished \cup {q}
    BY <1>1, <2>1, <2>2
  <2> QED
    BY <1>6, <2>3 DEF DfsInv, Distinct
<1>8. Distinct'
  <2>1. ASSUME NEW i \in DOMAIN order', NEW j \in DOMAIN order', order'[i] = order'[j]
        PROVE  i = j
    <3>1. \A k \in 1 .. m : order[k] # q /\ order'[k] = order[k]
      BY <1>1, <1>7 DEF Finished
    <3>2. i \in 1 .. m \/ i = m + 1
      BY <1>1
    <3>3. j \in 1 .. m \/ j = m + 1
      BY <1>1
    <3> QED
      BY <1>1, <2>1, <3>1, <3>2, <3>3 DEF DfsInv, Distinct
  <2>2. \A i, j \in DOMAIN stack' : stack'[i].block = stack'[j].block => i = j
    BY <1>1 DEF DfsInv, Distinct
  <2> QED
    BY <1>1, <1>6, <1>7, <2>1, <2>2 DEF DfsInv, Distinct
<1>9. Explored'
  <2>1. ToSet(Succ(q)) \subseteq seen
    <3>1. Succ(q) \in Seq(Blocks)
      BY <1>4, GraphFacts
    <3>2. \A j \in DOMAIN Succ(q) : j \in 1 .. stack[n].next - 1
      BY <1>1, <3>1 DEF Frames
    <3> QED
      BY <1>4, <3>1, <3>2, ToSetOf DEF DfsInv, Explored
  <2>2. \A b \in Finished' : ToSet(Succ(b)) \subseteq seen
    BY <1>7, <2>1 DEF DfsInv, Explored
  <2>3. \A i \in DOMAIN stack' :
          /\ stack'[i].next <= Len(Succ(stack'[i].block)) + 1
          /\ \A j \in 1 .. stack'[i].next - 1 : Succ(stack'[i].block)[j] \in seen
    <3> TAKE i \in DOMAIN stack'
    <3>1. i \in DOMAIN stack /\ stack'[i] = stack[i]
      BY <1>1
    <3> QED
      BY <3>1 DEF DfsInv, Explored
  <2> QED
    BY <1>1, <1>2, <2>2, <2>3 DEF Explored
<1>10. TreeParents'
  <2>1. \A i \in DOMAIN stack' :
          IF i = 1 THEN stack'[i].block = Entry
          ELSE stack'[i].block \in ToSet(Succ(stack'[i - 1].block))
    <3> TAKE i \in DOMAIN stack'
    <3>1. i \in DOMAIN stack /\ stack'[i] = stack[i] /\ (i = 1 \/ stack'[i - 1] = stack[i - 1])
      BY <1>1
    <3> QED
      BY <3>1 DEF DfsInv, TreeParents
  <2>2. stack' = <<>> => order' # <<>> /\ order'[Len(order')] = Entry
    <3>1. SUFFICES ASSUME stack' = <<>> PROVE n = 1
      BY <1>1, <1>4, <3>1 DEF DfsInv, TreeParents
    <3>2. 1 .. n - 1 = {}
      BY <1>1, <3>1
    <3> QED
      BY <1>1, <3>2
  <2>3. ASSUME NEW k \in DOMAIN order', order'[k] # Entry
        PROVE  \E p \in OnStack' \cup {order'[l] : l \in k + 1 .. m + 1} : order'[k] \in ToSet(Succ(p))
    <3>1. CASE k \in 1 .. m
      <4>1. PICK p \in OnStack \cup {order[l] : l \in k + 1 .. m} : order[k] \in ToSet(Succ(p))
        BY <1>1, <2>3, <3>1 DEF DfsInv, TreeParents, m
      <4>2. q \in {order'[l] : l \in k + 1 .. m + 1}
        <5>1. m + 1 \in k + 1 .. m + 1
          BY <1>1, <3>1
        <5> QED
          BY <1>1, <5>1
      <4>3. {order[l] : l \in k + 1 .. m} \subseteq {order'[l] : l \in k + 1 .. m + 1}
        <5>1. \A l \in k + 1 .. m : l \in k + 1 .. m + 1 /\ order'[l] = order[l]
          BY <1>1, <3>1
        <5> QED
          BY <5>1
      <4> QED
        BY <1>1, <1>6, <3>1, <4>1, <4>2, <4>3
    <3>2. CASE k = m + 1
      <4>1. n # 1 /\ n - 1 \in 1 .. n - 1
        BY <1>1, <1>4, <2>3, <3>2 DEF DfsInv, TreeParents
      <4>2. q \in ToSet(Succ(stack[n - 1].block))
        BY <1>4, <4>1 DEF DfsInv, TreeParents
      <4> QED
        BY <1>1, <1>5, <3>2, <4>1, <4>2
    <3> QED
      BY <1>1, <3>1, <3>2
  <2> QED
    BY <1>1, <1>2, <2>1, <2>2, <2>3 DEF TreeParents
<1>11. PathsKnown'
  <2>1. \A i \in DOMAIN stack', a \in Blocks :
          (\A j \in 1 .. i : stack'[j].block # a) => stack'[i].block \in Avoiding(a)
    <3> TAKE i \in DOMAIN stack', a \in Blocks
    <3>1. i \in DOMAIN stack /\ \A j \in 1 .. i : stack'[j] = stack[j]
      BY <1>1
    <3>2. i \in 1 .. i
      BY <1>1
    <3> QED
      BY <3>1, <3>2 DEF DfsInv, PathsKnown
  <2>2. ASSUME NEW k \in DOMAIN order', NEW a \in Blocks, a \notin OnStack',
               \A l \in k .. m + 1 : order'[l] # a
        PROVE  order'[k] \in Avoiding(a)
    <3>1. a # q
      <4>1. m + 1 \in k .. m + 1
        BY <1>1
      <4> QED
        BY <1>1, <2>2, <4>1
    <3>2. CASE k \in 1 .. m
      <4>1. \A l \in k .. m : order[l] # a
        <5>1. \A l \in k .. m : l \in k .. m + 1 /\ order'[l] = order[l]
          BY <1>1, <3>2
        <5> QED
          BY <2>2, <5>1
      <4> QED
        BY <1>1, <1>6, <2>2, <3>1, <3>2, <4>1 DEF DfsInv, PathsKnown, m
    <3>3. CASE k = m + 1
      <4>1. \A j \in 1 .. n : stack[j].block # a
        BY <1>5, <1>6, <2>2, <3>1
      <4> QED
        BY <1>1, <1>4, <3>3, <4>1 DEF DfsInv, PathsKnown
    <3> QED
      BY <1>1, <3>2, <3>3
  <2> QED
    BY <1>1, <1>3, <2>1, <2>2 DEF DfsInv, PathsKnown
<1> QED
  BY <1>8, <1>9, <1>10, <1>11 DEF DfsInv

-----------------------------------------------------------------------------
(* The order the search leaves behind *)

Num(b) == postorder_num[b]

LEMMA OrderFits ==
  ASSUME GraphOK, DomTypeOK, Distinct
  PROVE  Len(order) \in Nat /\ DOMAIN order = 1 .. Len(order) /\ Len(order) <= Len(cfg.blocks)
<1>1. order \in Seq(Blocks)
  BY DEF DomTypeOK
<1>2. Len(order) \in Nat /\ DOMAIN order = 1 .. Len(order) /\ order \in [1 .. Len(order) -> Blocks]
  BY <1>1
<1>3. order \in Injection(1 .. Len(order), Blocks)
  BY <1>2 DEF Injection, IsInjective, Distinct
<1>4. Cardinality(1 .. Len(order)) <= Cardinality(Blocks) /\ IsFiniteSet(Blocks)
  BY <1>3, FS_Injection, GraphFacts
<1>5. Cardinality(1 .. Len(order)) = Len(order)
  BY <1>2, FS_Interval
<1> QED
  BY <1>2, <1>4, <1>5, GraphFacts

LEMMA Numbers ==
  ASSUME GraphOK, DomTypeOK, DfsInv
  PROVE  /\ \A k \in DOMAIN order : order[k] \in Finished /\ Num(order[k]) = k - 1
         /\ \A b \in Finished : /\ b \in Blocks /\ Num(b) \in Nat
                             /\ Num(b) + 1 \in DOMAIN order /\ order[Num(b) + 1] = b
         /\ \A b \in Blocks : Num(b) \in 0 .. Len(order) /\ (b \notin Finished => Num(b) = 0)
         /\ postorder_num \in [Blocks -> 0 .. Len(order)]
<1>1. Len(order) \in Nat /\ DOMAIN order = 1 .. Len(order)
  BY OrderFits DEF DfsInv
<1>2. ASSUME NEW k \in DOMAIN order PROVE order[k] \in Finished /\ Num(order[k]) = k - 1 /\ order[k] \in Blocks
  <2>1. order[k] \in Blocks /\ order[k] \in Finished
    BY <1>1 DEF DomTypeOK, Finished
  <2> DEFINE j == CHOOSE j \in DOMAIN order : order[j] = order[k]
  <2>2. j \in DOMAIN order /\ order[j] = order[k]
    OBVIOUS
  <2>3. j = k
    BY <2>2 DEF DfsInv, Distinct
  <2> QED
    BY <2>1, <2>3 DEF Num, postorder_num
<1>3. ASSUME NEW b \in Finished
      PROVE  /\ b \in Blocks /\ Num(b) \in Nat
             /\ Num(b) + 1 \in DOMAIN order /\ order[Num(b) + 1] = b
  <2>1. PICK k \in DOMAIN order : order[k] = b
    BY DEF Finished
  <2> QED
    BY <1>1, <1>2, <2>1
<1>4. ASSUME NEW b \in Blocks, b \notin Finished PROVE Num(b) = 0
  BY <1>4 DEF Num, postorder_num, Finished
<1>5. \A b \in Blocks : Num(b) \in 0 .. Len(order)
  BY <1>1, <1>3, <1>4
<1>6. postorder_num \in [Blocks -> 0 .. Len(order)]
  <2>1. postorder_num = [b \in Blocks |-> postorder_num[b]]
    BY DEF postorder_num
  <2> QED
    BY <1>5, <2>1 DEF Num
<1> QED
  BY <1>2, <1>3, <1>4, <1>5, <1>6

\* Once the search is over, what has finished is what the entry reaches, and the numbers
\* fall along the edges of the search and rise towards a dominator.
LEMMA SearchDone ==
  ASSUME GraphOK, DomTypeOK, DfsInv, stack = <<>>
  PROVE  /\ Finished = Avoiding(0) /\ Entry \in Finished
         /\ Len(order) \in Nat \ {0} /\ order[Len(order)] = Entry
         /\ \A a, b \in Finished : Num(a) = Num(b) => a = b
         /\ \A b \in Finished \ {Entry} : Num(b) < Num(Entry)
         /\ \A b \in Finished \ {Entry} :
              \E p \in Finished : b \in ToSet(Succ(p)) /\ Num(p) > Num(b)
         /\ \A b \in Finished, a \in Blocks :
              b \notin Avoiding(a) => a \in Finished /\ Num(b) <= Num(a)
         /\ \A b \in Finished : ToSet(Succ(b)) \subseteq Finished
<1> DEFINE m == Len(order)
<1>1. OnStack = {} /\ seen = Finished
  BY DEF OnStack, DfsInv, Distinct
<1>2. m \in Nat /\ DOMAIN order = 1 .. m /\ m # 0 /\ order[m] = Entry
  BY OrderFits DEF DfsInv, TreeParents
<1>3. Entry \in Finished /\ Num(Entry) = m - 1
  <2>1. m \in DOMAIN order
    BY <1>2
  <2> QED
    BY <1>2, <2>1, Numbers
<1>4. \A b \in Finished : ToSet(Succ(b)) \subseteq Finished
  BY <1>1 DEF DfsInv, Explored
<1>5. Finished = Avoiding(0)
  <2>1. Finished \subseteq Avoiding(0)
    BY <1>1 DEF DfsInv, PathsKnown
  <2>2. Finished \subseteq Blocks
    BY Numbers
  <2> QED
    BY <1>3, <1>4, <2>1, <2>2, AvoidingFacts
<1>6. \A a, b \in Finished : Num(a) = Num(b) => a = b
  BY Numbers
<1>7. ASSUME NEW b \in Finished, b # Entry PROVE Num(b) < m - 1
  <2>1. Num(b) \in Nat /\ Num(b) + 1 \in 1 .. m /\ order[Num(b) + 1] = b
    BY <1>2, Numbers
  <2> QED
    BY <1>2, <1>7, <2>1
<1>8. ASSUME NEW b \in Finished, b # Entry
      PROVE  \E p \in Finished : b \in ToSet(Succ(p)) /\ Num(p) > Num(b)
  <2>1. Num(b) \in Nat /\ Num(b) + 1 \in DOMAIN order /\ order[Num(b) + 1] = b
    BY Numbers
  <2>2. PICK p \in OnStack \cup {order[l] : l \in Num(b) + 1 + 1 .. m} : b \in ToSet(Succ(p))
    BY <1>8, <2>1 DEF DfsInv, TreeParents
  <2>3. PICK l \in Num(b) + 1 + 1 .. m : p = order[l]
    BY <1>1, <2>2
  <2>4. l \in DOMAIN order /\ l - 1 > Num(b)
    BY <1>2, <2>1, <2>3
  <2>5. p \in Finished /\ Num(p) = l - 1
    BY <2>3, <2>4, Numbers
  <2> QED
    BY <2>2, <2>4, <2>5
<1>9. ASSUME NEW b \in Finished, NEW a \in Blocks, b \notin Avoiding(a)
      PROVE  a \in Finished /\ Num(b) <= Num(a)
  <2>1. Num(b) \in Nat /\ Num(b) + 1 \in DOMAIN order /\ order[Num(b) + 1] = b
    BY Numbers
  <2>2. PICK l \in Num(b) + 1 .. m : order[l] = a
    BY <1>1, <1>9, <2>1 DEF DfsInv, PathsKnown
  <2>3. l \in DOMAIN order /\ Num(b) <= l - 1
    BY <1>2, <2>1, <2>2
  <2> QED
    BY <2>2, <2>3, Numbers
<1> QED
  BY <1>2, <1>3, <1>4, <1>5, <1>6, <1>7, <1>8, <1>9

-----------------------------------------------------------------------------
(* The tree of parents *)

Processed(b) == b \in Finished /\ idom[b] # Undefined

\* A parent is nearer to the entry than its child, and every other block that
\* dominates the child dominates the parent.
Tree ==
  /\ idom[Entry] = Entry
  /\ \A b \in Blocks \ Finished : idom[b] = Undefined
  /\ \A b \in Finished \ {Entry} : idom[b] # Undefined =>
       /\ Processed(idom[b]) /\ Num(idom[b]) > Num(b)
       /\ \A a \in Blocks \ {b} : b \notin Avoiding(a) => idom[b] \notin Avoiding(a)

\* m lies above the blocks of R in the tree, and below what dominates them all.
Above(m, R) ==
  /\ Processed(m) /\ \A r \in R : Num(m) >= Num(r)
  /\ \A a \in Blocks : (\A r \in R : r \notin Avoiding(a)) => m \notin Avoiding(a)
  /\ \A C \in SUBSET Blocks : R \cap C # {} /\ (\A x \in C : idom[x] \in C) => m \in C

LEMMA ParentsRise ==
  ASSUME GraphOK, DomTypeOK, DfsInv, stack = <<>>, Tree,
         NEW b \in Blocks, NEW c \in Blocks, Num(b) < Num(c), idom[b] # Undefined
  PROVE  b # Entry /\ Processed(b) /\ Processed(idom[b]) /\ idom[b] \in Blocks /\ Num(b) < Num(idom[b])
<1>1. b \in Finished
  BY DEF Tree
<1>2. b # Entry
  <2>1. c \in Finished \/ Num(c) = 0
    BY Numbers
  <2>2. Num(b) \in Nat /\ Num(c) \in Nat
    BY Numbers
  <2> QED
    BY <2>1, <2>2, SearchDone
<1> QED
  BY <1>1, <1>2, Numbers DEF Tree, Processed

\* The climb of intersect, as a function of the pair it stands at.
Climbs(f) ==
  \A p, q \in Blocks :
    f[<<p, q>>] = IF p = q THEN p
                  ELSE IF Num(p) < Num(q)
                       THEN IF idom[p] = Undefined THEN Undefined ELSE f[<<idom[p], q>>]
                  ELSE IF Num(q) < Num(p)
                       THEN IF idom[q] = Undefined THEN Undefined ELSE f[<<p, idom[q]>>]
                  ELSE Undefined

LEMMA IntersectClimbs ==
  ASSUME GraphOK, DomTypeOK, DfsInv, stack = <<>>, Tree
  PROVE  \E f : Climbs(f) /\ \A p, q \in Blocks : intersect(p, q) = f[<<p, q>>]
<1> DEFINE D == Blocks \X Blocks
           K == 2 * Len(order)
           num == postorder_num
           stop == {d \in D : \/ d[1] = d[2]
                              \/ num[d[1]] < num[d[2]] /\ idom[d[1]] = Undefined
                              \/ num[d[2]] < num[d[1]] /\ idom[d[2]] = Undefined
                              \/ ~(num[d[1]] < num[d[2]]) /\ ~(num[d[2]] < num[d[1]])}
           base == [d \in D |-> IF d[1] = d[2] THEN d[1] ELSE Undefined]
           next == [d \in D |-> IF num[d[1]] < num[d[2]] THEN <<idom[d[1]], d[2]>>
                                ELSE <<d[1], idom[d[2]]>>]
           m == [d \in D |-> K - num[d[1]] - num[d[2]]]
           Is(f) == f = [p \in D |->
                      IF p[1] = p[2] THEN p[1]
                      ELSE IF num[p[1]] < num[p[2]]
                        THEN IF idom[p[1]] = Undefined THEN Undefined ELSE f[<<idom[p[1]], p[2]>>]
                      ELSE IF num[p[2]] < num[p[1]]
                        THEN IF idom[p[2]] = Undefined THEN Undefined ELSE f[<<p[1], idom[p[2]]>>]
                      ELSE Undefined]
<1>1. K \in Nat /\ Len(order) \in Nat
  BY SearchDone
<1>2. num \in [Blocks -> 0 .. Len(order)] /\ \A b \in Blocks : num[b] = Num(b)
  BY Numbers DEF Num
<1>3. \A d \in D \ stop : next[d] \in D /\ m[next[d]] < m[d]
  <2>1. \A b \in Blocks, c \in Blocks : Num(b) < Num(c) /\ idom[b] # Undefined =>
          idom[b] \in Blocks /\ Num(b) < Num(idom[b])
    BY ParentsRise
  <2> TAKE d \in D \ stop
  <2> DEFINE p == d[1]
             q == d[2]
  <2>2. p \in Blocks /\ q \in Blocks /\ d = <<p, q>>
    OBVIOUS
  <2>3. \/ num[p] < num[q] /\ idom[p] # Undefined
        \/ ~(num[p] < num[q]) /\ num[q] < num[p] /\ idom[q] # Undefined
    BY <1>2, <2>2
  <2>4. CASE num[p] < num[q] /\ idom[p] # Undefined
    <3>1. next[d] = <<idom[p], q>> /\ idom[p] \in Blocks /\ Num(p) < Num(idom[p])
      BY <1>2, <2>1, <2>2, <2>4
    <3> QED
      BY <1>1, <1>2, <2>2, <3>1
  <2>5. CASE ~(num[p] < num[q]) /\ num[q] < num[p] /\ idom[q] # Undefined
    <3>1. next[d] = <<p, idom[q]>> /\ idom[q] \in Blocks /\ Num(q) < Num(idom[q])
      BY <1>2, <2>1, <2>2, <2>5
    <3> QED
      BY <1>1, <1>2, <2>2, <3>1
  <2> QED
    BY <2>3, <2>4, <2>5
<1>4. m \in [D -> 0 .. K]
  BY <1>1, <1>2
<1>5. PICK f : LeadsTo(f, D, stop, base, next)
  <2> HIDE DEF stop, base, next, m, D, K
  <2> QED
    BY <1>1, <1>3, <1>4, WalkExists
<1>6. Is(f)
  <2>1. \A p \in D : f[p] =
          IF p[1] = p[2] THEN p[1]
          ELSE IF num[p[1]] < num[p[2]]
            THEN IF idom[p[1]] = Undefined THEN Undefined ELSE f[<<idom[p[1]], p[2]>>]
          ELSE IF num[p[2]] < num[p[1]]
            THEN IF idom[p[2]] = Undefined THEN Undefined ELSE f[<<p[1], idom[p[2]]>>]
          ELSE Undefined
    <3> SUFFICES ASSUME NEW p \in Blocks, NEW q \in Blocks
                 PROVE  f[<<p, q>>] =
          IF p = q THEN p
          ELSE IF num[p] < num[q]
            THEN IF idom[p] = Undefined THEN Undefined ELSE f[<<idom[p], q>>]
          ELSE IF num[q] < num[p]
            THEN IF idom[q] = Undefined THEN Undefined ELSE f[<<p, idom[q]>>]
          ELSE Undefined
      OBVIOUS
    <3>1. f[<<p, q>>] = IF <<p, q>> \in stop THEN base[<<p, q>>] ELSE f[next[<<p, q>>]]
      BY <1>5 DEF LeadsTo
    <3>2. num[p] \in Int /\ num[q] \in Int
      BY <1>1, <1>2
    <3>3. CASE p = q
      BY <3>1, <3>2, <3>3
    <3>4. CASE num[p] < num[q]
      BY <3>1, <3>2, <3>4
    <3>5. CASE num[q] < num[p]
      BY <3>1, <3>2, <3>5
    <3>6. CASE p # q /\ ~(num[p] < num[q]) /\ ~(num[q] < num[p])
      BY <3>1, <3>2, <3>6
    <3> QED
      BY <3>3, <3>4, <3>5, <3>6
  <2> HIDE DEF D
  <2> QED
    BY <1>5, <2>1 DEF LeadsTo
<1> DEFINE g == CHOOSE g : Is(g)
<1>7. Is(g)
  <2> HIDE DEF Is
  <2> QED
    BY <1>6, Zenon
<1>8. ASSUME NEW b1 \in Blocks, NEW b2 \in Blocks
      PROVE  intersect(b1, b2) = g[<<b1, b2>>]
  BY DEF intersect
<1> HIDE DEF g
<1>9. Climbs(g)
  <2> SUFFICES ASSUME NEW p \in Blocks, NEW q \in Blocks
               PROVE  g[<<p, q>>] = IF p = q THEN p
                  ELSE IF Num(p) < Num(q)
                       THEN IF idom[p] = Undefined THEN Undefined ELSE g[<<idom[p], q>>]
                  ELSE IF Num(q) < Num(p)
                       THEN IF idom[q] = Undefined THEN Undefined ELSE g[<<p, idom[q]>>]
                  ELSE Undefined
    BY DEF Climbs
  <2>1. num[p] = Num(p) /\ num[q] = Num(q) /\ num[p] \in Int /\ num[q] \in Int
    BY <1>1, <1>2
  <2>2. g[<<p, q>>] =
          IF p = q THEN p
          ELSE IF num[p] < num[q]
            THEN IF idom[p] = Undefined THEN Undefined ELSE g[<<idom[p], q>>]
          ELSE IF num[q] < num[p]
            THEN IF idom[q] = Undefined THEN Undefined ELSE g[<<p, idom[q]>>]
          ELSE Undefined
    BY <1>7
  <2> HIDE DEF num
  <2> QED
    BY <2>1, <2>2
<1> QED
  BY <1>8, <1>9


LEMMA IntersectIsBlock ==
  ASSUME GraphOK, DomTypeOK, DfsInv, stack = <<>>, Tree, NEW p \in Blocks, NEW q \in Blocks
  PROVE  intersect(p, q) \in Blocks \cup {Undefined}
<1>1. PICK f : Climbs(f) /\ \A x, y \in Blocks : intersect(x, y) = f[<<x, y>>]
  BY IntersectClimbs
<1> DEFINE Left(x, y) == 2 * Len(order) - Num(x) - Num(y)
           T == {n \in Nat : \E x, y \in Blocks :
                   n = Left(x, y) /\ f[<<x, y>>] \notin Blocks \cup {Undefined}}
<1>2. \A x, y \in Blocks : Left(x, y) \in Nat
  <2> TAKE x \in Blocks, y \in Blocks
  <2>1. Num(x) \in 0 .. Len(order) /\ Num(y) \in 0 .. Len(order) /\ Len(order) \in Nat
    BY Numbers, SearchDone
  <2> QED
    BY <2>1
<1>3. T = {}
  <2> SUFFICES ASSUME T # {} PROVE FALSE
    OBVIOUS
  <2>1. T \subseteq Nat
    OBVIOUS
  <2>2. PICK n \in T : \A k \in T : n <= k
    <3> HIDE DEF T
    <3> QED
      BY <2>1, SmallestNumber
  <2>3. PICK x \in Blocks, y \in Blocks : n = Left(x, y) /\ f[<<x, y>>] \notin Blocks \cup {Undefined}
    BY <2>2
  <2>4. \A u, v \in Blocks : Left(u, v) < n => f[<<u, v>>] \in Blocks \cup {Undefined}
    <3> TAKE u \in Blocks, v \in Blocks
    <3> HAVE Left(u, v) < n
    <3>1. Left(u, v) \in Int /\ n \in Int
      BY <1>2, <2>1, <2>2
    <3>2. Left(u, v) \notin T
      <4> HIDE DEF T, Left
      <4> QED
        BY <2>2, <3>1
    <3> QED
      BY <1>2, <3>2
  <2>5. f[<<x, y>>] = IF x = y THEN x
                      ELSE IF Num(x) < Num(y)
                        THEN IF idom[x] = Undefined THEN Undefined ELSE f[<<idom[x], y>>]
                      ELSE IF Num(y) < Num(x)
                        THEN IF idom[y] = Undefined THEN Undefined ELSE f[<<x, idom[y]>>]
                      ELSE Undefined
    BY <1>1 DEF Climbs
  <2>0. Num(x) \in 0 .. Len(order) /\ Num(y) \in 0 .. Len(order) /\ Len(order) \in Nat
    BY Numbers, SearchDone
  <2>6. CASE Num(x) < Num(y) /\ x # y /\ idom[x] # Undefined
    <3>1. idom[x] \in Blocks /\ Num(x) < Num(idom[x])
      BY <2>6, ParentsRise
    <3>0. Num(idom[x]) \in 0 .. Len(order)
      BY <3>1, Numbers
    <3>2. Left(idom[x], y) < n
      BY <2>0, <2>3, <3>0, <3>1
    <3> HIDE DEF Left
    <3> QED
      BY <2>3, <2>4, <2>5, <2>6, <3>1, <3>2
  <2>7. CASE Num(y) < Num(x) /\ x # y /\ idom[y] # Undefined
    <3>1. idom[y] \in Blocks /\ Num(y) < Num(idom[y])
      BY <2>7, ParentsRise
    <3>0. Num(idom[y]) \in 0 .. Len(order)
      BY <3>1, Numbers
    <3>2. Left(x, idom[y]) < n
      BY <2>0, <2>3, <3>0, <3>1
    <3>3. ~(Num(x) < Num(y))
      BY <2>0, <2>7
    <3> HIDE DEF Left
    <3> QED
      BY <2>3, <2>4, <2>5, <2>7, <3>1, <3>2, <3>3
  <2>8. CASE \/ x = y
             \/ Num(x) < Num(y) /\ idom[x] = Undefined
             \/ Num(y) < Num(x) /\ idom[y] = Undefined
             \/ ~(Num(x) < Num(y)) /\ ~(Num(y) < Num(x))
    BY <2>0, <2>3, <2>5, <2>8
  <2> QED
    BY <2>0, <2>6, <2>7, <2>8
<1>4. f[<<p, q>>] \in Blocks \cup {Undefined}
  BY <1>2, <1>3
<1> QED
  BY <1>1, <1>4

LEMMA AboveOneClimb ==
  ASSUME GraphOK, DomTypeOK, DfsInv, stack = <<>>, Tree,
         NEW p \in Finished, NEW q \in Finished, Num(p) < Num(q), Processed(p),
         NEW m, Above(m, {idom[p], q})
  PROVE  Above(m, {p, q})
<1>1. /\ p # Entry /\ Processed(idom[p]) /\ Num(p) < Num(idom[p])
      /\ p \in Blocks /\ q \in Blocks /\ idom[p] \in Finished
  BY Numbers, ParentsRise DEF Processed
<1>2. Num(p) \in Nat /\ Num(q) \in Nat /\ Num(m) \in Nat /\ Num(idom[p]) \in Nat
  BY <1>1, Numbers DEF Above, Processed
<1>3. Num(m) >= Num(p) /\ Num(m) >= Num(q)
  BY <1>1, <1>2 DEF Above
<1>4. ASSUME NEW a \in Blocks, p \notin Avoiding(a), q \notin Avoiding(a)
      PROVE  m \notin Avoiding(a)
  <2>1. a # p
    BY <1>2, <1>4, SearchDone
  <2>2. idom[p] \notin Avoiding(a)
    BY <1>1, <1>4, <2>1 DEF Tree, Processed
  <2> QED
    BY <1>4, <2>2 DEF Above
<1>5. ASSUME NEW C \in SUBSET Blocks, {p, q} \cap C # {}, \A x \in C : idom[x] \in C
      PROVE  m \in C
  <2>1. {idom[p], q} \cap C # {}
    BY <1>5
  <2> QED
    BY <1>5, <2>1 DEF Above
<1> QED
  BY <1>3, <1>4, <1>5 DEF Above

LEMMA AboveSelf ==
  ASSUME GraphOK, DomTypeOK, DfsInv, NEW p, Processed(p)
  PROVE  Above(p, {p})
BY Numbers DEF Above, Processed

\* Two blocks with parents meet, and as near to them as the tree tells.
LEMMA IntersectMeets ==
  ASSUME GraphOK, DomTypeOK, DfsInv, stack = <<>>, Tree,
         NEW p, Processed(p), NEW q, Processed(q)
  PROVE  Above(intersect(p, q), {p, q})
<1>1. PICK f : Climbs(f) /\ \A x, y \in Blocks : intersect(x, y) = f[<<x, y>>]
  BY IntersectClimbs
<1>2. \A x : Processed(x) => x \in Blocks /\ x \in Finished /\ Num(x) \in Nat /\ Num(x) <= Len(order)
  BY Numbers DEF Processed
<1> DEFINE Left(x, y) == 2 * Len(order) - Num(x) - Num(y)
           T == {n \in Nat : \E x, y \in Blocks :
                   /\ n = Left(x, y) /\ Processed(x) /\ Processed(y)
                   /\ ~Above(f[<<x, y>>], {x, y})}
<1>3. \A x, y \in Blocks : Left(x, y) \in Nat
  <2> TAKE x \in Blocks, y \in Blocks
  <2>1. Num(x) \in 0 .. Len(order) /\ Num(y) \in 0 .. Len(order) /\ Len(order) \in Nat
    BY Numbers, SearchDone
  <2> QED
    BY <2>1
<1>4. T = {}
  <2> SUFFICES ASSUME T # {} PROVE FALSE
    OBVIOUS
  <2>1. T \subseteq Nat
    OBVIOUS
  <2>2. PICK n \in T : \A k \in T : n <= k
    <3> HIDE DEF T
    <3> QED
      BY <2>1, SmallestNumber
  <2>3. PICK x \in Blocks, y \in Blocks :
          n = Left(x, y) /\ Processed(x) /\ Processed(y) /\ ~Above(f[<<x, y>>], {x, y})
    BY <2>2
  <2>4. \A u, v \in Blocks : Left(u, v) < n /\ Processed(u) /\ Processed(v) => Above(f[<<u, v>>], {u, v})
    <3> TAKE u \in Blocks, v \in Blocks
    <3> HAVE Left(u, v) < n /\ Processed(u) /\ Processed(v)
    <3>1. Left(u, v) \in Int /\ n \in Int
      BY <1>3, <2>1, <2>2
    <3>2. Left(u, v) \notin T
      <4> HIDE DEF T, Left
      <4> QED
        BY <2>2, <3>1
    <3> QED
      BY <1>3, <3>2
  <2>5. f[<<x, y>>] = IF x = y THEN x
                      ELSE IF Num(x) < Num(y)
                        THEN IF idom[x] = Undefined THEN Undefined ELSE f[<<idom[x], y>>]
                      ELSE IF Num(y) < Num(x)
                        THEN IF idom[y] = Undefined THEN Undefined ELSE f[<<x, idom[y]>>]
                      ELSE Undefined
    BY <1>1 DEF Climbs
  <2>0. Num(x) \in 0 .. Len(order) /\ Num(y) \in 0 .. Len(order) /\ Len(order) \in Nat
    BY Numbers, SearchDone
  <2>6. idom[x] # Undefined /\ idom[y] # Undefined
    BY <2>3 DEF Processed
  <2>7. CASE x = y
    <3>1. f[<<x, y>>] = x /\ {x, y} = {x}
      BY <2>5, <2>7
    <3> QED
      BY <2>3, <3>1, AboveSelf
  <2>8. CASE Num(x) < Num(y)
    <3>1. x # y
      BY <2>0, <2>8
    <3>2. idom[x] \in Blocks /\ Num(x) < Num(idom[x]) /\ Processed(idom[x])
      BY <2>6, <2>8, ParentsRise
    <3>3. Left(idom[x], y) < n
      BY <2>0, <2>3, <3>2, Numbers
    <3> HIDE DEF Left
    <3>4. Above(f[<<x, y>>], {idom[x], y})
      BY <2>3, <2>4, <2>5, <2>6, <2>8, <3>1, <3>2, <3>3
    <3> QED
      BY <1>2, <2>3, <2>8, <3>4, AboveOneClimb
  <2>9. CASE Num(y) < Num(x)
    <3>1. x # y /\ ~(Num(x) < Num(y))
      BY <2>0, <2>9
    <3>2. idom[y] \in Blocks /\ Num(y) < Num(idom[y]) /\ Processed(idom[y])
      BY <2>6, <2>9, ParentsRise
    <3>3. Left(x, idom[y]) < n
      BY <2>0, <2>3, <3>2, Numbers
    <3> HIDE DEF Left
    <3>4. Above(f[<<x, y>>], {x, idom[y]})
      BY <2>3, <2>4, <2>5, <2>6, <2>9, <3>1, <3>2, <3>3
    <3>5. {x, idom[y]} = {idom[y], x} /\ {x, y} = {y, x}
      OBVIOUS
    <3> QED
      BY <1>2, <2>3, <2>9, <3>4, <3>5, AboveOneClimb
  <2> QED
    BY <1>2, <2>0, <2>3, <2>7, <2>8, <2>9, SearchDone
<1> HIDE DEF Left
<1>5. Above(f[<<p, q>>], {p, q})
  BY <1>2, <1>3, <1>4
<1> QED
  BY <1>1, <1>2, <1>5

\* The candidate that stands for the predecessors R considered so far.
Stands(best, R) == IF R = {} THEN best = Undefined ELSE Above(best, R)

LEMMA JoinedIsBlock ==
  ASSUME GraphOK, DomTypeOK, DfsInv, stack = <<>>, Tree,
         NEW p \in Blocks, NEW best \in Blocks \cup {Undefined}
  PROVE  Joined(best, p) \in Blocks \cup {Undefined}
<1>1. CASE best = Undefined \/ idom[p] = Undefined
  BY <1>1 DEF Joined
<1>2. CASE best # Undefined /\ idom[p] # Undefined
  <2>1. intersect(p, best) \in Blocks \cup {Undefined}
    BY <1>2, IntersectIsBlock
  <2> QED
    BY <1>2, <2>1 DEF Joined
<1> QED
  BY <1>1, <1>2

LEMMA JoinedStands ==
  ASSUME GraphOK, DomTypeOK, DfsInv, stack = <<>>, Tree,
         NEW R \in SUBSET Finished, NEW best, Stands(best, R), NEW p, Processed(p)
  PROVE  Stands(Joined(best, p), R \cup {p})
<1>1. idom[p] # Undefined /\ p \in Finished
  BY DEF Processed
<1>2. CASE R = {}
  <2>1. Joined(best, p) = p /\ R \cup {p} = {p}
    BY <1>1, <1>2 DEF Joined, Stands
  <2> QED
    BY <2>1, AboveSelf DEF Stands
<1>3. CASE R # {}
  <2> DEFINE met == intersect(p, best)
  <2>1. Above(best, R) /\ Processed(best)
    BY <1>3 DEF Stands, Above
  <2>2. Above(met, {p, best})
    BY <2>1, IntersectMeets
  <2> HIDE DEF met
  <2>3. met # Undefined /\ best # Undefined
    BY <2>1, <2>2, Numbers, GraphFacts DEF Above, Processed
  <2>4. Joined(best, p) = met
    BY <1>1, <2>3 DEF Joined, met
  <2>5. ASSUME NEW r \in R \cup {p} PROVE Num(met) >= Num(r)
    <3>1. Num(met) \in Nat /\ Num(best) \in Nat /\ Num(r) \in Nat
      BY <1>1, <2>1, <2>2, Numbers DEF Above, Processed
    <3>2. Num(met) >= Num(p) /\ Num(met) >= Num(best)
      BY <2>2 DEF Above
    <3>3. r \in R => Num(best) >= Num(r)
      BY <2>1 DEF Above
    <3> QED
      BY <3>1, <3>2, <3>3
  <2>6. ASSUME NEW a \in Blocks, \A r \in R \cup {p} : r \notin Avoiding(a) PROVE met \notin Avoiding(a)
    <3>1. best \notin Avoiding(a)
      BY <2>1, <2>6 DEF Above
    <3> QED
      BY <2>2, <2>6, <3>1 DEF Above
  <2>7. ASSUME NEW C \in SUBSET Blocks, (R \cup {p}) \cap C # {}, \A x \in C : idom[x] \in C
        PROVE  met \in C
    <3>1. p \in C \/ best \in C
      BY <2>1, <2>7 DEF Above
    <3>2. {p, best} \cap C # {}
      BY <3>1
    <3> QED
      BY <2>2, <2>7, <3>2 DEF Above
  <2>8. Above(met, R \cup {p})
    BY <2>2, <2>5, <2>6, <2>7 DEF Above
  <2> QED
    BY <2>4, <2>8 DEF Stands
<1> QED
  BY <1>2, <1>3

\* The walk of NewIdom over the predecessors of b, from block k with a candidate.
WalksPreds(f, b) ==
  \A k \in 1 .. Len(cfg.blocks) + 1, best \in Blocks \cup {Undefined} :
    f[<<k, best>>] = IF k \notin Blocks THEN best
                     ELSE f[<<k + 1, IF k \in preds(b) THEN Joined(best, k) ELSE best>>]

LEMMA NewIdomWalks ==
  ASSUME GraphOK, DomTypeOK, DfsInv, stack = <<>>, Tree, NEW b
  PROVE  \E f : WalksPreds(f, b) /\ NewIdom(b) = f[<<1, Undefined>>]
<1> DEFINE K == Len(cfg.blocks) + 1
           D == (1 .. K) \X (Blocks \cup {Undefined})
           stop == {w \in D : w[1] \notin Blocks}
           base == [w \in D |-> w[2]]
           next == [w \in D |-> <<w[1] + 1, IF w[1] \in preds(b) THEN Joined(w[2], w[1]) ELSE w[2]>>]
           m == [w \in D |-> K - w[1]]
           Is(f) == f = [w \in (1 .. Len(cfg.blocks) + 1) \X (Blocks \cup {Undefined}) |->
                           IF w[1] \notin Blocks THEN w[2]
                           ELSE f[<<w[1] + 1, IF w[1] \in preds(b) THEN Joined(w[2], w[1]) ELSE w[2]>>]]
<1>1. K \in Nat /\ Blocks = 1 .. Len(cfg.blocks)
  BY GraphFacts
<1>2. \A w \in D \ stop : next[w] \in D /\ m[next[w]] < m[w]
  <2> TAKE w \in D \ stop
  <2>1. w[1] \in Blocks /\ w[1] \in 1 .. K /\ w[1] + 1 \in 1 .. K /\ w[2] \in Blocks \cup {Undefined}
    BY <1>1
  <2>2. (IF w[1] \in preds(b) THEN Joined(w[2], w[1]) ELSE w[2]) \in Blocks \cup {Undefined}
    BY <2>1, JoinedIsBlock
  <2>3. next[w] = <<w[1] + 1, IF w[1] \in preds(b) THEN Joined(w[2], w[1]) ELSE w[2]>> /\ next[w] \in D
    BY <2>1, <2>2
  <2>4. m[next[w]] = K - (w[1] + 1) /\ m[w] = K - w[1]
    BY <2>1, <2>3
  <2> QED
    BY <1>1, <2>1, <2>3, <2>4
<1>3. m \in [D -> 0 .. K]
  BY <1>1
<1>4. PICK f : LeadsTo(f, D, stop, base, next)
  <2> HIDE DEF stop, base, next, m, D, K
  <2> QED
    BY <1>1, <1>2, <1>3, WalkExists
<1>5. Is(f)
  <2>1. \A w \in D : f[w] = IF w[1] \notin Blocks THEN w[2]
          ELSE f[<<w[1] + 1, IF w[1] \in preds(b) THEN Joined(w[2], w[1]) ELSE w[2]>>]
    BY <1>4 DEF LeadsTo
  <2>2. f = [w \in D |-> f[w]]
    BY <1>4 DEF LeadsTo
  <2> HIDE DEF K
  <2> QED
    BY <2>1, <2>2 DEF K
<1> DEFINE g == CHOOSE g : Is(g)
<1>6. Is(g)
  <2> HIDE DEF Is
  <2> QED
    BY <1>5, Zenon
<1>7. NewIdom(b) = g[<<1, Undefined>>]
  BY DEF NewIdom
<1> HIDE DEF g
<1>8. WalksPreds(g, b)
  <2>1. \A w \in D : g[w] = IF w[1] \notin Blocks THEN w[2]
          ELSE g[<<w[1] + 1, IF w[1] \in preds(b) THEN Joined(w[2], w[1]) ELSE w[2]>>]
    BY <1>6
  <2>2. \A k \in 1 .. K, best \in Blocks \cup {Undefined} : <<k, best>> \in D
    OBVIOUS
  <2> HIDE DEF D
  <2> QED
    BY <2>1, <2>2 DEF WalksPreds
<1> QED
  BY <1>7, <1>8

Ready(b) == {p \in preds(b) : idom[p] # Undefined}

\* The new parent stands for every predecessor that has a parent.
LEMMA NewIdomStands ==
  ASSUME GraphOK, DomTypeOK, DfsInv, stack = <<>>, Tree, NEW b
  PROVE  Stands(NewIdom(b), Ready(b))
<1> DEFINE L == Len(cfg.blocks)
           Before(k) == {p \in Ready(b) : p < k}
           B == Blocks \cup {Undefined}
<1>1. PICK f : WalksPreds(f, b) /\ NewIdom(b) = f[<<1, Undefined>>]
  BY NewIdomWalks
<1>2. L \in Nat /\ Blocks = 1 .. L
  BY GraphFacts
<1>3. /\ Ready(b) \subseteq Blocks /\ Ready(b) \subseteq Finished
      /\ \A p \in Ready(b) : Processed(p)
  BY DEF Ready, preds, Tree, Processed
<1> DEFINE T == {n \in 0 .. L : \E best \in B :
                   Stands(best, Before(L + 1 - n)) /\ ~Stands(f[<<L + 1 - n, best>>], Ready(b))}
<1>4. \A n \in T : n # 0 /\ n - 1 \in T
  <2> TAKE n \in T
  <2>1. n \in 0 .. L
    OBVIOUS
  <2> DEFINE k == L + 1 - n
  <2>2. PICK best \in B : Stands(best, Before(k)) /\ ~Stands(f[<<k, best>>], Ready(b))
    OBVIOUS
  <2>3. k \in 1 .. L + 1 /\ (n = 0 <=> k = L + 1) /\ (n # 0 => k \in Blocks)
    BY <1>2, <2>1
  <2> HIDE DEF B, Before
  <2>4. f[<<k, best>>] = IF k \notin Blocks THEN best
                         ELSE f[<<k + 1, IF k \in preds(b) THEN Joined(best, k) ELSE best>>]
    <3> HIDE DEF k
    <3> QED
      BY <1>1, <2>3 DEF WalksPreds, B
  <2>5. n # 0
    <3>1. SUFFICES ASSUME n = 0 PROVE FALSE
      OBVIOUS
    <3>2. k = L + 1 /\ k \notin Blocks
      BY <1>2, <2>3, <3>1
    <3>3. Before(k) = Ready(b)
      BY <1>2, <1>3, <3>2 DEF Before
    <3> QED
      BY <2>2, <2>4, <3>2, <3>3
  <2> DEFINE on == IF k \in preds(b) THEN Joined(best, k) ELSE best
  <2>6. k \in Blocks /\ on \in B
    BY <2>3, <2>5, JoinedIsBlock DEF B
  <2>7. Stands(on, Before(k + 1))
    <3>1. CASE k \in Ready(b)
      <4>1. k \in preds(b) /\ Processed(k) /\ Before(k) \in SUBSET Finished
        BY <1>3, <3>1 DEF Ready, Before
      <4>2. Before(k + 1) = Before(k) \cup {k}
        BY <1>2, <1>3, <2>6, <3>1 DEF Before
      <4> QED
        BY <2>2, <4>1, <4>2, JoinedStands
    <3>2. CASE k \notin Ready(b)
      <4>1. Before(k + 1) = Before(k)
        BY <1>2, <1>3, <2>6, <3>2 DEF Before
      <4>2. on = best
        BY <3>2 DEF Ready, Joined
      <4> QED
        BY <2>2, <4>1, <4>2
    <3> QED
      BY <3>1, <3>2
  <2>8. ~Stands(f[<<k + 1, on>>], Ready(b))
    BY <2>2, <2>4, <2>6
  <2>9. n - 1 \in 0 .. L /\ L + 1 - (n - 1) = k + 1
    BY <1>2, <2>1, <2>5
  <2> HIDE DEF k, on
  <2>10. Stands(on, Before(L + 1 - (n - 1))) /\ ~Stands(f[<<L + 1 - (n - 1), on>>], Ready(b))
    BY <2>7, <2>8, <2>9
  <2> QED
    BY <2>5, <2>6, <2>9, <2>10
<1>5. T = {}
  <2>1. T \subseteq Nat
    BY <1>2
  <2> HIDE DEF T
  <2> QED
    BY <1>4, <2>1, NoFirst
<1>6. L \in 0 .. L /\ L + 1 - L = 1 /\ Undefined \in B
  BY <1>2
<1>7. Before(1) = {} /\ Stands(Undefined, {})
  BY <1>2, <1>3 DEF Stands
<1> HIDE DEF B, Before
<1>8. Stands(f[<<1, Undefined>>], Ready(b))
  BY <1>5, <1>6, <1>7
<1> QED
  BY <1>1, <1>8

-----------------------------------------------------------------------------
(* The sweeps *)

\* Where a block stands in reverse postorder.
Position(b) == Len(order) - Num(b)

\* A parent was found for every block before the sweep's, and until a change in
\* this sweep they are what another look would give.
Swept ==
  /\ at >= 2
  /\ \A b \in Finished : Position(b) < at => idom[b] # Undefined
  /\ ~changed => \A b \in Finished \ {Entry} : Position(b) < at => NewIdom(b) = idom[b]

LEMMA SweptOrder ==
  ASSUME GraphOK, DomTypeOK, DfsInv, stack = <<>>
  PROVE  /\ Len(rpo) = Len(order)
         /\ \A k \in 1 .. Len(order) : rpo[k] \in Finished /\ Num(rpo[k]) = Len(order) - k
                                       /\ Position(rpo[k]) = k
         /\ \A b \in Finished : Position(b) \in 1 .. Len(order) /\ rpo[Position(b)] = b
         /\ rpo[1] = Entry
         /\ \A k \in 2 .. Len(order) : rpo[k] # Entry
<1> DEFINE m == Len(order)
<1>1. m \in Nat \ {0} /\ DOMAIN order = 1 .. m /\ order[m] = Entry
  BY OrderFits, SearchDone DEF DfsInv
<1>2. Len(rpo) = m /\ \A k \in 1 .. m : rpo[k] = order[m - k + 1]
  BY <1>1 DEF rpo, Reverse
<1>3. ASSUME NEW k \in 1 .. m PROVE rpo[k] \in Finished /\ Num(rpo[k]) = m - k /\ Position(rpo[k]) = k
  <2>1. m - k + 1 \in DOMAIN order
    BY <1>1
  <2>2. rpo[k] \in Finished /\ Num(rpo[k]) = m - k
    BY <1>1, <1>2, <2>1, Numbers
  <2> QED
    BY <1>1, <2>2 DEF Position
<1>4. ASSUME NEW b \in Finished PROVE Position(b) \in 1 .. m /\ rpo[Position(b)] = b
  <2>1. Num(b) \in Nat /\ Num(b) + 1 \in 1 .. m /\ order[Num(b) + 1] = b
    BY <1>1, Numbers
  <2>2. m - Num(b) \in 1 .. m /\ m - (m - Num(b)) + 1 = Num(b) + 1
    BY <1>1, <2>1
  <2> QED
    BY <1>2, <2>1, <2>2 DEF Position
<1>5. rpo[1] = Entry
  BY <1>1, <1>2
<1>6. \A k \in 2 .. m : rpo[k] # Entry
  <2>1. Entry \in Finished /\ Num(Entry) = m - 1
    BY <1>1, <1>3, <1>5
  <2> QED
    BY <1>1, <1>3, <2>1
<1> QED
  BY <1>2, <1>3, <1>4, <1>5, <1>6

\* The block of a turn has a predecessor with a parent, so a parent is found for it.
LEMMA TurnFindsParent ==
  ASSUME GraphOK, DomTypeOK, DfsInv, stack = <<>>, Tree, Swept, at \in Nat, at <= Len(order),
         NEW b, b = rpo[at]
  PROVE  /\ b \in Finished /\ b # Entry /\ b \in Blocks
         /\ Above(NewIdom(b), Ready(b)) /\ NewIdom(b) \in Blocks /\ NewIdom(b) # Undefined
         /\ Processed(NewIdom(b)) /\ Num(NewIdom(b)) > Num(b)
         /\ \A a \in Blocks \ {b} : b \notin Avoiding(a) => NewIdom(b) \notin Avoiding(a)
<1>1. at \in 2 .. Len(order) /\ Len(order) \in Nat
  BY SearchDone DEF Swept
<1>2. b \in Finished /\ b # Entry /\ b \in Blocks /\ Num(b) = Len(order) - at
  BY <1>1, SweptOrder, Numbers
<1>3. PICK p \in Finished : b \in ToSet(Succ(p)) /\ Num(p) > Num(b)
  BY <1>2, SearchDone
<1>4. p \in Ready(b)
  <2>1. Num(p) \in Nat /\ p \in Blocks
    BY <1>3, Numbers
  <2>2. Position(p) < at
    BY <1>1, <1>2, <1>3, <2>1 DEF Position
  <2>3. idom[p] # Undefined
    BY <2>2 DEF Swept
  <2> QED
    BY <1>3, <2>1, <2>3 DEF Ready, preds
<1>5. Above(NewIdom(b), Ready(b))
  BY <1>4, NewIdomStands DEF Stands
<1>6. Processed(NewIdom(b)) /\ NewIdom(b) \in Blocks /\ NewIdom(b) # Undefined /\ Num(NewIdom(b)) >= Num(p)
  BY <1>4, <1>5, Numbers, GraphFacts DEF Above, Processed
<1>7. Num(NewIdom(b)) > Num(b)
  <2>1. Num(NewIdom(b)) \in Nat /\ Num(b) \in Nat /\ Num(p) \in Nat
    BY <1>2, <1>3, <1>6, Numbers DEF Processed
  <2> QED
    BY <1>3, <1>6, <2>1
<1>8. ASSUME NEW a \in Blocks \ {b}, b \notin Avoiding(a) PROVE NewIdom(b) \notin Avoiding(a)
  <2>1. \A r \in Ready(b) : r \notin Avoiding(a)
    BY <1>8, AvoidingFacts DEF Ready, preds
  <2> QED
    BY <1>5, <2>1 DEF Above
<1> QED
  BY <1>2, <1>5, <1>6, <1>7, <1>8

LEMMA SameAnswers ==
  ASSUME UNCHANGED <<cfg, order, idom>>
  PROVE  \A b : NewIdom(b)' = NewIdom(b)
BY DEF NewIdom, Joined, intersect, postorder_num, preds, Succ, Blocks

\* Later state, same search: what the search left behind is not touched.
LEMMA SameSearch ==
  ASSUME UNCHANGED <<cfg, stack, seen, order>>
  PROVE  /\ Finished' = Finished /\ DfsInv' = DfsInv /\ rpo' = rpo
         /\ \A b : Num(b)' = Num(b)
         /\ \A a : Avoiding(a)' = Avoiding(a)
         /\ Blocks' = Blocks /\ GraphOK' = GraphOK
BY DEF Finished, DfsInv, Distinct, Explored, TreeParents, PathsKnown, OnStack, Num, rpo,
       postorder_num, Avoiding, Succ, Blocks, GraphOK

LEMMA TurnKeepsTree ==
  ASSUME GraphOK, DomTypeOK, DfsInv, stack = <<>>, Tree, Swept, at \in Nat, SweepBlock
  PROVE  Tree' /\ Swept' /\ idom' \in [Blocks -> Blocks \cup {Undefined}]
<1> DEFINE b == rpo[at]
           n == NewIdom(b)
           m == Len(order)
<1>1. /\ at <= m /\ m \in Nat /\ at \in 2 .. m /\ idom' = (IF n = Undefined THEN idom ELSE [idom EXCEPT ![b] = n])
      /\ changed' = (changed \/ idom' # idom) /\ at' = at + 1
      /\ UNCHANGED <<cfg, stack, seen, order>>
  BY SweptOrder, SearchDone DEF SweepBlock, Swept
<1>2. /\ b \in Finished /\ b # Entry /\ b \in Blocks /\ n \in Blocks /\ n # Undefined
      /\ Processed(n) /\ Num(n) > Num(b)
      /\ \A a \in Blocks \ {b} : b \notin Avoiding(a) => n \notin Avoiding(a)
  BY <1>1, TurnFindsParent
<1>3. idom \in [Blocks -> Blocks \cup {Undefined}] /\ idom' = [idom EXCEPT ![b] = n]
  BY <1>1, <1>2 DEF DomTypeOK
<1>4. /\ idom' \in [Blocks -> Blocks \cup {Undefined}] /\ idom'[b] = n
      /\ \A c \in Blocks \ {b} : idom'[c] = idom[c]
  BY <1>2, <1>3
<1>5. /\ Finished' = Finished /\ rpo' = rpo /\ Blocks' = Blocks
      /\ \A c : Num(c)' = Num(c)
      /\ \A a : Avoiding(a)' = Avoiding(a)
  BY <1>1, SameSearch
<1>6. Finished \subseteq Blocks /\ Entry \in Finished
  BY SearchDone, Numbers
<1>7. \A c \in Blocks : idom[c] # Undefined => idom'[c] # Undefined
  BY <1>2, <1>4
<1> HIDE DEF b, n
<1>8. Tree'
  <2>1. idom'[Entry] = Entry
    BY <1>2, <1>4, <1>6 DEF Tree
  <2>2. \A c \in Blocks \ Finished : idom'[c] = Undefined
    BY <1>2, <1>4 DEF Tree
  <2>3. ASSUME NEW c \in Finished \ {Entry}, idom'[c] # Undefined
        PROVE  /\ Processed(idom[c])' /\ Num(idom'[c]) > Num(c)
               /\ \A a \in Blocks \ {c} : c \notin Avoiding(a) => idom'[c] \notin Avoiding(a)
    <3>1. CASE c = b
      <4>1. idom'[c] = n
        BY <1>4, <3>1
      <4>2. n \in Finished /\ idom'[n] # Undefined
        BY <1>2, <1>7 DEF Processed
      <4> QED
        BY <1>2, <1>5, <3>1, <4>1, <4>2 DEF Processed, Undefined
    <3>2. CASE c # b
      <4>1. idom'[c] = idom[c]
        BY <1>4, <1>6, <3>2
      <4>2. /\ Processed(idom[c]) /\ Num(idom[c]) > Num(c)
            /\ \A a \in Blocks \ {c} : c \notin Avoiding(a) => idom[c] \notin Avoiding(a)
        BY <2>3, <4>1 DEF Tree
      <4>3. idom'[c] \in Finished /\ idom'[idom'[c]] # Undefined
        <5>1. idom[c] \in Finished /\ idom[idom[c]] # Undefined
          BY <4>2 DEF Processed
        <5>2. idom'[idom[c]] # Undefined
          BY <1>2, <1>4, <1>6, <5>1
        <5> QED
          BY <4>1, <5>1, <5>2
      <4> QED
        BY <1>5, <4>1, <4>2, <4>3 DEF Processed, Undefined
    <3> QED
      BY <3>1, <3>2
  <2> QED
    BY <1>5, <2>1, <2>2, <2>3 DEF Tree, Entry, Undefined
<1>9. Swept'
  <2>1. at' >= 2
    BY <1>1
  <2>2. \A c \in Finished : Position(c)' = Position(c) /\ Position(c) \in Nat /\ c \in Blocks
                            /\ (Position(c) = at => c = b)
    <3>1. \A c : Position(c)' = Position(c)
      BY <1>1, <1>5 DEF Position
    <3>2. \A c \in Finished : Position(c) \in 1 .. m /\ rpo[Position(c)] = c
      BY SweptOrder
    <3> QED
      BY <1>1, <1>6, <3>1, <3>2 DEF b
  <2>3. ASSUME NEW c \in Finished, Position(c) < at' PROVE idom'[c] # Undefined
    <3>1. CASE c = b
      BY <1>2, <1>4, <3>1
    <3>2. CASE c # b
      <4>1. Position(c) < at
        BY <1>1, <2>2, <2>3, <3>2
      <4> QED
        BY <1>7, <2>2, <4>1 DEF Swept
    <3> QED
      BY <3>1, <3>2
  <2>4. ASSUME ~changed', NEW c \in Finished \ {Entry}, Position(c) < at'
        PROVE  NewIdom(c)' = idom'[c]
    <3>1. ~changed /\ idom' = idom
      BY <1>1, <2>4
    <3>2. NewIdom(c)' = NewIdom(c)
      BY <1>1, <3>1, SameAnswers
    <3>3. NewIdom(c) = idom[c]
      <4>1. CASE c = b
        BY <1>4, <3>1, <4>1 DEF b, n
      <4>2. CASE c # b
        <5>1. Position(c) < at
          BY <1>1, <2>2, <2>4, <4>2
        <5> QED
          BY <2>4, <3>1, <5>1 DEF Swept
      <4> QED
        BY <4>1, <4>2
    <3> QED
      BY <3>1, <3>2, <3>3
  <2> QED
    BY <1>5, <2>1, <2>2, <2>3, <2>4 DEF Swept, Undefined, Entry
<1> QED
  BY <1>4, <1>8, <1>9

-----------------------------------------------------------------------------
(* What the sweeps leave behind *)

\* The blocks that DominatorSpec asks for.
DominatorsOf(b) ==
  IF b \in Avoiding(0) THEN {a \in Blocks : a = b \/ b \notin Avoiding(a)} ELSE {Entry, b}

Climb(par, b) == Reach([a \in Blocks |-> {par[a]}], {b})

LEMMA ClimbFacts ==
  ASSUME GraphOK, NEW par \in [Blocks -> Blocks], NEW b \in Blocks
  PROVE  /\ b \in Climb(par, b) /\ Climb(par, b) \subseteq Blocks
         /\ \A x \in Climb(par, b) : par[x] \in Climb(par, b)
         /\ \A C \in SUBSET Blocks : b \in C /\ (\A x \in C : par[x] \in C) => Climb(par, b) \subseteq C
<1> DEFINE next == [a \in Blocks |-> {par[a]}]
<1>1. /\ DOMAIN next = Blocks /\ \A x \in Blocks : next[x] = {par[x]} /\ next[x] \subseteq Blocks
      /\ {b} \in SUBSET Blocks /\ IsFiniteSet(Blocks)
  BY GraphFacts
<1>2. Climb(par, b) = Reach(next, {b})
  BY DEF Climb
<1> HIDE DEF next
<1>3. /\ {b} \subseteq Climb(par, b) /\ Climb(par, b) \subseteq Blocks
      /\ Closed(Climb(par, b), next)
      /\ \A C \in SUBSET Blocks : {b} \subseteq C /\ Closed(C, next) => Climb(par, b) \subseteq C
  BY <1>1, <1>2, ReachIsLeast
<1>4. \A C \in SUBSET Blocks : Closed(C, next) <=> \A x \in C : par[x] \in C
  BY <1>1 DEF Closed
<1> QED
  BY <1>3, <1>4

\* A sweep over all blocks that changed nothing.
Settled ==
  \A b \in Finished \ {Entry} : idom[b] # Undefined /\ Above(idom[b], Ready(b))

LEMMA LastSweepSettles ==
  ASSUME GraphOK, DomTypeOK, DfsInv, stack = <<>>, Tree, Swept, at \in Nat, at > Len(rpo), ~changed
  PROVE  Settled
<1> SUFFICES ASSUME NEW b \in Finished \ {Entry}
             PROVE  idom[b] # Undefined /\ Above(idom[b], Ready(b))
  BY DEF Settled
<1>1. Position(b) < at
  BY SweptOrder, SearchDone
<1>2. idom[b] # Undefined /\ NewIdom(b) = idom[b]
  BY <1>1 DEF Swept
<1>3. Ready(b) # {}
  <2>1. PICK p \in Finished : b \in ToSet(Succ(p)) /\ Num(p) > Num(b)
    BY SearchDone
  <2>2. Position(p) < at /\ p \in Blocks
    BY SweptOrder, SearchDone, Numbers
  <2>3. idom[p] # Undefined
    BY <2>2 DEF Swept
  <2> QED
    BY <2>1, <2>2, <2>3 DEF Ready, preds
<1> QED
  BY <1>2, <1>3, NewIdomStands DEF Stands

LEMMA ClimbsAreDominators ==
  ASSUME GraphOK, DomTypeOK, DfsInv, stack = <<>>, Tree, Settled,
         NEW par, par = [b \in Blocks |-> IF idom[b] = Undefined THEN Entry ELSE idom[b]],
         NEW b \in Blocks
  PROVE  Climb(par, b) = DominatorsOf(b)
<1>1. /\ par \in [Blocks -> Blocks] /\ par[Entry] = Entry /\ Entry \in Blocks
      /\ \A x \in Blocks \ Finished : par[x] = Entry
      /\ Finished \subseteq Blocks /\ Finished = Avoiding(0) /\ Entry \in Finished
  BY GraphFacts, Numbers, SearchDone DEF DomTypeOK, Tree
<1>2. \A x \in Finished \ {Entry} :
        /\ par[x] \in Finished /\ Num(par[x]) > Num(x)
        /\ \A a \in Blocks \ {x} : x \notin Avoiding(a) => par[x] \notin Avoiding(a)
        /\ \A p \in Finished, C \in SUBSET Blocks :
             x \in ToSet(Succ(p)) /\ p \in C /\ (\A y \in C : par[y] \in C) => par[x] \in C
  <2> TAKE x \in Finished \ {Entry}
  <2>1. par[x] = idom[x] /\ idom[x] # Undefined /\ Above(idom[x], Ready(x))
    BY <1>1 DEF Settled
  <2>2. /\ par[x] \in Finished /\ Num(par[x]) > Num(x)
        /\ \A a \in Blocks \ {x} : x \notin Avoiding(a) => par[x] \notin Avoiding(a)
    BY <2>1 DEF Tree, Processed
  <2>3. ASSUME NEW p \in Finished, NEW C \in SUBSET Blocks,
               x \in ToSet(Succ(p)), p \in C, \A y \in C : par[y] \in C
        PROVE  par[x] \in C
    <3> DEFINE E == C \cap Finished
    <3>1. idom[p] # Undefined
      BY GraphFacts DEF Settled, Tree, Entry
    <3>2. p \in Ready(x)
      BY <1>1, <2>3, <3>1 DEF Ready, preds
    <3>3. \A y \in E : idom[y] \in E
      <4> TAKE y \in E
      <4>1. CASE y = Entry
        BY <4>1 DEF Tree
      <4>2. CASE y # Entry
        BY <1>1, <2>3, <4>2 DEF Settled, Tree, Processed
      <4> QED
        BY <4>1, <4>2
    <3>4. E \in SUBSET Blocks /\ Ready(x) \cap E # {}
      BY <2>3, <3>2
    <3> HIDE DEF E
    <3>5. idom[x] \in E
      BY <2>1, <3>3, <3>4 DEF Above
    <3> QED
      BY <2>1, <3>5 DEF E
  <2> QED
    BY <2>2, <2>3
<1>3. \A x \in Blocks :
        /\ x \in Climb(par, x) /\ Climb(par, x) \subseteq Blocks
        /\ \A y \in Climb(par, x) : par[y] \in Climb(par, x)
        /\ \A C \in SUBSET Blocks : x \in C /\ (\A y \in C : par[y] \in C) => Climb(par, x) \subseteq C
  BY <1>1, ClimbFacts
<1>4. CASE b \notin Finished
  <2>1. Climb(par, b) \subseteq {Entry, b}
    <3>1. {Entry, b} \in SUBSET Blocks /\ b \in {Entry, b} /\ \A y \in {Entry, b} : par[y] \in {Entry, b}
      BY <1>1, <1>4
    <3> QED
      BY <1>3, <3>1
  <2>2. {Entry, b} \subseteq Climb(par, b)
    BY <1>1, <1>3, <1>4
  <2> QED
    BY <1>1, <1>4, <2>1, <2>2 DEF DominatorsOf
<1>5. ASSUME NEW a \in Blocks, a # b, b \in Finished, b \notin Avoiding(a)
      PROVE  a \in Climb(par, b)
  <2> SUFFICES ASSUME a \notin Climb(par, b) PROVE FALSE
    OBVIOUS
  <2> DEFINE X == {x \in Climb(par, b) \cap Finished : x \notin Avoiding(a)}
             T == {Len(order) - Num(x) : x \in X}
  <2>1. \A x \in Finished : Num(x) \in 0 .. Len(order) /\ Len(order) \in Nat
    BY <1>1, Numbers, SearchDone
  <2>2. T \subseteq Nat
    BY <2>1
  <2>3. b \in X
    BY <1>3, <1>5
  <2>4. PICK n \in T : \A k \in T : n <= k
    <3>1. T # {}
      BY <2>3
    <3> HIDE DEF T
    <3> QED
      BY <2>2, <3>1, SmallestNumber
  <2>5. PICK x \in X : n = Len(order) - Num(x)
    BY <2>4
  <2>6. x # a /\ x # Entry
    BY <1>5, AvoidingFacts
  <2>7. par[x] \in X /\ Num(par[x]) > Num(x)
    BY <1>2, <1>3, <1>5, <2>6
  <2>8. Len(order) - Num(par[x]) \in T
    BY <2>7
  <2>9. n <= Len(order) - Num(par[x])
    <3> HIDE DEF T
    <3> QED
      BY <2>4, <2>8
  <2> QED
    BY <2>1, <2>5, <2>7, <2>9
<1>6. ASSUME NEW a \in Blocks, b \in Avoiding(a), b \in Finished
      PROVE  a \notin Climb(par, b)
  <2> DEFINE C == {x \in Finished : a \notin Climb(par, x)}
  <2>1. {Entry} \ {a} \subseteq C
    <3>1. Climb(par, Entry) \subseteq {Entry}
      <4>1. {Entry} \in SUBSET Blocks /\ Entry \in {Entry} /\ \A y \in {Entry} : par[y] \in {Entry}
        BY <1>1
      <4> QED
        BY <1>1, <1>3, <4>1
    <3> QED
      BY <1>1, <3>1
  <2>2. ASSUME NEW x \in C, NEW s \in ToSet(Succ(x)) \ {a} PROVE s \in C
    <3>1. s \in Finished /\ x \in Blocks
      BY <1>1, SearchDone
    <3>2. CASE s = Entry
      BY <2>1, <3>2
    <3>3. CASE s # Entry
      <4> DEFINE E == {s} \cup Climb(par, x)
      <4>1. par[s] \in Climb(par, x)
        BY <1>2, <1>3, <3>1, <3>3
      <4>2. E \in SUBSET Blocks /\ \A y \in E : par[y] \in E
        BY <1>1, <1>3, <3>1, <4>1
      <4>3. Climb(par, s) \subseteq E
        BY <1>1, <1>3, <3>1, <4>2
      <4> QED
        BY <3>1, <4>3
    <3> QED
      BY <3>2, <3>3
  <2>3. C \in SUBSET Blocks
    BY <1>1
  <2> HIDE DEF C
  <2>4. Avoiding(a) \subseteq C
    BY <2>1, <2>2, <2>3, AvoidingFacts
  <2> QED
    BY <1>6, <2>4 DEF C
<1>7. CASE b \in Finished
  BY <1>1, <1>3, <1>5, <1>6, <1>7 DEF DominatorsOf
<1> QED
  BY <1>4, <1>7

-----------------------------------------------------------------------------
(* The invariant of the passes *)

PassInv ==
  /\ TypeOK
  /\ pc \in {"dfs", "sweep", "dominated"} => iter = 0
  /\ pc = "live" => iter < max_iters /\ at <= Len(cfg.blocks)
  /\ pc = "dfs" => idom = [b \in Blocks |-> IF b = Entry THEN Entry ELSE Undefined]
  /\ cfg.error => stack = <<>> /\ pc # "sweep"
  /\ pc \in {"dfs", "sweep"} /\ ~cfg.error => DfsInv
  /\ pc = "sweep" => stack = <<>> /\ Tree /\ Swept
  /\ pc \notin {"dfs", "sweep"} => \A b \in Blocks : Chain(b) = DominatorsOf(b)

LEMMA InitPassInv ==
  ASSUME GraphOK, PassInit
  PROVE  PassInv
<1>1. /\ pc = "dfs" /\ at = 0 /\ changed = FALSE /\ iter = 0 /\ live_in = {} /\ live_out = {}
      /\ tables = [use |-> {}, def |-> {}]
      /\ stack = (IF cfg.error THEN <<>> ELSE <<Frame(Entry)>>)
      /\ seen = {Entry} /\ order = <<>>
      /\ idom = [b \in Blocks |-> IF b = Entry THEN Entry ELSE Undefined]
  BY DEF PassInit, DomInit, LiveInit
<1>2. Len(cfg.blocks) \in Nat /\ Entry \in Blocks
  BY GraphFacts
<1>3. Frame(Entry) \in [block : Blocks, next : Nat \ {0}] /\ Frame(Entry).block = Entry /\ Frame(Entry).next = 1
  BY <1>2 DEF Frame
<1>4. DomTypeOK
  <2>1. stack \in Seq([block : Blocks, next : Nat \ {0}])
    <3> DEFINE F == [block : Blocks, next : Nat \ {0}]
    <3> HIDE DEF F
    <3>1. Frame(Entry) \in F
      BY <1>3 DEF F
    <3>2. stack \in Seq(F)
      BY <1>1, <3>1
    <3> QED
      BY <3>2 DEF F
  <2>2. order \in Seq(Blocks)
    BY <1>1
  <2> QED
    BY <1>1, <1>2, <2>1, <2>2 DEF DomTypeOK
<1>5. TypeOK
  <2>1. tables \in Tables
    BY <1>1 DEF Tables
  <2>2. iter \in 0 .. max_iters /\ at \in 0 .. Len(cfg.blocks) + 2
    BY <1>1, <1>2 DEF max_iters
  <2> QED
    BY <1>1, <1>4, <2>1, <2>2 DEF TypeOK
<1>6. ASSUME ~cfg.error PROVE DfsInv
  <2>1. stack = <<Frame(Entry)>> /\ DOMAIN stack = {1} /\ stack[1].block = Entry /\ stack[1].next = 1
    BY <1>1, <1>3, <1>6
  <2>2. OnStack = {Entry} /\ Finished = {} /\ DOMAIN order = {}
    BY <1>1, <2>1 DEF OnStack, Finished
  <2>3. Distinct
    BY <1>1, <2>1, <2>2 DEF Distinct
  <2>4. Explored
    <3>1. Len(Succ(Entry)) \in Nat
      BY <1>2, GraphFacts
    <3> QED
      BY <2>1, <2>2, <3>1 DEF Explored
  <2>5. TreeParents
    BY <2>1, <2>2 DEF TreeParents
  <2>6. PathsKnown
    <3>1. \A a : a # Entry => Entry \in Avoiding(a)
      BY AvoidingFacts
    <3>2. Entry \in Avoiding(0)
      BY <3>1 DEF Entry
    <3> QED
      BY <1>1, <2>1, <2>2, <3>1, <3>2 DEF PathsKnown
  <2> QED
    BY <2>3, <2>4, <2>5, <2>6 DEF DfsInv
<1> QED
  BY <1>1, <1>5, <1>6 DEF PassInv, max_iters

LEMMA Types ==
  ASSUME PassInv
  PROVE  /\ GraphOK /\ DomTypeOK /\ cfg.error \in BOOLEAN /\ Len(cfg.blocks) \in Nat \ {0}
         /\ Blocks = 1 .. Len(cfg.blocks) /\ max_iters \in Nat \ {0}
         /\ at \in 0 .. Len(cfg.blocks) + 2 /\ changed \in BOOLEAN /\ iter \in 0 .. max_iters
         /\ tables \in Tables /\ live_in \subseteq Blocks /\ live_out \subseteq Blocks
<1>1. TypeOK /\ GraphOK /\ DomTypeOK
  BY DEF PassInv, TypeOK
<1>2. cfg.error \in BOOLEAN
  BY <1>1 DEF GraphOK
<1>3. Len(cfg.blocks) \in Nat \ {0} /\ Blocks = 1 .. Len(cfg.blocks)
  BY <1>1, GraphFacts
<1> QED
  BY <1>1, <1>2, <1>3 DEF TypeOK, max_iters

\* What the first two loops leave alone.
LEMMA SameLive ==
  ASSUME PassInv, UNCHANGED <<cfg, liveVars>>
  PROVE  /\ tables' \in Tables' /\ live_in' \subseteq Blocks' /\ live_out' \subseteq Blocks'
         /\ iter' \in 0 .. max_iters' /\ iter' = iter /\ GraphOK' /\ Blocks' = Blocks
         /\ Len(cfg'.blocks) = Len(cfg.blocks) /\ cfg'.error = cfg.error
BY Types DEF liveVars, Tables, Blocks, max_iters, GraphOK, Succ

LEMMA SkipKeepsInv ==
  ASSUME PassInv, DomSkip, UNCHANGED liveVars
  PROVE  PassInv'
<1>1. /\ pc = "dfs" /\ cfg.error /\ pc' = "dominated"
      /\ UNCHANGED <<cfg, stack, seen, order, idom, at, changed>>
  BY DEF DomSkip
<1>2. GraphOK /\ DomTypeOK /\ iter = 0 /\ stack = <<>>
      /\ idom = [b \in Blocks |-> IF b = Entry THEN Entry ELSE Undefined]
  BY <1>1, Types DEF PassInv
<1>3. Blocks = {Entry} /\ Succ(Entry) = <<>>
  <2>1. Len(cfg.blocks) = 1 /\ Succ(Entry) = <<>>
    BY <1>1, <1>2 DEF GraphOK
  <2>2. Blocks = 1 .. 1
    BY <1>2, <2>1, GraphFacts
  <2> QED
    BY <2>1, <2>2 DEF Entry
<1>4. idom = [b \in {Entry} |-> Entry]
  BY <1>2, <1>3
<1>5. Blocks' = Blocks /\ GraphOK' = GraphOK /\ (\A a : Avoiding(a)' = Avoiding(a))
  BY <1>1, SameGraph
<1>6. DomTypeOK'
  BY <1>1, <1>2, <1>5 DEF DomTypeOK, Undefined
<1>7. \A b \in Blocks : Chain(b)' = DominatorsOf(b)'
  <2>1. Chain(Entry)' = Climb(idom, Entry)
    BY <1>1, <1>5 DEF Chain, Climb, Entry
  <2>2. idom \in [Blocks -> Blocks] /\ Entry \in Blocks
    BY <1>3, <1>4
  <2>3. Climb(idom, Entry) = {Entry}
    BY <1>2, <1>3, <2>2, ClimbFacts
  <2>4. Entry \in Avoiding(0)
    BY <1>2, AvoidingFacts DEF Entry
  <2>5. DominatorsOf(Entry)' = {Entry}
    BY <1>3, <1>5, <2>4 DEF DominatorsOf, Entry
  <2> QED
    BY <1>3, <2>1, <2>3, <2>5 DEF Entry
<1>8. \A b \in Blocks : idom'[b] # Undefined'
  BY <1>1, <1>3, <1>4 DEF Entry, Undefined
<1>9. TypeOK'
  BY <1>1, <1>5, <1>6, <1>8, SameLive, Types DEF TypeOK
<1> QED
  BY <1>1, <1>2, <1>5, <1>7, <1>9, SameLive DEF PassInv

LEMMA TryKeepsInv ==
  ASSUME PassInv, DfsTry, UNCHANGED liveVars
  PROVE  PassInv'
<1>1. pc = "dfs" /\ stack # <<>> /\ UNCHANGED <<cfg, pc, order, idom, at, changed>>
  BY DEF DfsTry
<1>2. GraphOK /\ DomTypeOK /\ iter = 0 /\ ~cfg.error /\ DfsInv
      /\ idom = [b \in Blocks |-> IF b = Entry THEN Entry ELSE Undefined]
  BY <1>1, Types DEF PassInv
<1>3. DfsInv'
  BY <1>2, TryKeepsDfsInv DEF DfsInv
<1>4. stack' \in Seq(Frames) /\ seen' \subseteq Blocks
  <2>1. PICK x \in ToSet(Succ(stack[Len(stack)].block)) : x \in Blocks /\ stack' \in Seq(Frames) /\ seen' = seen \cup {x}
    BY <1>2, TryEffect
  <2> QED
    BY <1>2, <2>1 DEF DomTypeOK
<1>5. DomTypeOK'
  BY <1>1, <1>2, <1>4, SameLive DEF DomTypeOK, Frames, Undefined
<1>6. TypeOK'
  BY <1>1, <1>5, SameLive, Types DEF TypeOK
<1> QED
  BY <1>1, <1>2, <1>3, <1>6, SameLive DEF PassInv, Entry, Undefined

LEMMA FinishKeepsInv ==
  ASSUME PassInv, DfsFinish, UNCHANGED liveVars
  PROVE  PassInv'
<1>1. pc = "dfs" /\ stack # <<>> /\ UNCHANGED <<cfg, pc, seen, idom, at, changed>>
  BY DEF DfsFinish
<1>2. GraphOK /\ DomTypeOK /\ iter = 0 /\ ~cfg.error /\ DfsInv
      /\ idom = [b \in Blocks |-> IF b = Entry THEN Entry ELSE Undefined]
  BY <1>1, Types DEF PassInv
<1>3. DfsInv'
  BY <1>2, FinishKeepsDfsInv
<1>4. stack' \in Seq(Frames) /\ order' \in Seq(Blocks)
  BY <1>2, FinishEffect
<1>5. DomTypeOK'
  BY <1>1, <1>2, <1>4, SameLive DEF DomTypeOK, Frames, Undefined
<1>6. TypeOK'
  BY <1>1, <1>5, SameLive, Types DEF TypeOK
<1> QED
  BY <1>1, <1>2, <1>3, <1>6, SameLive DEF PassInv, Entry, Undefined

LEMMA SearchEndKeepsInv ==
  ASSUME PassInv, DfsEnd, UNCHANGED liveVars
  PROVE  PassInv'
<1>1. /\ pc = "dfs" /\ stack = <<>> /\ ~cfg.error /\ pc' = "sweep" /\ at' = 2 /\ changed' = FALSE
      /\ UNCHANGED <<cfg, stack, seen, order, idom>>
  BY DEF DfsEnd
<1>2. GraphOK /\ DomTypeOK /\ iter = 0 /\ DfsInv
      /\ idom = [b \in Blocks |-> IF b = Entry THEN Entry ELSE Undefined]
  BY <1>1, Types DEF PassInv
<1>3. /\ Finished' = Finished /\ DfsInv' = DfsInv /\ Blocks' = Blocks /\ GraphOK' = GraphOK
      /\ \A b : Num(b)' = Num(b)
  BY <1>1, SameSearch
<1>4. Finished \subseteq Blocks /\ Entry \in Finished
  BY <1>1, <1>2, SearchDone, Numbers
<1>5. Tree'
  <2>1. Tree
    BY <1>2, <1>4 DEF Tree
  <2>2. \A b \in Finished \ {Entry} : idom[b] = Undefined
    BY <1>2, <1>4
  <2>3. idom'[Entry] = Entry /\ \A b \in Blocks \ Finished : idom'[b] = Undefined
    BY <1>1, <2>1 DEF Tree
  <2> QED
    BY <1>1, <1>3, <2>2, <2>3 DEF Tree, Entry, Undefined
<1>6. Swept'
  <2>1. \A b \in Finished : Position(b)' = Position(b) /\ Position(b) \in 1 .. Len(order)
    BY <1>1, <1>2, <1>3, SweptOrder DEF Position
  <2>2. \A b \in Finished : Position(b) < 2 => b = Entry
    BY <1>1, <1>2, <2>1, SweptOrder
  <2>3. \A b \in Finished : Position(b) < 2 => idom[b] # Undefined
    BY <1>2, <1>4, <2>2 DEF Entry, Undefined
  <2> QED
    BY <1>1, <1>3, <2>1, <2>2, <2>3 DEF Swept, Entry, Undefined
<1>7. DomTypeOK'
  BY <1>1, <1>2, <1>3 DEF DomTypeOK, Undefined
<1>8. TypeOK'
  <2>1. at' \in 0 .. Len(cfg.blocks) + 2
    BY <1>1, Types
  <2> QED
    BY <1>1, <1>7, <2>1, SameLive, Types DEF TypeOK
<1> QED
  BY <1>1, <1>2, <1>3, <1>5, <1>6, <1>8, SameLive DEF PassInv

LEMMA TurnKeepsInv ==
  ASSUME PassInv, SweepBlock, UNCHANGED liveVars
  PROVE  PassInv'
<1>1. /\ pc = "sweep" /\ at <= Len(rpo) /\ at' = at + 1 /\ changed' = (changed \/ idom' # idom)
      /\ UNCHANGED <<cfg, pc, stack, seen, order>>
  BY DEF SweepBlock
<1>2. GraphOK /\ DomTypeOK /\ iter = 0 /\ ~cfg.error /\ DfsInv /\ stack = <<>> /\ Tree /\ Swept /\ at \in Nat
  BY <1>1, Types DEF PassInv
<1>3. DfsInv' = DfsInv /\ Blocks' = Blocks /\ GraphOK' = GraphOK
  BY <1>1, SameSearch
<1>4. Tree' /\ Swept' /\ idom' \in [Blocks -> Blocks \cup {Undefined}]
  BY <1>2, TurnKeepsTree
<1>5. DomTypeOK'
  BY <1>1, <1>2, <1>3, <1>4 DEF DomTypeOK, Undefined
<1>6. at' \in 0 .. Len(cfg.blocks) + 2
  <2>1. Len(rpo) = Len(order) /\ Len(order) <= Len(cfg.blocks) /\ Len(order) \in Nat
    BY <1>2, SweptOrder, OrderFits DEF DfsInv
  <2> QED
    BY <1>1, <1>2, <2>1, Types
<1>7. TypeOK'
  BY <1>1, <1>5, <1>6, SameLive, Types DEF TypeOK
<1> QED
  BY <1>1, <1>2, <1>3, <1>4, <1>7, SameLive DEF PassInv

LEMMA SweepAgainKeepsInv ==
  ASSUME PassInv, SweepAgain, UNCHANGED liveVars
  PROVE  PassInv'
<1>1. /\ pc = "sweep" /\ at > Len(rpo) /\ at' = 2 /\ changed' = FALSE
      /\ UNCHANGED <<cfg, pc, stack, seen, order, idom>>
  BY DEF SweepAgain
<1>2. GraphOK /\ DomTypeOK /\ iter = 0 /\ ~cfg.error /\ DfsInv /\ stack = <<>> /\ Tree /\ Swept
  BY <1>1, Types DEF PassInv
<1>3. /\ Finished' = Finished /\ DfsInv' = DfsInv /\ Blocks' = Blocks /\ GraphOK' = GraphOK
      /\ \A b : Num(b)' = Num(b)
      /\ \A a : Avoiding(a)' = Avoiding(a)
  BY <1>1, SameSearch
<1>4. Tree'
  BY <1>1, <1>2, <1>3 DEF Tree, Processed, Entry, Undefined
<1>5. Swept'
  <2>1. \A b \in Finished : Position(b)' = Position(b) /\ Position(b) \in 1 .. Len(order)
    BY <1>1, <1>2, <1>3, SweptOrder DEF Position
  <2>2. \A b \in Finished : Position(b) < 2 => b = Entry
    BY <1>1, <1>2, <2>1, SweptOrder
  <2>3. idom[Entry] = Entry
    BY <1>2 DEF Tree
  <2> QED
    BY <1>1, <1>3, <2>1, <2>2, <2>3 DEF Swept, Entry, Undefined
<1>6. DomTypeOK'
  BY <1>1, <1>2, <1>3 DEF DomTypeOK, Undefined
<1>7. TypeOK'
  <2>1. at' \in 0 .. Len(cfg.blocks) + 2
    BY <1>1, Types
  <2> QED
    BY <1>1, <1>6, <2>1, SameLive, Types DEF TypeOK
<1> QED
  BY <1>1, <1>2, <1>3, <1>4, <1>5, <1>7, SameLive DEF PassInv

LEMMA SweepEndKeepsInv ==
  ASSUME PassInv, SweepEnd, UNCHANGED liveVars
  PROVE  PassInv'
<1> DEFINE par == [b \in Blocks |-> IF idom[b] = Undefined THEN Entry ELSE idom[b]]
<1>1. /\ pc = "sweep" /\ at > Len(rpo) /\ ~changed /\ pc' = "dominated" /\ at' = 0
      /\ idom' = par
      /\ UNCHANGED <<cfg, stack, seen, order, changed>>
  BY DEF SweepEnd
<1>2. /\ GraphOK /\ DomTypeOK /\ iter = 0 /\ ~cfg.error /\ DfsInv /\ stack = <<>> /\ Tree /\ Swept
      /\ at \in Nat /\ Entry \in Blocks /\ Undefined \notin Blocks
  BY <1>1, Types, GraphFacts DEF PassInv
<1>3. Blocks' = Blocks /\ GraphOK' = GraphOK /\ \A a : Avoiding(a)' = Avoiding(a)
  BY <1>1, SameSearch
<1>4. idom' \in [Blocks -> Blocks]
  BY <1>1, <1>2 DEF DomTypeOK
<1>5. DomTypeOK'
  BY <1>1, <1>2, <1>3, <1>4 DEF DomTypeOK, Undefined
<1>6. \A b \in Blocks : Climb(par, b) = DominatorsOf(b)
  <2>1. Settled
    BY <1>1, <1>2, LastSweepSettles
  <2> QED
    BY <1>2, <2>1, ClimbsAreDominators
<1>7. \A b \in Blocks : (Chain(b) = DominatorsOf(b))'
  <2> TAKE b \in Blocks
  <2>1. Chain(b)' = Climb(par, b)
    BY <1>1, <1>3 DEF Chain, Climb
  <2>2. DominatorsOf(b)' = DominatorsOf(b)
    BY <1>3 DEF DominatorsOf, Entry
  <2> QED
    BY <1>6, <2>1, <2>2
<1> HIDE DEF par
<1>8. \A b \in Blocks : idom'[b] # Undefined'
  BY <1>2, <1>4 DEF Undefined
<1>9. TypeOK'
  BY <1>1, <1>3, <1>5, <1>8, SameLive, Types DEF TypeOK
<1> QED
  BY <1>1, <1>2, <1>3, <1>7, <1>9, SameLive DEF PassInv

\* The dominators are left alone by the passes that follow.
LEMMA SameDominators ==
  ASSUME PassInv, UNCHANGED <<cfg, domVars>>
  PROVE  /\ DomTypeOK' = DomTypeOK /\ GraphOK' = GraphOK /\ Blocks' = Blocks /\ max_iters' = max_iters
         /\ Tables' = Tables /\ \A b : Succ(b)' = Succ(b)
         /\ \A b : Chain(b)' = Chain(b) /\ DominatorsOf(b)' = DominatorsOf(b)
BY DEF domVars, DomTypeOK, GraphOK, Blocks, max_iters, Tables, Chain, DominatorsOf, Avoiding,
       Succ, Undefined, Entry

LEMMA LiveStartKeepsInv ==
  ASSUME PassInv, NEW t \in Tables, LiveStart(t)
  PROVE  PassInv'
<1>1. /\ pc = "dominated" /\ tables' = t /\ pc' = (IF cfg.error THEN "done" ELSE "live")
      /\ at' = Len(cfg.blocks) /\ changed' = FALSE
      /\ UNCHANGED <<cfg, domVars, live_in, live_out, iter>>
  BY DEF LiveStart
<1>2. iter = 0 /\ (\A b \in Blocks : Chain(b) = DominatorsOf(b)) /\ (\A b \in Blocks : idom[b] # Undefined)
      /\ (cfg.error => stack = <<>>)
  BY <1>1 DEF PassInv, TypeOK
<1>3. pc' \in {"live", "done"}
  BY <1>1
<1>4. TypeOK'
  <2>1. at' \in 0 .. Len(cfg.blocks) + 2
    BY <1>1, Types
  <2>4. changed' \in BOOLEAN
    BY <1>1, Types, Zenon
  <2>2. /\ GraphOK' /\ DomTypeOK' /\ tables' \in Tables' /\ live_in' \subseteq Blocks'
        /\ live_out' \subseteq Blocks' /\ iter' \in 0 .. max_iters' /\ cfg' = cfg
    BY <1>1, <1>2, <1>3, SameDominators, Types
  <2>3. \A b \in Blocks' : idom'[b] # Undefined'
    BY <1>1, <1>2, SameDominators DEF domVars, Undefined
  <2> QED
    BY <1>1, <1>3, <2>1, <2>2, <2>3, <2>4 DEF TypeOK
<1> QED
  BY <1>1, <1>2, <1>3, <1>4, SameDominators, Types DEF PassInv, domVars

LEMMA LiveBlockKeepsInv ==
  ASSUME PassInv, LiveBlock
  PROVE  PassInv'
<1>1. /\ pc = "live" /\ at > 0 /\ pc' = pc /\ at' = at - 1 /\ changed' \in BOOLEAN
      /\ UNCHANGED <<cfg, domVars, tables, iter>>
  BY Types DEF LiveBlock
<1>2. iter < max_iters /\ at <= Len(cfg.blocks) /\ (\A b \in Blocks : Chain(b) = DominatorsOf(b))
      /\ (\A b \in Blocks : idom[b] # Undefined) /\ (cfg.error => stack = <<>>)
  BY <1>1 DEF PassInv, TypeOK
<1>3. at \in Blocks
  BY <1>1, <1>2, Types
<1>4. live_in' \subseteq Blocks /\ live_out' \subseteq Blocks
  BY <1>3, Types DEF LiveBlock, Has
<1>5. TypeOK'
  BY <1>1, <1>2, <1>4, SameDominators, Types DEF TypeOK, domVars, Undefined
<1> QED
  BY <1>1, <1>2, <1>5, SameDominators, Types DEF PassInv, domVars

LEMMA LiveSweepEndKeepsInv ==
  ASSUME PassInv, LiveSweepEnd
  PROVE  PassInv'
<1>1. /\ pc = "live" /\ at = 0 /\ iter' = iter + 1
      /\ \/ pc' = "live" /\ iter' < max_iters /\ at' = Len(cfg.blocks) /\ changed' = FALSE
         \/ pc' = "done" /\ at' = at /\ changed' = changed
      /\ UNCHANGED <<cfg, domVars, tables, live_in, live_out>>
  BY DEF LiveSweepEnd
<1>2. iter < max_iters /\ (\A b \in Blocks : Chain(b) = DominatorsOf(b))
      /\ (\A b \in Blocks : idom[b] # Undefined) /\ (cfg.error => stack = <<>>)
  BY <1>1 DEF PassInv, TypeOK
<1>3. iter' \in 0 .. max_iters
  BY <1>1, <1>2, Types
<1>4. TypeOK'
  <2>1. at' \in 0 .. Len(cfg.blocks) + 2
    BY <1>1, Types
  <2>4. changed' \in BOOLEAN
    BY <1>1, Types, Zenon
  <2>2. /\ GraphOK' /\ DomTypeOK' /\ tables' \in Tables' /\ live_in' \subseteq Blocks'
        /\ live_out' \subseteq Blocks' /\ iter' \in 0 .. max_iters' /\ cfg' = cfg
    BY <1>1, <1>2, <1>3, SameDominators, Types
  <2>3. \A b \in Blocks' : idom'[b] # Undefined'
    BY <1>1, <1>2, SameDominators DEF domVars, Undefined
  <2> QED
    BY <1>1, <1>3, <2>1, <2>2, <2>3, <2>4 DEF TypeOK
<1> QED
  BY <1>1, <1>2, <1>4, SameDominators, Types DEF PassInv, domVars

LEMMA StutterKeepsInv ==
  ASSUME PassInv, UNCHANGED passVars
  PROVE  PassInv'
<1>1. UNCHANGED <<cfg, pc, stack, seen, order, idom, at, changed, tables, live_in, live_out, iter>>
  BY DEF passVars, domVars, liveVars
<1>2. /\ DomTypeOK' = DomTypeOK /\ GraphOK' = GraphOK /\ Blocks' = Blocks /\ max_iters' = max_iters
      /\ Tables' = Tables
      /\ \A b : Chain(b)' = Chain(b) /\ DominatorsOf(b)' = DominatorsOf(b)
  BY <1>1, SameDominators DEF domVars
<1>3. /\ Finished' = Finished /\ DfsInv' = DfsInv
      /\ \A b : Num(b)' = Num(b) /\ Position(b)' = Position(b)
      /\ \A a : Avoiding(a)' = Avoiding(a)
  BY <1>1, SameSearch DEF Position
<1>4. Tree' = Tree
  BY <1>1, <1>2, <1>3 DEF Tree, Processed, Entry, Undefined
<1>5. Swept' = Swept
  BY <1>1, <1>3, SameAnswers DEF Swept, Entry, Undefined
<1>6. TypeOK'
  BY <1>1, <1>2 DEF PassInv, TypeOK, Undefined
<1> QED
  BY <1>1, <1>2, <1>3, <1>4, <1>5, <1>6 DEF PassInv, Entry, Undefined

LEMMA StepKeepsInv ==
  ASSUME PassInv, [\E t \in Tables : PassNext(t)]_passVars
  PROVE  PassInv'
<1>1. CASE UNCHANGED passVars
  BY <1>1, StutterKeepsInv
<1>2. ASSUME NEW t \in Tables, PassNext(t) PROVE PassInv'
  <2>1. CASE DomNext /\ UNCHANGED liveVars
    BY <2>1, SkipKeepsInv, TryKeepsInv, FinishKeepsInv, SearchEndKeepsInv, TurnKeepsInv,
       SweepAgainKeepsInv, SweepEndKeepsInv DEF DomNext
  <2> QED
    BY <1>2, <2>1, LiveStartKeepsInv, LiveBlockKeepsInv, LiveSweepEndKeepsInv DEF PassNext
<1> QED
  BY <1>1, <1>2

\* The inductive invariant of the passes (dominators.cpp:33-181, liveness.cpp:811-886): what the
\* search, its numbers, the parents and the sweeps are between any two of their turns.
THEOREM PassInvHolds == PassSpec => []PassInv
<1>1. GraphOK /\ PassInit => PassInv
  BY InitPassInv
<1>2. PassInv /\ [\E t \in Tables : PassNext(t)]_passVars => PassInv'
  BY StepKeepsInv
<1> QED
  BY <1>1, <1>2, PTL DEF PassSpec

\* On every graph of the builder and for any tables of the walk, the parents of the dominator
\* pass are blocks, every block has one once the pass is over (dominators.cpp:170-179), and
\* the sweeps of compute_liveness stay within their bound (liveness.cpp:831).
THEOREM TypeCorrect == PassSpec => []TypeOK
<1>1. PassInv => TypeOK
  BY DEF PassInv
<1> QED
  BY <1>1, PassInvHolds, PTL

-----------------------------------------------------------------------------
(* The answer is the one DominatorSpec defines *)

LEMMA PromisedIs ==
  ASSUME GraphOK, NEW b \in Blocks
  PROVE  Promise!DominatorsOf(b) = DominatorsOf(b)
<1> DEFINE succ == [x \in Blocks |-> Succ(x)]
<1>1. /\ DOMAIN succ = Blocks
      /\ \A x \in Blocks : {succ[x][i] : i \in DOMAIN succ[x]} = ToSet(Succ(x))
  BY DEF ToSet
<1>2. \A a : Promise!Reached(a) = Avoiding(a)
  <2> TAKE a
  <2>1. [x \in DOMAIN succ |-> {succ[x][i] : i \in DOMAIN succ[x]} \ {a}]
          = [x \in Blocks |-> ToSet(Succ(x)) \ {a}]
    BY <1>1
  <2>2. Promise!Reached(a) = Reach([x \in DOMAIN succ |-> {succ[x][i] : i \in DOMAIN succ[x]} \ {a}], {1} \ {a})
    <3>1. \A nx, S : Promise!Reach(nx, S) = Reach(nx, S)
      <4>1. \A S : Promise!Cardinality(S) = Cardinality(S)
        BY DEF Promise!Cardinality, Cardinality
      <4> QED
        BY <4>1 DEF Promise!Reach, Reach
    <3> QED
      BY <3>1 DEF Promise!Reached
  <2> QED
    BY <2>1, <2>2 DEF Avoiding, Entry
<1> QED
  BY <1>1, <1>2 DEF Promise!DominatorsOf, DominatorsOf, Entry

\* The parents that compute_dominators leaves behind (dominators.cpp:112-180), climbed as
\* dominates_query climbs them (cfg_storage.cpp:87-114), are the blocks that every path from
\* the entry passes: the pass makes the one step of DominatorSpec, and nothing later takes the
\* answer back.
THEOREM DominatorsRefine == PassSpec => Promise!Safety
<1> DEFINE succ == [b \in Blocks |-> Succ(b)]
           doms == IF pc \in {"dfs", "sweep"} THEN None ELSE [b \in Blocks |-> Chain(b)]
<1>1. GraphOK /\ PassInit => Promise!Init
  BY DEF PassInit, Promise!Init
<1>2. PassInv /\ PassInv' /\ [\E t \in Tables : PassNext(t)]_passVars
        => [Promise!Answer]_<<succ, doms>>
  <2> SUFFICES ASSUME PassInv, PassInv', [\E t \in Tables : PassNext(t)]_passVars
               PROVE  [Promise!Answer]_<<succ, doms>>
    OBVIOUS
  <2>1. cfg' = cfg
    BY DEF PassNext, DomNext, DomSkip, DfsTry, DfsFinish, DfsEnd, SweepBlock, SweepAgain, SweepEnd,
           LiveStart, LiveBlock, LiveSweepEnd, passVars
  <2>2. Blocks' = Blocks /\ succ' = succ
    BY <2>1 DEF Blocks, Succ
  <2>3. CASE pc' \in {"dfs", "sweep"}
    <3>1. pc \in {"dfs", "sweep"}
      BY <2>3 DEF PassNext, DomNext, DomSkip, DfsTry, DfsFinish, DfsEnd, SweepBlock, SweepAgain,
                  SweepEnd, LiveStart, LiveBlock, LiveSweepEnd, passVars
    <3>2. doms' = doms
      BY <2>3, <3>1
    <3> QED
      BY <2>2, <3>2
  <2>4. CASE pc \in {"dfs", "sweep"} /\ pc' \notin {"dfs", "sweep"}
    <3>1. doms = None
      BY <2>4
    <3>2. \A b \in Blocks : Chain(b)' = Promise!DominatorsOf(b)
      <4> TAKE b \in Blocks
      <4>1. Chain(b)' = DominatorsOf(b)'
        BY <2>2, <2>4 DEF PassInv
      <4>2. DominatorsOf(b)' = DominatorsOf(b)
        BY <2>1 DEF DominatorsOf, Avoiding, Blocks, Succ, Entry
      <4> QED
        BY <4>1, <4>2, PromisedIs, Types
    <3>3. doms' = [b \in Blocks |-> Promise!DominatorsOf(b)]
      BY <2>2, <2>4, <3>2
    <3>4. DOMAIN succ = Blocks
      OBVIOUS
    <3> QED
      BY <2>2, <3>1, <3>3, <3>4 DEF Promise!Answer
  <2>5. CASE pc \notin {"dfs", "sweep"} /\ pc' \notin {"dfs", "sweep"}
    <3>1. UNCHANGED idom
      BY <2>5 DEF PassNext, DomNext, DomSkip, DfsTry, DfsFinish, DfsEnd, SweepBlock, SweepAgain,
                  SweepEnd, LiveStart, LiveBlock, LiveSweepEnd, passVars, domVars
    <3>2. doms' = doms
      BY <2>2, <2>5, <3>1 DEF Chain
    <3> QED
      BY <2>2, <3>2
  <2> QED
    BY <2>3, <2>4, <2>5
<1>3. PassSpec => []PassInv
  BY PassInvHolds
<1> QED
  BY <1>1, <1>2, <1>3, PTL DEF PassSpec, Promise!Safety

-----------------------------------------------------------------------------
(* The sweeps of the liveness *)

\* What a turn at b decides.
LiveOutOf(b) == \E s \in ToSet(Succ(b)) : s \in live_in
LiveInto(b) == b \in tables.use \/ (LiveOutOf(b) /\ b \notin tables.def)

\* The sets only grow, so every sweep but the last adds to them and the bound is never met;
\* what is live into a block is so for a path; and the blocks of a sweep without a change
\* are as another look would leave them.
LiveInv ==
  /\ pc \in {"dfs", "sweep", "dominated"} => live_in = {} /\ live_out = {} /\ iter = 0
  /\ \A b \in live_out : LiveOutOf(b)
  /\ \A b \in live_in : LiveInto(b) /\ Carried(b) \cap tables.use # {}
  /\ pc = "live" =>
       /\ iter + (IF changed THEN 1 ELSE 0) <= Cardinality(live_in) + Cardinality(live_out)
       /\ ~changed => \A b \in Blocks : b > at /\ LiveInto(b) => b \in live_in
  /\ pc = "done" /\ ~cfg.error => \A b \in Blocks : LiveInto(b) => b \in live_in

LEMMA CarriedFacts ==
  ASSUME GraphOK, NEW b \in Blocks
  PROVE  /\ b \in Carried(b) /\ Carried(b) \subseteq Blocks
         /\ \A a \in Carried(b) : a \notin tables.def => ToSet(Succ(a)) \subseteq Carried(b)
         /\ \A C \in SUBSET Blocks :
              b \in C /\ (\A a \in C : a \notin tables.def => ToSet(Succ(a)) \subseteq C)
                => Carried(b) \subseteq C
<1> DEFINE next == [a \in Blocks |-> IF a \in tables.def THEN {} ELSE ToSet(Succ(a))]
<1>1. /\ DOMAIN next = Blocks /\ {b} \in SUBSET Blocks /\ IsFiniteSet(Blocks)
      /\ \A a \in Blocks : next[a] = (IF a \in tables.def THEN {} ELSE ToSet(Succ(a)))
      /\ \A a \in Blocks : next[a] \subseteq Blocks
  BY GraphFacts
<1>2. Carried(b) = Reach(next, {b})
  BY DEF Carried
<1> HIDE DEF next
<1>3. /\ {b} \subseteq Carried(b) /\ Carried(b) \subseteq Blocks
      /\ Closed(Carried(b), next)
      /\ \A C \in SUBSET Blocks : {b} \subseteq C /\ Closed(C, next) => Carried(b) \subseteq C
  BY <1>1, <1>2, ReachIsLeast
<1>4. \A C \in SUBSET Blocks : Closed(C, next) <=> \A a \in C : a \notin tables.def => ToSet(Succ(a)) \subseteq C
  BY <1>1 DEF Closed
<1> QED
  BY <1>3, <1>4

LEMMA SetsFit ==
  ASSUME PassInv
  PROVE  /\ IsFiniteSet(live_in) /\ Cardinality(live_in) \in Nat
         /\ Cardinality(live_in) <= Len(cfg.blocks)
         /\ IsFiniteSet(live_out) /\ Cardinality(live_out) \in Nat
         /\ Cardinality(live_out) <= Len(cfg.blocks)
<1>1. \A S : S \subseteq Blocks =>
        IsFiniteSet(S) /\ Cardinality(S) \in Nat /\ Cardinality(S) <= Len(cfg.blocks)
  BY Types, GraphFacts, FS_Subset, FS_CardinalityType
<1> QED
  BY <1>1, Types

LEMMA TurnKeepsLive ==
  ASSUME PassInv, PassInv', LiveInv, LiveBlock
  PROVE  LiveInv'
<1> DEFINE b == at
<1>1. /\ pc = "live" /\ at > 0 /\ pc' = pc /\ at' = at - 1
      /\ live_out' = Has(live_out, b, LiveOutOf(b)) /\ live_in' = Has(live_in, b, LiveInto(b))
      /\ changed' = (changed \/ live_in' # live_in \/ live_out' # live_out)
      /\ UNCHANGED <<cfg, domVars, tables, iter>>
  BY DEF LiveBlock, LiveOutOf, LiveInto
<1>2. b \in Blocks /\ b \in Nat /\ GraphOK /\ Blocks \subseteq Nat
  BY <1>1, Types, GraphFacts DEF PassInv
<1>3. /\ live_out' = (IF LiveOutOf(b) THEN live_out \cup {b} ELSE live_out)
      /\ live_in' = (IF LiveInto(b) THEN live_in \cup {b} ELSE live_in)
  BY <1>1 DEF Has, LiveInv
<1>4. Blocks' = Blocks /\ (\A x : Succ(x)' = Succ(x)) /\ (\A x : Carried(x)' = Carried(x))
      /\ GraphOK' = GraphOK
  BY <1>1, SameDominators DEF Carried
<1>5. \A x : (LiveOutOf(x) => LiveOutOf(x)') /\ (LiveInto(x) => LiveInto(x)')
  BY <1>1, <1>3, <1>4 DEF LiveOutOf, LiveInto
<1>6. ASSUME NEW x \in live_in' PROVE LiveInto(x)' /\ Carried(x)' \cap tables'.use # {}
  <2>1. CASE x \in live_in
    BY <1>1, <1>4, <1>5, <2>1 DEF LiveInv
  <2>2. CASE x \notin live_in
    <3>1. x = b /\ LiveInto(b)
      BY <1>3, <1>6, <2>2
    <3>2. CASE b \in tables.use
      BY <1>1, <1>2, <1>4, <1>5, <3>1, <3>2, CarriedFacts
    <3>3. CASE b \notin tables.use
      <4>1. b \notin tables.def /\ LiveOutOf(b)
        BY <3>1, <3>3 DEF LiveInto
      <4>2. PICK s \in ToSet(Succ(b)) : s \in live_in
        BY <4>1 DEF LiveOutOf
      <4>3. s \in Blocks /\ Carried(s) \cap tables.use # {}
        BY <4>2, Types DEF LiveInv
      <4>4. s \in Carried(b)
        BY <1>2, <4>1, CarriedFacts
      <4>5. Carried(s) \subseteq Carried(b)
        BY <1>2, <4>3, <4>4, CarriedFacts
      <4> QED
        BY <1>1, <1>4, <1>5, <3>1, <4>3, <4>5
    <3> QED
      BY <3>2, <3>3
  <2> QED
    BY <2>1, <2>2
<1>7. ASSUME NEW x \in live_out' PROVE LiveOutOf(x)'
  BY <1>3, <1>5, <1>7 DEF LiveInv
<1>8. iter' + (IF changed' THEN 1 ELSE 0) <= Cardinality(live_in') + Cardinality(live_out')
  <2> DEFINE c == Cardinality(live_in) + Cardinality(live_out)
             d == Cardinality(live_in') + Cardinality(live_out')
  <2>1. /\ IsFiniteSet(live_in') /\ IsFiniteSet(live_out') /\ Cardinality(live_in') \in Nat
        /\ Cardinality(live_out') \in Nat /\ Cardinality(live_in) \in Nat /\ Cardinality(live_out) \in Nat
    <3>1. \A S : S \subseteq Blocks => IsFiniteSet(S) /\ Cardinality(S) \in Nat
      BY Types, GraphFacts, FS_Subset, FS_CardinalityType
    <3>2. live_in' \subseteq Blocks /\ live_out' \subseteq Blocks
      BY <1>2, <1>3, Types
    <3> QED
      BY <3>1, <3>2, Types
  <2>2. /\ Cardinality(live_in) <= Cardinality(live_in')
        /\ Cardinality(live_in) = Cardinality(live_in') => live_in' = live_in
    <3>1. live_in \subseteq live_in'
      BY <1>3
    <3> QED
      BY <2>1, <3>1, FS_Subset
  <2>3. /\ Cardinality(live_out) <= Cardinality(live_out')
        /\ Cardinality(live_out) = Cardinality(live_out') => live_out' = live_out
    <3>1. live_out \subseteq live_out'
      BY <1>3
    <3> QED
      BY <2>1, <3>1, FS_Subset
  <2>4. iter \in Nat /\ iter' = iter /\ changed \in BOOLEAN
    BY <1>1, Types
  <2>5. iter + (IF changed THEN 1 ELSE 0) <= c
    BY <1>1 DEF LiveInv
  <2>6. CASE changed
    BY <2>1, <2>2, <2>3, <2>4, <2>5, <2>6
  <2>7. CASE ~changed /\ live_in' = live_in /\ live_out' = live_out
    <3>1. ~changed'
      BY <1>1, <2>7
    <3> QED
      BY <2>1, <2>4, <2>5, <2>7, <3>1
  <2>8. CASE ~changed /\ ~(live_in' = live_in /\ live_out' = live_out)
    <3>1. iter <= c
      BY <2>1, <2>4, <2>5, <2>8
    <3>2. c + 1 <= d
      BY <2>1, <2>2, <2>3, <2>8
    <3> QED
      BY <2>1, <2>4, <3>1, <3>2
  <2> QED
    BY <2>6, <2>7, <2>8
<1>9. ASSUME ~changed', NEW x \in Blocks, x > at', LiveInto(x)' PROVE x \in live_in'
  <2>1. ~changed /\ live_in' = live_in
    BY <1>1, <1>9
  <2>2. LiveInto(x)
    BY <1>1, <1>4, <1>9, <2>1 DEF LiveInto, LiveOutOf
  <2>3. CASE x = b
    BY <1>3, <2>2, <2>3
  <2>4. CASE x # b
    <3>1. x > at
      BY <1>1, <1>2, <1>9, <2>4
    <3> QED
      BY <1>1, <2>1, <2>2, <3>1 DEF LiveInv
  <2> QED
    BY <2>3, <2>4
<1> QED
  BY <1>1, <1>4, <1>6, <1>7, <1>8, <1>9 DEF LiveInv

LEMMA SweepEndKeepsLive ==
  ASSUME PassInv, LiveInv, LiveSweepEnd
  PROVE  LiveInv'
<1>1. /\ pc = "live" /\ at = 0 /\ iter' = iter + 1
      /\ UNCHANGED <<cfg, domVars, tables, live_in, live_out>>
      /\ \/ changed /\ iter' < max_iters /\ pc' = "live" /\ at' = Len(cfg.blocks) /\ changed' = FALSE
         \/ ~(changed /\ iter' < max_iters) /\ pc' = "done" /\ at' = at /\ changed' = changed
  BY DEF LiveSweepEnd
<1>2. /\ Blocks' = Blocks /\ \A x : Succ(x)' = Succ(x) /\ Carried(x)' = Carried(x)
  BY <1>1, SameDominators DEF Carried
<1>3. \A x : LiveOutOf(x)' = LiveOutOf(x) /\ LiveInto(x)' = LiveInto(x)
  BY <1>1, <1>2 DEF LiveOutOf, LiveInto
<1>4. /\ \A b \in live_out' : LiveOutOf(b)'
      /\ \A b \in live_in' : LiveInto(b)' /\ Carried(b)' \cap tables'.use # {}
  BY <1>1, <1>2, <1>3 DEF LiveInv
<1>5. CASE changed
  <2>1. iter + 1 <= Cardinality(live_in) + Cardinality(live_out)
    BY <1>1, <1>5 DEF LiveInv
  <2>2. iter' < max_iters
    BY <1>1, <2>1, SetsFit, Types DEF max_iters
  <2>3. pc' = "live" /\ at' = Len(cfg.blocks) /\ ~changed'
    BY <1>1, <1>5, <2>2
  <2>4. iter' + (IF changed' THEN 1 ELSE 0) <= Cardinality(live_in') + Cardinality(live_out')
    BY <1>1, <2>1, <2>3, SetsFit, Types
  <2>5. \A b \in Blocks' : ~(b > at')
    BY <1>2, <2>3, Types
  <2> QED
    BY <1>4, <2>3, <2>4, <2>5 DEF LiveInv
<1>6. CASE ~changed
  <2>1. pc' = "done"
    BY <1>1, <1>6
  <2>2. \A b \in Blocks : b > at
    BY <1>1, Types
  <2>3. \A b \in Blocks : LiveInto(b) => b \in live_in
    BY <1>1, <1>6, <2>2 DEF LiveInv
  <2> QED
    BY <1>1, <1>2, <1>3, <1>4, <2>1, <2>3 DEF LiveInv
<1> QED
  BY <1>5, <1>6

LEMMA StepKeepsLive ==
  ASSUME PassInv, PassInv', LiveInv, [\E t \in Tables : PassNext(t)]_passVars
  PROVE  LiveInv'
<1>1. CASE UNCHANGED passVars
  <2>1. UNCHANGED <<cfg, domVars, pc, at, changed, tables, live_in, live_out, iter>>
    BY <1>1 DEF passVars, liveVars
  <2>2. /\ Blocks' = Blocks /\ \A x : Succ(x)' = Succ(x) /\ Carried(x)' = Carried(x)
    BY <2>1, SameDominators DEF Carried
  <2>3. \A x : LiveOutOf(x)' = LiveOutOf(x) /\ LiveInto(x)' = LiveInto(x)
    BY <2>1, <2>2 DEF LiveOutOf, LiveInto
  <2> QED
    BY <2>1, <2>2, <2>3 DEF LiveInv
<1>2. CASE DomNext /\ UNCHANGED liveVars
  <2>1. pc \in {"dfs", "sweep"} /\ pc' \in {"dfs", "sweep", "dominated"}
    BY <1>2 DEF DomNext, DomSkip, DfsTry, DfsFinish, DfsEnd, SweepBlock, SweepAgain, SweepEnd
  <2>2. UNCHANGED <<tables, live_in, live_out, iter>>
    BY <1>2 DEF liveVars
  <2> QED
    BY <2>1, <2>2 DEF LiveInv
<1>3. ASSUME NEW t \in Tables, LiveStart(t) PROVE LiveInv'
  <2>1. /\ pc = "dominated" /\ pc' = (IF cfg.error THEN "done" ELSE "live")
        /\ at' = Len(cfg.blocks) /\ changed' = FALSE
        /\ UNCHANGED <<cfg, domVars, live_in, live_out, iter>>
    BY <1>3 DEF LiveStart
  <2>2. live_in' = {} /\ live_out' = {} /\ iter' = 0
    BY <2>1 DEF LiveInv
  <2>3. \A b \in Blocks' : ~(b > at')
    BY <2>1, SameDominators, Types
  <2>4. Cardinality({}) = 0
    BY FS_EmptySet
  <2> QED
    BY <2>1, <2>2, <2>3, <2>4 DEF LiveInv
<1>4. ASSUME NEW t \in Tables, PassNext(t) PROVE LiveInv'
  BY <1>2, <1>3, <1>4, TurnKeepsLive, SweepEndKeepsLive DEF PassNext
<1> QED
  BY <1>1, <1>4

\* The inductive invariant of the sweeps of compute_liveness (liveness.cpp:811-886): they say
\* too little at most, grow with every turn that changes something, and a turn left alone has
\* nothing to add.
THEOREM LiveInvHolds == PassSpec => []LiveInv
<1>1. GraphOK /\ PassInit => LiveInv
  BY DEF PassInit, LiveInit, LiveInv
<1>2. PassInv /\ PassInv' /\ LiveInv /\ [\E t \in Tables : PassNext(t)]_passVars => LiveInv'
  BY StepKeepsLive
<1> QED
  BY <1>1, <1>2, PassInvHolds, PTL DEF PassSpec

\* The sweeps stop because nothing changes, never because of their bound (liveness.cpp:827-832).
THEOREM BoundIsNeverMet == PassSpec => [](pc = "live" /\ at = 0 /\ changed => iter + 1 < max_iters)
<1>1. PassInv /\ LiveInv => (pc = "live" /\ at = 0 /\ changed => iter + 1 < max_iters)
  <2> SUFFICES ASSUME PassInv, LiveInv, pc = "live", changed PROVE iter + 1 < max_iters
    OBVIOUS
  <2>1. iter + 1 <= Cardinality(live_in) + Cardinality(live_out)
    BY DEF LiveInv
  <2> QED
    BY <2>1, SetsFit, Types DEF max_iters
<1> QED
  BY <1>1, PassInvHolds, LiveInvHolds, PTL

\* For every graph, and any blocks that read or assign the local, the sweeps of
\* compute_liveness end at the answer over paths (liveness.cpp:818-886).
THEOREM LivenessOverPaths == PassSpec => []LivenessIsPathwise
<1>1. PassInv /\ LiveInv => LivenessIsPathwise
  <2> SUFFICES ASSUME PassInv, LiveInv, pc = "done", ~cfg.error
               PROVE  live_in = {b \in Blocks : Carried(b) \cap tables.use # {}}
    BY DEF LivenessIsPathwise, Done
  <2>1. \A b \in live_in : b \in Blocks /\ Carried(b) \cap tables.use # {}
    BY Types DEF LiveInv
  <2>2. ASSUME NEW b \in Blocks, b \notin live_in PROVE Carried(b) \cap tables.use = {}
    <3> DEFINE C == Blocks \ live_in
    <3>1. \A a \in C : a \notin tables.use /\ (a \in tables.def \/ ~LiveOutOf(a))
      BY DEF LiveInv, LiveInto
    <3>2. \A a \in C : a \notin tables.def => ToSet(Succ(a)) \subseteq C
      BY <3>1, Types, GraphFacts DEF LiveOutOf
    <3>3. Carried(b) \subseteq C
      BY <2>2, <3>2, Types, CarriedFacts
    <3> QED
      BY <3>1, <3>3
  <2> QED
    BY <2>1, <2>2
<1> QED
  BY <1>1, PassInvHolds, LiveInvHolds, PTL
=============================================================================
