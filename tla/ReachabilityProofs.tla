-------------------------- MODULE ReachabilityProofs --------------------------
(***************************************************************************)
(* Walks that count down come to an end, so the recursive functions that   *)
(* describe them exist; what Reach returns.  A recursive function appears  *)
(* to the provers as a CHOOSE, of which nothing is known until a function  *)
(* with its equation is shown to exist.  WalkExists shows it once for all  *)
(* walks of this kind, by the least counterexample: no induction rule with *)
(* an operator for a parameter is needed.                                  *)
(***************************************************************************)
EXTENDS Reachability, FiniteSetTheorems, WellFoundedInduction, TLAPS

-----------------------------------------------------------------------------
(* Walks that end *)

LEMMA SmallestNumber ==
  ASSUME NEW T, T \subseteq Nat, T # {}
  PROVE  \E x \in T : \A y \in T : x <= y
<1>1. PICK x \in T : \A y \in T : <<y, x>> \notin OpToRel(<, Nat)
  BY NatLessThanWellFounded, WFMin, Zenon
<1>2. \A y \in T : ~(y < x)
  BY <1>1 DEF OpToRel
<1>3. ASSUME NEW y \in T PROVE x <= y
  BY <1>2
<1> QED
  BY <1>3

\* Induction on the naturals, for a set of counterexamples.
LEMMA NoFirst ==
  ASSUME NEW T, T \subseteq Nat, \A n \in T : n # 0 /\ n - 1 \in T
  PROVE  T = {}
<1> SUFFICES ASSUME T # {} PROVE FALSE
  OBVIOUS
<1>1. PICK n \in T : \A k \in T : n <= k
  BY SmallestNumber
<1> QED
  BY <1>1

\* f follows next from every d to a stop and returns what base says there.
LeadsTo(f, D, stop, base, next) ==
  /\ f = [d \in D |-> f[d]]
  /\ \A d \in D : f[d] = IF d \in stop THEN base[d] ELSE f[next[d]]

\* A walk that counts down can be made, whatever it does on its way.
LEMMA WalkExists ==
  ASSUME NEW D, NEW K \in Nat, NEW m \in [D -> 0 .. K], NEW stop, NEW base, NEW next,
         \A d \in D \ stop : next[d] \in D /\ m[next[d]] < m[d]
  PROVE  \E f : LeadsTo(f, D, stop, base, next)
<1> DEFINE Good(f, n) == \A d \in D : m[d] < n =>
                            f[d] = IF d \in stop THEN base[d] ELSE f[next[d]]
           T == {n \in Nat : ~\E f : f = [d \in D |-> f[d]] /\ Good(f, n)}
<1>1. T = {}
  <2>1. SUFFICES ASSUME T # {} PROVE FALSE
    OBVIOUS
  <2>2. PICK n \in T : \A k \in T : n <= k
    BY <2>1, SmallestNumber
  <2>3. n # 0
    <3>1. [d \in D |-> base] = [d \in D |-> [e \in D |-> base][d]] /\ Good([d \in D |-> base], 0)
      OBVIOUS
    <3> QED
      BY <3>1
  <2>4. n - 1 \in Nat /\ n - 1 \notin T
    BY <2>2, <2>3
  <2>5. PICK g : g = [d \in D |-> g[d]] /\ Good(g, n - 1)
    BY <2>4
  <2> DEFINE h == [d \in D |-> IF m[d] < n - 1 THEN g[d]
                               ELSE IF d \in stop THEN base[d] ELSE g[next[d]]]
  <2>6. ASSUME NEW d \in D, m[d] < n
        PROVE  h[d] = IF d \in stop THEN base[d] ELSE h[next[d]]
    <3>1. CASE d \in stop
      BY <2>5, <3>1
    <3>2. CASE d \notin stop
      <4>1. next[d] \in D /\ m[next[d]] < n - 1
        BY <2>6, <3>2, <2>2
      <4>2. h[next[d]] = g[next[d]]
        BY <4>1
      <4>3. h[d] = g[next[d]]
        BY <2>5, <3>2
      <4> QED
        BY <3>2, <4>2, <4>3
    <3> QED
      BY <3>1, <3>2
  <2> QED
    BY <2>2, <2>6
<1>2. PICK f : f = [d \in D |-> f[d]] /\ Good(f, K + 1)
  BY <1>1
<1>3. \A d \in D : f[d] = IF d \in stop THEN base[d] ELSE f[next[d]]
  BY <1>2
<1> QED
  BY <1>2, <1>3 DEF LeadsTo

LEMMA ReachIs == 
   ASSUME NEW next, NEW S \in SUBSET DOMAIN next, IsFiniteSet(DOMAIN next), 
      \A a \in DOMAIN next : next[a] \subseteq DOMAIN next
   PROVE \E f : /\ Reach(next, S) = f[<<Cardinality(DOMAIN next), S>>]
                /\ \A n \in 0..Cardinality(DOMAIN next), near \in SUBSET DOMAIN next :
                     f[<<n, near>>] = IF n = 0 THEN near ELSE f[<<n - 1, near \cup UNION {next[a] : a \in near}>>]
<1> DEFINE N == Cardinality(DOMAIN next)
           D == (0 .. N) \X SUBSET DOMAIN next
           stop == {d \in D : d[1] = 0}
           base == [d \in D |-> d[2]]
           nx == [d \in D |-> <<d[1] - 1, d[2] \cup UNION {next[a] : a \in d[2]}>>]
           m == [d \in D |-> d[1]]
           Is(f) == f = [w \in D |-> IF w[1] = 0 THEN w[2] ELSE f[<<w[1] - 1, w[2] \cup UNION {next[a] : a \in w[2]}>>]]
<1>1. N \in Nat
  BY FS_CardinalityType
<1>2. \A d \in D \ stop : nx[d] \in D /\ m[nx[d]] < m[d]
  BY <1>1
<1>3. m \in [D -> 0..N]
  OBVIOUS
<1>4. PICK f : LeadsTo(f, D, stop, base, nx)
  <2> HIDE DEF stop, base, nx, m, D, N
  <2> QED
    BY <1>1, <1>2, <1>3, WalkExists
<1>5. Is(f)
  <2>1. \A w \in D : f[w] = IF w[1] = 0 THEN w[2] ELSE f[<<w[1] - 1, w[2] \cup UNION {next[a] : a \in w[2]}>>]
    BY <1>4 DEF LeadsTo
  <2> HIDE DEF D
  <2> QED
    BY <1>4, <2>1 DEF LeadsTo
<1>6. Is(CHOOSE g : Is(g))
  <2> HIDE DEF Is
  <2> QED
    BY <1>5, Zenon
<1>7. Reach(next, S) = (CHOOSE g : Is(g))[<<N, S>>]
  BY DEF Reach
<1> DEFINE h == CHOOSE g : Is(g)
<1>8. \A n \in 0..N, near \in SUBSET DOMAIN next : <<n, near>> \in D
  OBVIOUS
<1>9. \A w \in D : h[w] = IF w[1] = 0 THEN w[2] ELSE h[<<w[1] - 1, w[2] \cup UNION {next[a] : a \in w[2]}>>]
  <2>1. Is(h)
    BY <1>6
  <2> HIDE DEF h, D
  <2> QED
    BY <2>1
<1> HIDE DEF h
<1>10. Reach(next, S) = h[<<N, S>>]
  BY <1>7 DEF h
<1> QED
  BY <1>8, <1>9, <1>10

Closed(C, next) == \A a \in C : next[a] \subseteq C

\* Reach gives the least set that holds S and is closed under next.
LEMMA ReachIsLeast ==
  ASSUME NEW next, NEW S \in SUBSET DOMAIN next, IsFiniteSet(DOMAIN next),
         \A a \in DOMAIN next : next[a] \subseteq DOMAIN next
  PROVE  /\ S \subseteq Reach(next, S) /\ Reach(next, S) \subseteq DOMAIN next
         /\ Closed(Reach(next, S), next)
         /\ \A C \in SUBSET DOMAIN next : S \subseteq C /\ Closed(C, next) => Reach(next, S) \subseteq C
<1> DEFINE V == DOMAIN next
           N == Cardinality(V)
           On(near) == near \cup UNION {next[a] : a \in near}
<1>1. PICK f : /\ Reach(next, S) = f[<<N, S>>]
               /\ \A n \in 0..N, near \in SUBSET V :
                    f[<<n, near>>] = IF n = 0 THEN near ELSE f[<<n - 1, On(near)>>]
  BY ReachIs
<1> DEFINE Good(n, near) ==
             /\ near \subseteq f[<<n, near>>] /\ f[<<n, near>>] \subseteq V
             /\ \A C \in SUBSET V : near \subseteq C /\ Closed(C, next) => f[<<n, near>>] \subseteq C
             /\ \/ Closed(f[<<n, near>>], next)
                \/ Cardinality(f[<<n, near>>]) >= Cardinality(near) + n
           T == {n \in 0..N : \E near \in SUBSET V : ~Good(n, near)}
<1>2. N \in Nat
  BY FS_CardinalityType
<1>3. \A near \in SUBSET V :
        /\ On(near) \in SUBSET V /\ near \subseteq On(near)
        /\ On(near) = near <=> Closed(near, next)
        /\ IsFiniteSet(near) /\ Cardinality(near) \in Nat /\ Cardinality(near) <= N
        /\ Cardinality(near) = N => near = V
        /\ \A C \in SUBSET V : near \subseteq C /\ Closed(C, next) => On(near) \subseteq C
  <2> TAKE near \in SUBSET V
  <2>1. /\ On(near) \in SUBSET V /\ near \subseteq On(near)
        /\ On(near) = near <=> Closed(near, next)
        /\ \A C \in SUBSET V : near \subseteq C /\ Closed(C, next) => On(near) \subseteq C
    BY DEF Closed
  <2>2. /\ IsFiniteSet(near) /\ Cardinality(near) <= N
        /\ Cardinality(near) = N => near = V
    BY FS_Subset
  <2>3. Cardinality(near) \in Nat
    BY <2>2, FS_CardinalityType
  <2> QED
    BY <2>1, <2>2, <2>3
<1>4. \A near \in SUBSET V : Good(0, near)
  <2> HIDE DEF V, N, On
  <2> TAKE near \in SUBSET V
  <2>1. 0 \in 0 .. N
    BY <1>2
  <2>2. f[<<0, near>>] = IF 0 = 0 THEN near ELSE f[<<0 - 1, On(near)>>]
    BY <1>1, <2>1
  <2> QED
    BY <1>3, <2>2
<1>5. \A n \in T : n # 0 /\ n - 1 \in T
  <2> HIDE DEF Good
  <2> TAKE n \in T
  <2>3. n \in 0..N /\ n # 0
    BY <1>4
  <2>4. SUFFICES ASSUME n - 1 \notin T PROVE FALSE
    BY <2>3
  <2>2. \A near \in SUBSET V : Good(n - 1, near)
    BY <2>3, <2>4, <1>2
  <2> USE DEF Good
  <2>5. ASSUME NEW near \in SUBSET V PROVE Good(n, near)
    <3>1. f[<<n, near>>] = f[<<n - 1, On(near)>>] /\ On(near) \in SUBSET V
      BY <1>1, <1>3, <2>3
    <3>2. Good(n - 1, On(near))
      BY <2>2, <3>1
    <3> HIDE DEF On, V, N
    <3>3. /\ near \subseteq f[<<n, near>>] /\ f[<<n, near>>] \subseteq V
          /\ \A C \in SUBSET V : near \subseteq C /\ Closed(C, next) => f[<<n, near>>] \subseteq C
      BY <3>1, <3>2, <1>3
    <3>4. CASE On(near) = near
      <4>1. Closed(near, next) /\ f[<<n, near>>] = near
        BY <3>3, <3>4, <1>3
      <4> QED
        BY <3>3, <4>1
    <3>5. CASE On(near) # near
      <4>1. Cardinality(near) + 1 <= Cardinality(On(near)) /\ Cardinality(On(near)) \in Nat
        <5>1. near \subseteq On(near) /\ IsFiniteSet(On(near)) /\ Cardinality(near) \in Nat
              /\ Cardinality(On(near)) \in Nat
          BY <1>3, <3>1
        <5>2. Cardinality(near) <= Cardinality(On(near))
              /\ (Cardinality(near) = Cardinality(On(near)) => near = On(near))
          BY <5>1, FS_Subset
        <5> QED
          BY <5>1, <5>2, <3>5
      <4>2. Cardinality(f[<<n, near>>]) \in Nat /\ Cardinality(near) \in Nat
        BY <3>3, <1>3
      <4> QED
        BY <3>1, <3>2, <3>3, <4>1, <4>2, <2>3
    <3> QED
      BY <3>4, <3>5
  <2> HIDE DEF Good
  <2> QED
    BY <2>5
<1>6. Good(N, S)
  <2> HIDE DEF Good
  <2>1. T \subseteq Nat
    BY <1>2
  <2>2. T = {}
    <3> HIDE DEF T
    <3> QED
      BY <1>5, <2>1, NoFirst
  <2> QED
    BY <1>2, <2>2
<1> HIDE DEF V, N
<1>7. Closed(V, next)
  BY DEF Closed, V
<1>8. Closed(f[<<N, S>>], next)
  BY <1>2, <1>3, <1>6, <1>7
<1> QED
  BY <1>1, <1>6, <1>8 DEF V
=============================================================================
