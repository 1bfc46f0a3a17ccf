----------------------------- MODULE DumpProofs -----------------------------
(***************************************************************************)
(* DUMP for every catalog: that the two depth-first passes find the        *)
(* classes of mutual reachability (ComponentsFacts), that the orders of    *)
(* tables and components respect their graphs, and that a script is the    *)
(* first part of a whole, ordered plan (DumpInv), so that it restores in   *)
(* its own order (DumpIsSound).                                            *)
(***************************************************************************)
EXTENDS DatabaseDump, TLAPS, SequenceTheorems, FiniteSetTheorems, WellFoundedInduction

-----------------------------------------------------------------------------
(* Counting up, with a set in the place of a predicate.                    *)

\* A set of naturals that is not empty has a least element.
LEMMA Least ==
    ASSUME NEW S \in SUBSET Nat, S # {}
    PROVE  \E m \in S : \A k \in S : m <= k
PROOF
  <1> DEFINE R == OpToRel(<, Nat)
  <1>1. PICK m \in S : \A k \in S : ~ (<<k, m>> \in R)
    BY NatLessThanWellFounded, WFMin
  <1>2. \A k \in S : ~ (k < m)
    BY <1>1 DEF OpToRel
  <1>3. m \in Nat /\ \A k \in S : k \in Nat
    OBVIOUS
  <1>4. \A k \in S : m <= k
    BY <1>2, <1>3
  <1> QED BY <1>4

\* A set that holds 0 and with every number the next one holds all of 0..n.
LEMMA CountUp ==
    ASSUME NEW n \in Nat, NEW T, 0 \in T, \A m \in 1..n : m - 1 \in T => m \in T
    PROVE  \A m \in 0..n : m \in T
PROOF
  <1> DEFINE S == {m \in 0..n : m \notin T}
  <1>1. SUFFICES ASSUME S # {}
                 PROVE  FALSE
    OBVIOUS
  <1>2. S \in SUBSET Nat
    OBVIOUS
  <1>3. PICK m \in S : \A k \in S : m <= k
    BY <1>1, <1>2, Least
  <1>4. m \in 1..n
    BY <1>3
  <1>5. m - 1 \in 0..n /\ m - 1 \notin S
    BY <1>3, <1>4
  <1> QED BY <1>3, <1>4, <1>5

\* A function defined by what each value makes of the one before exists.
Follows(f, first, F, n) ==
    f[0] = first /\ \A k \in 1..n : f[k] = F[k][f[k - 1]]

LEMMA Recursion ==
    ASSUME NEW n \in Nat, NEW A, NEW first \in A, NEW F \in [1..n -> [A -> A]]
    PROVE  \E f \in [0..n -> A] : Follows(f, first, F, n)
PROOF
  <1> DEFINE T == {m \in 0..n : \E f \in [0..m -> A] : Follows(f, first, F, m)}
  <1>1. 0 \in T
    <2> DEFINE z == [m \in 0..0 |-> first]
    <2>1. z \in [0..0 -> A] /\ Follows(z, first, F, 0)
      BY DEF Follows
    <2> HIDE DEF z
    <2>2. 0 \in 0..n
      OBVIOUS
    <2> QED BY <2>1, <2>2
  <1>2. ASSUME NEW m \in 1..n, m - 1 \in T
        PROVE  m \in T
    <2>1. PICK f \in [0..(m - 1) -> A] : Follows(f, first, F, m - 1)
      BY <1>2
    <2> DEFINE h == [k \in 0..m |-> IF k = m THEN F[m][f[m - 1]] ELSE f[k]]
    <2>2. F[m][f[m - 1]] \in A
      <3>1. f[m - 1] \in A /\ F[m] \in [A -> A]
        BY <2>1
      <3> QED BY <3>1
    <2>3. h \in [0..m -> A]
      BY <2>1, <2>2
    <2>4. /\ h[0] = first /\ h[m] = F[m][f[m - 1]] /\ h[m - 1] = f[m - 1]
          /\ \A k \in 1..(m - 1) : h[k] = f[k] /\ h[k - 1] = f[k - 1]
      BY <2>1 DEF Follows
    <2> HIDE DEF h
    <2>5. \A k \in 1..m : k = m \/ k \in 1..(m - 1)
      OBVIOUS
    <2>6. Follows(h, first, F, m)
      BY <2>1, <2>4, <2>5 DEF Follows
    <2>7. m \in 0..n
      OBVIOUS
    <2> QED BY <2>3, <2>6, <2>7
  <1> HIDE DEF T
  <1>3. \A m \in 0..n : m \in T
    BY <1>1, <1>2, CountUp
  <1>4. n \in T
    BY <1>3
  <1> QED BY <1>4 DEF T

-----------------------------------------------------------------------------
(* Loops.                                                                  *)

Along(at, step, start, list) ==
    /\ at[0] = start /\ \A i \in 1..Len(list) : at[i] = step[list[i]][at[i - 1]]
    /\ Through(step, start, list) = at[Len(list)]

LEMMA ThroughFacts ==
    ASSUME NEW X, NEW A, NEW step \in [X -> [A -> A]], NEW start \in A, NEW list \in Seq(X)
    PROVE  \E at \in [0..Len(list) -> A] : Along(at, step, start, list)
PROOF
  <1> DEFINE n == Len(list)
             F == [m \in 1..n |-> step[list[m]]]
             Up(f) == [i \in 0..n |-> IF i = 0 THEN start ELSE step[list[i]][f[i - 1]]]
             Runs(f) == f[0] = start /\ \A i \in 1..n : f[i] = step[list[i]][f[i - 1]]
  <1>1. n \in Nat /\ \A m \in 1..n : list[m] \in X
    BY ElementOfSeq
  <1> HIDE DEF n
  <1>2. F \in [1..n -> [A -> A]]
    BY <1>1
  <1>3. PICK f \in [0..n -> A] : Follows(f, start, F, n)
    <2> HIDE DEF F
    <2> QED BY <1>1, <1>2, Recursion
  <1>4. f = Up(f)
    BY <1>1, <1>3 DEF Follows
  <1> DEFINE h == CHOOSE x : x = Up(x)
  <1>5. h = Up(h)
    BY <1>4
  <1>6. Through(step, start, list) = h[n]
    BY DEF Through, n
  <1> HIDE DEF h
  <1>7. Runs(h)
    BY <1>1, <1>5
  <1>8. \A m \in 0..n : m \in {k \in 0..n : h[k] \in A}
    <2> DEFINE G == {k \in 0..n : h[k] \in A}
    <2>1. 0 \in G
      BY <1>1, <1>7
    <2>2. ASSUME NEW m \in 1..n, m - 1 \in G
          PROVE  m \in G
      <3>1. h[m - 1] \in A /\ step[list[m]] \in [A -> A] /\ h[m] = step[list[m]][h[m - 1]]
        BY <1>1, <1>7, <2>2
      <3> QED BY <3>1
    <2> HIDE DEF G
    <2>3. \A m \in 0..n : m \in G
      BY <1>1, <2>1, <2>2, CountUp
    <2> QED BY <2>3 DEF G
  <1>9. h \in [0..n -> A]
    BY <1>5, <1>8
  <1>10. Along(h, step, start, list)
    BY <1>6, <1>7 DEF n, Along
  <1> QED BY <1>9, <1>10 DEF n

\* A set that is emptied by picks is listed once, and each pick is that of
\* what is left.
LEMMA DrainedFacts ==
    ASSUME NEW S, IsFiniteSet(S), NEW pick, \A left \in Parts(S) : pick[left] \in left
    PROVE  /\ Drained(pick, S) \in Bijection(1..Cardinality(S), S)
           /\ \A i \in 1..Cardinality(S) :
                 Drained(pick, S)[i] = pick[{Drained(pick, S)[j] : j \in i..Cardinality(S)}]
PROOF
  <1> DEFINE n == Cardinality(S)
             Rest == [left \in SUBSET S |-> left \ {pick[left]}]
             F == [m \in 1..n |-> Rest]
             Up(f) == [m \in 0..n |-> IF m = 0 THEN S ELSE f[m - 1] \ {pick[f[m - 1]]}]
  <1>1. n \in Nat
    BY FS_CardinalityType
  <1> HIDE DEF n
  <1>2. F \in [1..n -> [SUBSET S -> SUBSET S]]
    OBVIOUS
  <1>3. PICK f \in [0..n -> SUBSET S] : Follows(f, S, F, n)
    <2> HIDE DEF F
    <2>1. S \in SUBSET S
      OBVIOUS
    <2> QED BY <1>1, <1>2, <2>1, Recursion
  <1>4. \A m \in 1..n : f[m - 1] \in SUBSET S /\ f[m] = f[m - 1] \ {pick[f[m - 1]]}
    <2> SUFFICES ASSUME NEW m \in 1..n
                 PROVE  f[m - 1] \in SUBSET S /\ f[m] = f[m - 1] \ {pick[f[m - 1]]}
      OBVIOUS
    <2>1. m - 1 \in 0..n
      BY <1>1
    <2>2. f[m - 1] \in SUBSET S
      BY <1>3, <2>1
    <2>3. f[m] = Rest[f[m - 1]]
      BY <1>3 DEF Follows
    <2> QED BY <2>2, <2>3
  <1>5. f = Up(f)
    BY <1>1, <1>3, <1>4 DEF Follows
  <1> DEFINE h == CHOOSE x : x = Up(x)
             d == [i \in 1..n |-> pick[h[i - 1]]]
  <1>6. h = Up(h)
    BY <1>5
  <1>7. Drained(pick, S) = d
    BY DEF Drained, n
  <1> HIDE DEF h
  <1>8. h[0] = S /\ \A m \in 1..n : h[m] = h[m - 1] \ {pick[h[m - 1]]}
    <2>1. 0 \in 0..n /\ \A m \in 1..n : m \in 0..n /\ m # 0
      BY <1>1
    <2> QED BY <1>6, <2>1
  <1>9. \A m \in 0..n : h[m] \in SUBSET S /\ IsFiniteSet(h[m]) /\ Cardinality(h[m]) = n - m
    <2> DEFINE G == {k \in 0..n : h[k] \in SUBSET S /\ IsFiniteSet(h[k])
                                   /\ Cardinality(h[k]) = n - k}
    <2>1. 0 \in G
      BY <1>1, <1>8 DEF n
    <2>2. ASSUME NEW m \in 1..n, m - 1 \in G
          PROVE  m \in G
      <3>1. /\ h[m - 1] \in SUBSET S /\ IsFiniteSet(h[m - 1])
            /\ Cardinality(h[m - 1]) = n - (m - 1)
        BY <2>2
      <3>2. h[m - 1] # {}
        BY <1>1, <3>1, FS_EmptySet
      <3>3. pick[h[m - 1]] \in h[m - 1]
        BY <3>1, <3>2 DEF Parts
      <3>4. h[m] = h[m - 1] \ {pick[h[m - 1]]}
        BY <1>8
      <3>5. IsFiniteSet(h[m]) /\ Cardinality(h[m]) = (n - (m - 1)) - 1
        <4> DEFINE p == pick[h[m - 1]]
                   before == h[m - 1]
        <4>1. IsFiniteSet(before) /\ p \in before /\ h[m] = before \ {p}
          BY <3>1, <3>3, <3>4
        <4>2. Cardinality(before) = n - (m - 1)
          BY <3>1
        <4> HIDE DEF p, before
        <4>3. IsFiniteSet(h[m]) /\ Cardinality(h[m]) = Cardinality(before) - 1
          BY <4>1, FS_RemoveElement
        <4> QED BY <4>2, <4>3
      <3>6. m \in 0..n /\ Cardinality(h[m]) = n - m
        BY <1>1, <3>5
      <3>7. h[m] \in SUBSET S
        BY <3>1, <3>4
      <3> QED BY <3>5, <3>6, <3>7
    <2> HIDE DEF G
    <2>3. \A m \in 0..n : m \in G
      BY <1>1, <2>1, <2>2, CountUp
    <2> QED BY <2>3 DEF G
  <1>10. \A i \in 1..n : d[i] \in h[i - 1] /\ h[i] = h[i - 1] \ {d[i]}
    <2> SUFFICES ASSUME NEW i \in 1..n
                 PROVE  d[i] \in h[i - 1] /\ h[i] = h[i - 1] \ {d[i]}
      OBVIOUS
    <2>1. i - 1 \in 0..n /\ d[i] = pick[h[i - 1]]
      BY <1>1
    <2>2. h[i - 1] \in SUBSET S /\ Cardinality(h[i - 1]) = n - (i - 1)
      BY <1>9, <2>1
    <2>3. h[i - 1] # {}
      <3>1. n - (i - 1) # 0
        BY <1>1
      <3> QED BY <2>2, <3>1, FS_EmptySet
    <2> QED BY <1>8, <2>1, <2>2, <2>3 DEF Parts
  <1>11. \A i \in 0..n : \A j \in 0..n : i <= j => h[j] \subseteq h[i]
    <2> SUFFICES ASSUME NEW i \in 0..n
                 PROVE  \A j \in 0..n : i <= j => h[j] \subseteq h[i]
      OBVIOUS
    <2> DEFINE G == {k \in 0..n : i <= k => h[k] \subseteq h[i]}
    <2>1. 0 \in G
      BY <1>1
    <2>2. ASSUME NEW m \in 1..n, m - 1 \in G
          PROVE  m \in G
      <3>1. CASE i = m
        BY <3>1
      <3>2. CASE i # m
        <4>1. i <= m => i <= m - 1
          BY <1>1, <3>2
        <4>2. h[m] \subseteq h[m - 1]
          BY <1>8
        <4> QED BY <2>2, <4>1, <4>2
      <3> QED BY <3>1, <3>2
    <2> HIDE DEF G
    <2>3. \A m \in 0..n : m \in G
      BY <1>1, <2>1, <2>2, CountUp
    <2> QED BY <2>3 DEF G
  <1> HIDE DEF d
  <1>12. d \in [1..n -> S]
    <2>1. ASSUME NEW i \in 1..n
          PROVE  d[i] \in S
      <3>1. i - 1 \in 0..n
        BY <1>1
      <3> QED BY <1>9, <1>10, <3>1
    <2> QED BY <2>1 DEF d
  <1>13. \A i, j \in 1..n : i < j => d[j] \in h[i] /\ d[i] # d[j]
    <2> SUFFICES ASSUME NEW i \in 1..n, NEW j \in 1..n, i < j
                 PROVE  d[j] \in h[i] /\ d[i] # d[j]
      OBVIOUS
    <2>1. i \in 0..n /\ j - 1 \in 0..n /\ i <= j - 1
      BY <1>1
    <2>2. d[j] \in h[i]
      BY <1>10, <1>11, <2>1
    <2> QED BY <1>10, <2>2
  <1>14. d \in Injection(1..n, S)
    <2>1. \A a, b \in 1..n : d[a] = d[b] => a = b
      BY <1>1, <1>13
    <2> QED BY <1>12, <2>1 DEF Injection, IsInjective
  <1>15. d \in Surjection(1..n, S)
    BY <1>1, <1>14, FS_Injection, FS_Interval DEF n
  <1>16. \A i \in 1..n : h[i - 1] = {d[j] : j \in i..n}
    <2> SUFFICES ASSUME NEW i \in 1..n
                 PROVE  h[i - 1] = {d[j] : j \in i..n}
      OBVIOUS
    <2>1. ASSUME NEW j \in i..n
          PROVE  d[j] \in h[i - 1]
      <3>1. j \in 1..n /\ i - 1 \in 0..n /\ j - 1 \in 0..n /\ i - 1 <= j - 1
        BY <1>1
      <3> QED BY <1>10, <1>11, <3>1
    <2>2. ASSUME NEW x \in h[i - 1]
          PROVE  x \in {d[j] : j \in i..n}
      <3>1. x \in S /\ i - 1 \in 0..n
        BY <1>1, <1>9
      <3>2. PICK j \in 1..n : d[j] = x
        BY <1>15, <3>1 DEF Surjection
      <3>3. CASE j < i
        <4>1. j \in 0..n /\ j <= i - 1
          BY <1>1, <3>3
        <4>2. x \in h[j]
          BY <1>11, <3>1, <4>1
        <4> QED BY <1>10, <3>2, <4>2
      <3>4. CASE ~ (j < i)
        <4>1. j \in i..n
          BY <1>1, <3>4
        <4> QED BY <3>2, <4>1
      <3> QED BY <3>3, <3>4
    <2> QED BY <2>1, <2>2
  <1>17. \A i \in 1..n : d[i] = pick[h[i - 1]]
    BY DEF d
  <1>18. d \in Bijection(1..n, S)
    BY <1>14, <1>15 DEF Bijection
  <1>19. \A i \in 1..n : d[i] = pick[{d[j] : j \in i..n}]
    BY <1>16, <1>17
  <1> QED BY <1>7, <1>18, <1>19 DEF n

LEMMA SortedFacts ==
    ASSUME NEW S \in SUBSET Nat, IsFiniteSet(S)
    PROVE  /\ Sorted(S) \in Seq(S) /\ Len(Sorted(S)) = Cardinality(S)
           /\ Sorted(S) \in Bijection(1..Cardinality(S), S)
           /\ \A x \in S : \E i \in 1..Len(Sorted(S)) : Sorted(S)[i] = x
PROOF
  <1> DEFINE n == Cardinality(S)
             pick == [left \in Parts(S) |-> Min(left)]
  <1>1. \A left \in Parts(S) : pick[left] \in left
    <2> SUFFICES ASSUME NEW left \in Parts(S)
                 PROVE  pick[left] \in left
      OBVIOUS
    <2>1. left \in SUBSET Nat /\ left # {}
      BY DEF Parts
    <2>2. \E m \in left : \A k \in left : m <= k
      BY <2>1, Least
    <2>3. Min(left) \in left
      BY <2>2 DEF Min
    <2> QED BY <2>3
  <1>2. n \in Nat
    BY FS_CardinalityType
  <1>3. Sorted(S) = Drained(pick, S)
    BY DEF Sorted
  <1> HIDE DEF pick
  <1>4. Sorted(S) \in Bijection(1..n, S)
    BY <1>1, <1>3, DrainedFacts
  <1> HIDE DEF n
  <1>5. Sorted(S) \in [1..n -> S] /\ \A x \in S : \E i \in 1..n : Sorted(S)[i] = x
    BY <1>4 DEF Bijection, Injection, Surjection
  <1>6. Sorted(S) \in Seq(S) /\ Len(Sorted(S)) = n
    BY <1>2, <1>5
  <1> QED BY <1>4, <1>5, <1>6 DEF n

-----------------------------------------------------------------------------
(* Reachability.                                                           *)

Graphs == {g \in UNION {[D -> SUBSET D] : D \in SUBSET Nat} : IsFiniteSet(DOMAIN g)}

LEMMA GraphFacts ==
    ASSUME NEW g \in Graphs
    PROVE  /\ IsFiniteSet(DOMAIN g) /\ (DOMAIN g) \subseteq Nat
           /\ g \in [DOMAIN g -> SUBSET DOMAIN g]
PROOF
  <1>1. PICK D \in SUBSET Nat : g \in [D -> SUBSET D]
    BY DEF Graphs
  <1>2. DOMAIN g = D
    BY <1>1
  <1> QED BY <1>1, <1>2 DEF Graphs

LEMMA ReachFacts ==
    ASSUME NEW g \in Graphs
    PROVE  /\ \A t \in DOMAIN g : Reaches(g, t, t)
           /\ \A t \in DOMAIN g : \A u \in g[t] : Reaches(g, t, u)
           /\ \A t, u, v \in DOMAIN g : Reaches(g, t, u) /\ Reaches(g, u, v) => Reaches(g, t, v)
PROOF
  BY GraphFacts DEF Reaches, ClosedUnder

\* A way out of a set leaves it by an edge.
LEMMA WayOut ==
    ASSUME NEW g \in Graphs, NEW t \in DOMAIN g, NEW u \in DOMAIN g, Reaches(g, t, u),
           NEW set \in SUBSET DOMAIN g, t \in set, u \notin set
    PROVE  \E p \in set : \E q \in g[p] :
              q \in DOMAIN g /\ q \notin set /\ Reaches(g, t, p) /\ Reaches(g, t, q)
PROOF
  <1> DEFINE near == {w \in set : Reaches(g, t, w)}
  <1>1. t \in near /\ near \in SUBSET DOMAIN g /\ u \notin near
    BY ReachFacts
  <1>2. ~ClosedUnder(g, near)
    BY <1>1 DEF Reaches
  <1>3. PICK p \in near : ~ (g[p] \subseteq near)
    BY <1>2 DEF ClosedUnder
  <1>4. PICK q \in g[p] : q \notin near
    BY <1>3
  <1>5. p \in DOMAIN g /\ q \in DOMAIN g
    BY <1>1, <1>3, <1>4, GraphFacts
  <1>6. Reaches(g, p, q) /\ Reaches(g, t, p)
    BY <1>5, <1>3, <1>4, ReachFacts
  <1>7. Reaches(g, t, q)
    BY <1>5, <1>6, ReachFacts
  <1> QED BY <1>3, <1>4, <1>5, <1>6, <1>7

\* Tables that reach each other have one component.
LEMMA TogetherFacts ==
    ASSUME NEW g \in Graphs, NEW t \in DOMAIN g
    PROVE  /\ Together(g, t) \in SUBSET DOMAIN g /\ t \in Together(g, t)
           /\ \A u \in Together(g, t) : Together(g, u) = Together(g, t)
PROOF
  <1>1. t \in Together(g, t)
    BY ReachFacts DEF Together
  <1>2. ASSUME NEW u \in Together(g, t)
        PROVE  Together(g, u) = Together(g, t)
    <2>1. u \in DOMAIN g /\ Reaches(g, t, u) /\ Reaches(g, u, t)
      BY <1>2 DEF Together
    <2>2. \A v \in DOMAIN g : Reaches(g, u, v) <=> Reaches(g, t, v)
      BY <2>1, ReachFacts
    <2>3. \A v \in DOMAIN g : Reaches(g, v, u) <=> Reaches(g, v, t)
      BY <2>1, ReachFacts
    <2> QED BY <2>2, <2>3 DEF Together
  <1> QED BY <1>1, <1>2 DEF Together

-----------------------------------------------------------------------------
(* Depth-first search.                                                     *)

\* A step of a search, for every table.
Steps(g) == [DOMAIN g -> [Walks(g) -> Walks(g)]]

LEMMA WalkFacts ==
    ASSUME NEW g \in Graphs, NEW a \in Walks(g)
    PROVE  /\ a = [seen |-> a.seen, post |-> a.post]
           /\ a.seen \in SUBSET DOMAIN g /\ a.post \in Seq(DOMAIN g)
           /\ Len(a.post) \in Nat /\ \A i \in 1..Len(a.post) : a.post[i] \in DOMAIN g
           /\ \A u \in DOMAIN g :
                 /\ [seen |-> a.seen \cup {u}, post |-> a.post] \in Walks(g)
                 /\ [seen |-> a.seen, post |-> Append(a.post, u)] \in Walks(g)
PROOF
  <1>1. a.seen \in SUBSET DOMAIN g /\ a.post \in Seq(DOMAIN g)
        /\ a = [seen |-> a.seen, post |-> a.post]
    BY DEF Walks
  <1>2. Len(a.post) \in Nat /\ \A i \in 1..Len(a.post) : a.post[i] \in DOMAIN g
    BY <1>1, ElementOfSeq
  <1>3. ASSUME NEW u \in DOMAIN g
        PROVE  /\ [seen |-> a.seen \cup {u}, post |-> a.post] \in Walks(g)
               /\ [seen |-> a.seen, post |-> Append(a.post, u)] \in Walks(g)
    <2>1. Append(a.post, u) \in Seq(DOMAIN g) /\ a.seen \cup {u} \in SUBSET DOMAIN g
      BY <1>1, <1>3
    <2> QED BY <1>1, <2>1 DEF Walks
  <1> QED BY <1>1, <1>2, <1>3

Start(a, u) == [seen |-> a.seen \cup {u}, post |-> a.post]
Posted(a, u) == [seen |-> a.seen, post |-> Append(a.post, u)]

Visited(at, g, below, u, a) ==
    /\ Along(at, below, Start(a, u), Sorted(g[u]))
    /\ Visit(g, below)[u][a] = Posted(at[Len(Sorted(g[u]))], u)

\* What a search from u, at a, does: it walks along the list of neighbours.
LEMMA VisitFacts ==
    ASSUME NEW g \in Graphs, NEW below \in Steps(g)
    PROVE  /\ Visit(g, below) \in Steps(g)
           /\ \A u \in DOMAIN g :
                 /\ Sorted(g[u]) \in Seq(DOMAIN g)
                 /\ \A v \in g[u] : \E i \in 1..Len(Sorted(g[u])) : Sorted(g[u])[i] = v
                 /\ \A i \in 1..Len(Sorted(g[u])) : Sorted(g[u])[i] \in g[u]
           /\ \A u \in DOMAIN g : \A a \in Walks(g) :
                 u \in a.seen => Visit(g, below)[u][a] = a
           /\ \A u \in DOMAIN g : \A a \in Walks(g) :
                 u \notin a.seen =>
                    \E at \in [0..Len(Sorted(g[u])) -> Walks(g)] : Visited(at, g, below, u, a)
PROOF
  <1> DEFINE Ends(u, a) == Through(below, Start(a, u), Sorted(g[u]))
             Result(u, a) == IF u \in a.seen THEN a ELSE Posted(Ends(u, a), u)
  <1>1. \A u \in DOMAIN g : \A a \in Walks(g) : Visit(g, below)[u][a] = Result(u, a)
    BY DEF Visit, Start, Posted
  <1>2. ASSUME NEW u \in DOMAIN g
        PROVE  /\ Sorted(g[u]) \in Seq(DOMAIN g)
               /\ \A v \in g[u] : \E i \in 1..Len(Sorted(g[u])) : Sorted(g[u])[i] = v
               /\ \A i \in 1..Len(Sorted(g[u])) : Sorted(g[u])[i] \in g[u]
    <2>1. g[u] \in SUBSET DOMAIN g /\ g[u] \in SUBSET Nat /\ IsFiniteSet(g[u])
      BY GraphFacts, FS_Subset
    <2> DEFINE S == g[u]
               list == Sorted(S)
    <2>2. S \in SUBSET DOMAIN g /\ S \in SUBSET Nat /\ IsFiniteSet(S)
      BY <2>1
    <2> HIDE DEF S
    <2>3. list \in Seq(S) /\ \A v \in S : \E i \in 1..Len(list) : list[i] = v
      BY <2>2, SortedFacts
    <2> HIDE DEF list
    <2>4. \A i \in 1..Len(list) : list[i] \in S
      BY <2>3, ElementOfSeq
    <2>5. list \in Seq(DOMAIN g)
      BY <2>2, <2>3, <2>4
    <2> QED BY <2>3, <2>4, <2>5 DEF S, list
  <1>3. ASSUME NEW u \in DOMAIN g, NEW a \in Walks(g)
        PROVE  \E at \in [0..Len(Sorted(g[u])) -> Walks(g)] :
                  Along(at, below, Start(a, u), Sorted(g[u]))
    <2> DEFINE list == Sorted(g[u])
               start == Start(a, u)
    <2>1. list \in Seq(DOMAIN g) /\ start \in Walks(g)
      BY <1>2, WalkFacts DEF Start
    <2>2. below \in [DOMAIN g -> [Walks(g) -> Walks(g)]]
      BY DEF Steps
    <2> HIDE DEF list, start
    <2>3. \E at \in [0..Len(list) -> Walks(g)] : Along(at, below, start, list)
      BY <2>1, <2>2, ThroughFacts
    <2> QED BY <2>3 DEF list, start
  <1>4. ASSUME NEW u \in DOMAIN g, NEW a \in Walks(g)
        PROVE  Result(u, a) \in Walks(g)
    <2>1. PICK at \in [0..Len(Sorted(g[u])) -> Walks(g)] : Ends(u, a) = at[Len(Sorted(g[u]))]
      BY <1>3 DEF Along
    <2>2. Len(Sorted(g[u])) \in 0..Len(Sorted(g[u]))
      <3>1. Len(Sorted(g[u])) \in Nat
        BY <1>2
      <3> QED BY <3>1
    <2>3. Ends(u, a) \in Walks(g)
      BY <2>1, <2>2
    <2> HIDE DEF Ends
    <2>4. Posted(Ends(u, a), u) \in Walks(g)
      BY <2>3, WalkFacts DEF Posted
    <2> QED BY <2>4
  <1> HIDE DEF Ends
  <1>5. Visit(g, below) = [u \in DOMAIN g |-> [a \in Walks(g) |-> Result(u, a)]]
    BY DEF Visit, Ends, Start, Posted
  <1>6. Visit(g, below) \in Steps(g)
    <2> HIDE DEF Result
    <2> QED BY <1>4, <1>5 DEF Steps
  <1>7. ASSUME NEW u \in DOMAIN g, NEW a \in Walks(g), u \notin a.seen
        PROVE  \E at \in [0..Len(Sorted(g[u])) -> Walks(g)] : Visited(at, g, below, u, a)
    <2>1. Visit(g, below)[u][a] = Posted(Ends(u, a), u)
      BY <1>1, <1>7
    <2>2. PICK at \in [0..Len(Sorted(g[u])) -> Walks(g)] :
             /\ Along(at, below, Start(a, u), Sorted(g[u]))
             /\ Ends(u, a) = at[Len(Sorted(g[u]))]
      BY <1>3 DEF Along, Ends
    <2> QED BY <2>1, <2>2 DEF Visited
  <1>8. ASSUME NEW u \in DOMAIN g, NEW a \in Walks(g), u \in a.seen
        PROVE  Visit(g, below)[u][a] = a
    BY <1>1, <1>8
  <1> QED BY <1>2, <1>6, <1>7, <1>8

\* A claim about a search no deeper than n holds of Visiting when it holds of
\* the search that does nothing and goes down one level.
LEMMA VisitingFacts ==
    ASSUME NEW g \in Graphs
    PROVE  \E visit \in [0..Cardinality(DOMAIN g) -> Steps(g)] :
              /\ visit[0] = [u \in DOMAIN g |-> [a \in Walks(g) |-> a]]
              /\ \A n \in 1..Cardinality(DOMAIN g) : visit[n] = Visit(g, visit[n - 1])
              /\ Visiting(g) = visit[Cardinality(DOMAIN g)]
PROOF
  <1> DEFINE size == Cardinality(DOMAIN g)
             still == [u \in DOMAIN g |-> [a \in Walks(g) |-> a]]
             Down == [f \in Steps(g) |-> Visit(g, f)]
             F == [m \in 1..size |-> Down]
             Up(f) == [n \in 0..size |-> IF n = 0 THEN still ELSE Visit(g, f[n - 1])]
  <1>1. size \in Nat
    BY GraphFacts, FS_CardinalityType
  <1>0. still \in Steps(g)
    BY DEF Steps
  <1>2. F \in [1..size -> [Steps(g) -> Steps(g)]]
    <2>1. Down \in [Steps(g) -> Steps(g)]
      BY VisitFacts
    <2> QED BY <2>1
  <1>3. \A f : Visiting(g) = (CHOOSE x : x = Up(x))[size]
    BY DEF Visiting
  <1> HIDE DEF size, still
  <1>4. PICK f \in [0..size -> Steps(g)] : Follows(f, still, F, size)
    <2> HIDE DEF F
    <2> QED BY <1>0, <1>1, <1>2, Recursion
  <1>5. \A m \in 1..size : f[m] = Visit(g, f[m - 1])
    <2> SUFFICES ASSUME NEW m \in 1..size
                 PROVE  f[m] = Visit(g, f[m - 1])
      OBVIOUS
    <2>1. f[m - 1] \in Steps(g) /\ f[m] = F[m][f[m - 1]]
      BY <1>1, <1>4 DEF Follows
    <2> QED BY <2>1
  <1>6. f = Up(f)
    BY <1>1, <1>4, <1>5 DEF Follows
  <1> DEFINE h == CHOOSE x : x = Up(x)
  <1>7. h = Up(h)
    BY <1>6
  <1>8. Visiting(g) = h[size]
    BY <1>3
  <1> HIDE DEF h
  <1>9. h[0] = still /\ \A m \in 1..size : h[m] = Visit(g, h[m - 1])
    <2>1. 0 \in 0..size /\ \A m \in 1..size : m \in 0..size /\ m # 0
      BY <1>1
    <2> QED BY <1>7, <2>1
  <1>10. \A m \in 0..size : h[m] \in Steps(g)
    <2> DEFINE G == {k \in 0..size : h[k] \in Steps(g)}
    <2>1. 0 \in G
      BY <1>0, <1>1, <1>9
    <2>2. ASSUME NEW m \in 1..size, m - 1 \in G
          PROVE  m \in G
      <3>1. h[m - 1] \in Steps(g) /\ h[m] = Visit(g, h[m - 1]) /\ m \in 0..size
        BY <1>1, <1>9, <2>2
      <3> QED BY <3>1, VisitFacts
    <2> HIDE DEF G
    <2>3. \A m \in 0..size : m \in G
      BY <1>1, <2>1, <2>2, CountUp
    <2> QED BY <2>3 DEF G
  <1>11. h \in [0..size -> Steps(g)]
    BY <1>7, <1>10
  <1> QED BY <1>8, <1>9, <1>11 DEF size, still

(***************************************************************************)
(* What a search from u finds: all that it leads to, and no more.  The     *)
(* second claim, of a search that starts with a stack of tables that reach *)
(* u: it leaves the stack as it was, and of two tables on it the one that  *)
(* is posted later reaches what was posted since an edge to it.            *)
(***************************************************************************)
Explored(g, u, a, b) ==
    /\ u \in b.seen /\ a.seen \subseteq b.seen
    /\ \A k \in b.seen \ a.seen : g[k] \subseteq b.seen
    /\ \A K \in SUBSET DOMAIN g :
          u \in K /\ (\A k \in K \ a.seen : g[k] \subseteq K \cup a.seen)
             => b.seen \subseteq a.seen \cup K

Unseen(g, a) == Cardinality((DOMAIN g) \ a.seen)

Explores(g, f, n) ==
    \A u \in DOMAIN g : \A a \in Walks(g) : Unseen(g, a) <= n => Explored(g, u, a, f[u][a])

PostedSet(a) == {a.post[i] : i \in 1..Len(a.post)}
OnStack(a) == a.seen \ PostedSet(a)

Before(post, j) == {post[k] : k \in 1..(j - 1)}

Later(g, post) ==
    \A i \in 1..Len(post) : \A v \in g[post[i]] : \A j \in i..Len(post) :
        v \notin Before(post, j) => Reaches(g, v, post[j])

Tidy(g, a) ==
    /\ PostedSet(a) \subseteq a.seen
    /\ \A i, j \in 1..Len(a.post) : a.post[i] = a.post[j] => i = j
    /\ \A t \in PostedSet(a) : g[t] \subseteq a.seen
    /\ Later(g, a.post)

Sorts(g, f, n) ==
    \A u \in DOMAIN g : \A a \in Walks(g) :
        /\ Unseen(g, a) <= n /\ Tidy(g, a)
        /\ \A t \in OnStack(a) : Reaches(g, t, u)
        => Tidy(g, f[u][a]) /\ OnStack(f[u][a]) = OnStack(a)

LEMMA UnseenFacts ==
    ASSUME NEW g \in Graphs, NEW a \in Walks(g), NEW b \in Walks(g), a.seen \subseteq b.seen
    PROVE  /\ Unseen(g, a) \in Nat /\ Unseen(g, b) \in Nat /\ Unseen(g, b) <= Unseen(g, a)
           /\ \A u \in DOMAIN g : u \notin a.seen /\ u \in b.seen => Unseen(g, b) < Unseen(g, a)
           /\ Unseen(g, a) <= Cardinality(DOMAIN g)
           /\ Unseen(g, a) = 0 => \A u \in DOMAIN g : u \in a.seen
PROOF
  <1> DEFINE D == DOMAIN g
             S == D \ a.seen
             T == D \ b.seen
  <1>1. IsFiniteSet(D)
    BY GraphFacts
  <1>2. S \in SUBSET D /\ T \in SUBSET S
    OBVIOUS
  <1>3. Unseen(g, a) = Cardinality(S) /\ Unseen(g, b) = Cardinality(T)
    BY DEF Unseen
  <1>4. \A u \in D : u \notin a.seen /\ u \in b.seen => S # T
    OBVIOUS
  <1>5. S = {} => \A u \in D : u \in a.seen
    OBVIOUS
  <1> HIDE DEF D, S, T
  <1>6. IsFiniteSet(S) /\ Cardinality(S) <= Cardinality(D)
    BY <1>1, <1>2, FS_Subset
  <1>7. IsFiniteSet(T) /\ Cardinality(T) <= Cardinality(S) /\ (Cardinality(S) = Cardinality(T) => S = T)
    BY <1>2, <1>6, FS_Subset
  <1>8. Cardinality(S) \in Nat /\ Cardinality(T) \in Nat /\ (Cardinality(S) = 0 => S = {})
    BY <1>6, <1>7, FS_CardinalityType, FS_EmptySet
  <1>9. \A u \in D : u \notin a.seen /\ u \in b.seen => Cardinality(T) < Cardinality(S)
    BY <1>4, <1>7, <1>8
  <1> QED BY <1>3, <1>5, <1>6, <1>7, <1>8, <1>9 DEF D

\* Along a list of tables.
Found(g, start, list, i, b) ==
    /\ start.seen \subseteq b.seen
    /\ \A k \in b.seen \ start.seen : g[k] \subseteq b.seen
    /\ \A j \in 1..i : list[j] \in b.seen
    /\ \A K \in SUBSET DOMAIN g :
          /\ \A j \in 1..Len(list) : list[j] \in K
          /\ \A k \in K \ start.seen : g[k] \subseteq K \cup start.seen
          => b.seen \subseteq start.seen \cup K

LEMMA AlongExplores ==
    ASSUME NEW g \in Graphs, NEW below \in Steps(g), NEW n \in Nat, Explores(g, below, n),
           NEW start \in Walks(g), Unseen(g, start) <= n, NEW list \in Seq(DOMAIN g),
           NEW at \in [0..Len(list) -> Walks(g)], Along(at, below, start, list)
    PROVE  \A i \in 0..Len(list) : Found(g, start, list, i, at[i])
PROOF
  <1> DEFINE n1 == Len(list)
             OK(K) == /\ \A j \in 1..n1 : list[j] \in K
                      /\ \A k \in K \ start.seen : g[k] \subseteq K \cup start.seen
             Good(i) == /\ start.seen \subseteq at[i].seen
                        /\ \A k \in at[i].seen \ start.seen : g[k] \subseteq at[i].seen
                        /\ \A j \in 1..i : list[j] \in at[i].seen
                        /\ \A K \in SUBSET DOMAIN g :
                              OK(K) => at[i].seen \subseteq start.seen \cup K
             G == {i \in 0..n1 : Good(i)}
  <1>1. n1 \in Nat /\ at[0] = start /\ \A i \in 1..n1 : at[i] = below[list[i]][at[i - 1]]
    BY ElementOfSeq DEF Along
  <1>2. \A i \in 1..n1 : list[i] \in DOMAIN g
    BY ElementOfSeq
  <1>3. \A i \in 0..n1 : at[i] \in Walks(g)
    OBVIOUS
  <1> HIDE DEF n1
  <1>4. 0 \in G
    BY <1>1
  <1>5. ASSUME NEW i \in 1..n1, i - 1 \in G
        PROVE  i \in G
    <2> DEFINE a == at[i - 1]
               b == at[i]
               v == list[i]
    <2>1. Good(i - 1)
      BY <1>5
    <2>2. a \in Walks(g) /\ b \in Walks(g) /\ v \in DOMAIN g /\ b = below[v][a] /\ i \in 0..n1
      BY <1>1, <1>2, <1>3, <1>5
    <2>3. start.seen \subseteq a.seen
      BY <2>1
    <2>4. Unseen(g, a) <= n
      <3>1. Unseen(g, a) <= Unseen(g, start) /\ Unseen(g, a) \in Nat /\ Unseen(g, start) \in Nat
        BY <2>2, <2>3, UnseenFacts
      <3> QED BY <3>1
    <2>5. Explored(g, v, a, b)
      BY <2>2, <2>4 DEF Explores
    <2>6. start.seen \subseteq b.seen
      BY <2>3, <2>5 DEF Explored
    <2>7. \A k \in b.seen \ start.seen : g[k] \subseteq b.seen
      <3> SUFFICES ASSUME NEW k \in b.seen \ start.seen
                   PROVE  g[k] \subseteq b.seen
        OBVIOUS
      <3>1. CASE k \in a.seen
        <4>1. g[k] \subseteq a.seen
          BY <2>1, <3>1
        <4> QED BY <4>1, <2>5 DEF Explored
      <3>2. CASE k \notin a.seen
        BY <3>2, <2>5 DEF Explored
      <3> QED BY <3>1, <3>2
    <2>8. \A j \in 1..i : list[j] \in b.seen
      <3> SUFFICES ASSUME NEW j \in 1..i
                   PROVE  list[j] \in b.seen
        OBVIOUS
      <3>1. CASE j = i
        BY <3>1, <2>5 DEF Explored
      <3>2. CASE j # i
        <4>1. j \in 1..(i - 1)
          BY <3>2
        <4>2. list[j] \in a.seen
          BY <2>1, <4>1
        <4> QED BY <4>2, <2>5 DEF Explored
      <3> QED BY <3>1, <3>2
    <2>9. ASSUME NEW K \in SUBSET DOMAIN g, OK(K)
          PROVE  b.seen \subseteq start.seen \cup K
      <3> DEFINE L == K \cup start.seen
      <3>1. a.seen \subseteq start.seen \cup K
        BY <2>1, <2>9
      <3>2. start.seen \in SUBSET DOMAIN g /\ L \in SUBSET DOMAIN g
        BY WalkFacts
      <3>3. v \in L
        BY <2>9
      <3>4. ASSUME NEW k \in L \ a.seen
            PROVE  g[k] \subseteq L \cup a.seen
        <4>1. k \in K \ start.seen
          BY <2>3
        <4>2. g[k] \subseteq K \cup start.seen
          BY <2>9, <4>1
        <4> QED BY <4>2
      <3> HIDE DEF L
      <3>5. b.seen \subseteq a.seen \cup L
        BY <2>5, <3>2, <3>3, <3>4 DEF Explored
      <3> QED BY <3>1, <3>5 DEF L
    <2> HIDE DEF a, v, OK
    <2>10. Good(i)
      BY <2>6, <2>7, <2>8, <2>9
    <2> QED BY <2>2, <2>10
  <1> HIDE DEF G
  <1>6. \A i \in 0..n1 : i \in G
    BY <1>1, <1>4, <1>5, CountUp
  <1> QED BY <1>6 DEF G, n1, Found

LEMMA AlongSorts ==
    ASSUME NEW g \in Graphs, NEW below \in Steps(g), NEW n \in Nat,
           Explores(g, below, n), Sorts(g, below, n),
           NEW start \in Walks(g), Unseen(g, start) <= n, NEW list \in Seq(DOMAIN g),
           NEW at \in [0..Len(list) -> Walks(g)], Along(at, below, start, list),
           Tidy(g, start),
           \A j \in 1..Len(list) : \A t \in OnStack(start) : Reaches(g, t, list[j])
    PROVE  \A i \in 0..Len(list) : Tidy(g, at[i]) /\ OnStack(at[i]) = OnStack(start)
PROOF
  <1> DEFINE n1 == Len(list)
             G == {i \in 0..n1 : Tidy(g, at[i]) /\ OnStack(at[i]) = OnStack(start)}
  <1>1. n1 \in Nat /\ at[0] = start /\ \A i \in 1..n1 : at[i] = below[list[i]][at[i - 1]]
    BY ElementOfSeq DEF Along
  <1>2. \A i \in 1..n1 : list[i] \in DOMAIN g
    BY ElementOfSeq
  <1>3. \A i \in 0..n1 : at[i] \in Walks(g)
    OBVIOUS
  <1>4. \A i \in 0..n1 : start.seen \subseteq at[i].seen
    BY AlongExplores DEF Found
  <1>5. \A j \in 1..n1 : \A t \in OnStack(start) : Reaches(g, t, list[j])
    OBVIOUS
  <1> HIDE DEF n1
  <1>6. 0 \in G
    BY <1>1
  <1>7. ASSUME NEW i \in 1..n1, i - 1 \in G
        PROVE  i \in G
    <2> DEFINE a == at[i - 1]
               v == list[i]
    <2>1. Tidy(g, a) /\ OnStack(a) = OnStack(start)
      BY <1>7
    <2>2. a \in Walks(g) /\ v \in DOMAIN g /\ at[i] = below[v][a] /\ i \in 0..n1
          /\ start.seen \subseteq a.seen
      BY <1>1, <1>2, <1>3, <1>4, <1>7
    <2>3. \A t \in OnStack(a) : Reaches(g, t, v)
      BY <1>5, <2>1
    <2> HIDE DEF a, v
    <2>4. Unseen(g, a) <= n
      <3>1. Unseen(g, a) <= Unseen(g, start) /\ Unseen(g, a) \in Nat /\ Unseen(g, start) \in Nat
        BY <2>2, UnseenFacts
      <3> QED BY <3>1
    <2>5. Tidy(g, at[i]) /\ OnStack(at[i]) = OnStack(a)
      BY <2>1, <2>2, <2>3, <2>4 DEF Sorts
    <2> QED BY <2>1, <2>2, <2>5
  <1> HIDE DEF G
  <1>8. \A i \in 0..n1 : i \in G
    BY <1>1, <1>6, <1>7, CountUp
  <1> QED BY <1>8 DEF G, n1

\* A table is posted when all its neighbours were seen.
LEMMA PostingTidy ==
    ASSUME NEW g \in Graphs, NEW a \in Walks(g), NEW u \in OnStack(a), u \in DOMAIN g,
           Tidy(g, a), g[u] \subseteq a.seen, \A t \in OnStack(a) : Reaches(g, t, u)
    PROVE  Tidy(g, Posted(a, u)) /\ OnStack(Posted(a, u)) = OnStack(a) \ {u}
PROOF
  <1> DEFINE p == a.post
             n == Len(a.post)
             q == Append(a.post, u)
             b == Posted(a, u)
  <1>1. p \in Seq(DOMAIN g) /\ n \in Nat /\ \A i \in 1..n : p[i] \in DOMAIN g
    BY WalkFacts
  <1>2. b.seen = a.seen /\ b.post = q
    BY DEF Posted
  <1>3. Len(q) = n + 1 /\ q[n + 1] = u /\ \A i \in 1..n : q[i] = p[i]
    BY <1>1
  <1>4. \A i \in 1..(n + 1) : i = n + 1 \/ i \in 1..n
    BY <1>1
  <1>5. 1..n \subseteq 1..(n + 1) /\ n + 1 \in 1..(n + 1)
    BY <1>1
  <1>6. PostedSet(a) = {p[i] : i \in 1..n} /\ PostedSet(b) = {q[i] : i \in 1..(n + 1)}
    BY <1>2, <1>3 DEF PostedSet
  <1>7. u \in a.seen /\ u \notin PostedSet(a)
    BY DEF OnStack
  <1> HIDE DEF p, n, q, b
  <1>8. PostedSet(b) = PostedSet(a) \cup {u}
    BY <1>3, <1>4, <1>5, <1>6
  <1>9. OnStack(b) = OnStack(a) \ {u}
    BY <1>2, <1>8 DEF OnStack
  <1>10. PostedSet(b) \subseteq b.seen /\ \A t \in PostedSet(b) : g[t] \subseteq b.seen
    BY <1>2, <1>7, <1>8 DEF Tidy
  <1>11. \A i, j \in 1..Len(b.post) : b.post[i] = b.post[j] => i = j
    <2>1. \A i, j \in 1..n : p[i] = p[j] => i = j
      BY DEF Tidy, p, n
    <2>2. \A i \in 1..n : p[i] # u
      BY <1>6, <1>7
    <2>3. \A i, j \in 1..(n + 1) : q[i] = q[j] => i = j
      BY <1>3, <1>4, <2>1, <2>2
    <2> QED BY <1>2, <1>3, <2>3
  <1>12. Later(g, q)
    <2>1. Later(g, p)
      BY DEF Tidy, p
    <2>2. \A j \in 1..n : Before(q, j) = Before(p, j)
      <3> SUFFICES ASSUME NEW j \in 1..n
                   PROVE  Before(q, j) = Before(p, j)
        OBVIOUS
      <3>1. \A k \in 1..(j - 1) : k \in 1..n
        BY <1>1
      <3>2. \A k \in 1..(j - 1) : q[k] = p[k]
        BY <1>3, <3>1
      <3> QED BY <3>2 DEF Before
    <2>3. Before(q, n + 1) = PostedSet(a)
      <3>1. (n + 1) - 1 = n
        BY <1>1
      <3>2. Before(q, n + 1) = {q[k] : k \in 1..n}
        BY <3>1 DEF Before
      <3> QED BY <1>3, <1>6, <3>2
    <2>4. ASSUME NEW i \in 1..(n + 1), NEW v \in g[q[i]], NEW j \in i..(n + 1),
                 v \notin Before(q, j)
          PROVE  Reaches(g, v, q[j])
      <3>1. CASE j \in 1..n
        <4>1. i \in 1..n /\ j \in i..n
          BY <1>1, <3>1
        <4>2. v \in g[p[i]] /\ v \notin Before(p, j) /\ n = Len(p)
          BY <1>3, <2>2, <2>4, <3>1, <4>1 DEF n, p
        <4>3. Reaches(g, v, p[j])
          BY <2>1, <4>1, <4>2 DEF Later
        <4> QED BY <1>3, <3>1, <4>3
      <3>2. CASE j = n + 1
        <4>1. v \notin PostedSet(a)
          BY <2>3, <2>4, <3>2
        <4>2. v \in a.seen
          <5>1. CASE i = n + 1
            BY <1>3, <5>1
          <5>2. CASE i \in 1..n
            <6>1. q[i] \in PostedSet(a)
              BY <1>3, <1>6, <5>2
            <6> QED BY <6>1 DEF Tidy
          <5> QED BY <1>4, <5>1, <5>2
        <4>3. v \in OnStack(a)
          BY <4>1, <4>2 DEF OnStack
        <4> QED BY <1>3, <3>2, <4>3
      <3>3. j \in 1..(n + 1)
        BY <1>1
      <3> QED BY <1>4, <3>1, <3>2, <3>3
    <2> QED BY <1>3, <2>4 DEF Later
  <1> QED BY <1>2, <1>9, <1>10, <1>11, <1>12 DEF Tidy, b

\* One level down, one table less to see.
LEMMA VisitExplores ==
    ASSUME NEW g \in Graphs, NEW below \in Steps(g), NEW n \in Nat, Explores(g, below, n)
    PROVE  /\ Explores(g, Visit(g, below), n + 1)
           /\ Sorts(g, below, n) => Sorts(g, Visit(g, below), n + 1)
PROOF
  <1> SUFFICES ASSUME NEW u \in DOMAIN g, NEW a \in Walks(g), Unseen(g, a) <= n + 1
               PROVE  /\ Explored(g, u, a, Visit(g, below)[u][a])
                      /\ /\ Sorts(g, below, n) /\ Tidy(g, a)
                         /\ \A t \in OnStack(a) : Reaches(g, t, u)
                         => /\ Tidy(g, Visit(g, below)[u][a])
                            /\ OnStack(Visit(g, below)[u][a]) = OnStack(a)
    BY DEF Explores, Sorts
  <1>1. CASE u \in a.seen
    <2>1. Visit(g, below)[u][a] = a
      BY <1>1, VisitFacts
    <2> QED BY <1>1, <2>1 DEF Explored
  <1>2. CASE u \notin a.seen
    <2> DEFINE list == Sorted(g[u])
               start == Start(a, u)
               b == Visit(g, below)[u][a]
    <2>1. /\ list \in Seq(DOMAIN g)
          /\ \A v \in g[u] : \E i \in 1..Len(list) : list[i] = v
          /\ \A i \in 1..Len(list) : list[i] \in g[u]
      BY VisitFacts
    <2>2. PICK at \in [0..Len(list) -> Walks(g)] :
             Along(at, below, start, list) /\ b = Posted(at[Len(list)], u)
      <3>1. \E at \in [0..Len(list) -> Walks(g)] : Visited(at, g, below, u, a)
        BY <1>2, VisitFacts
      <3> QED BY <3>1 DEF Visited
    <2>3. start \in Walks(g) /\ start.seen = a.seen \cup {u} /\ start.post = a.post
      BY WalkFacts DEF Start
    <2>4. Unseen(g, start) <= n
      <3>1. a.seen \subseteq start.seen /\ u \in start.seen
        BY <2>3
      <3>2. Unseen(g, start) < Unseen(g, a) /\ Unseen(g, start) \in Nat /\ Unseen(g, a) \in Nat
        BY <1>2, <2>3, <3>1, UnseenFacts
      <3> QED BY <3>2
    <2> DEFINE c == at[Len(list)]
    <2>5. Len(list) \in 0..Len(list) /\ Len(list) \in Nat
      BY <2>1, ElementOfSeq
    <2>6. c \in Walks(g)
      BY <2>5
    <2>7. b.seen = c.seen /\ b.post = Append(c.post, u) /\ b = Posted(c, u)
      BY <2>2 DEF Posted
    <2> HIDE DEF list, start, b
    <2>8. Found(g, start, list, Len(list), c)
      <3>1. \A i \in 0..Len(list) : Found(g, start, list, i, at[i])
        BY <2>1, <2>2, <2>3, <2>4, AlongExplores
      <3> QED BY <2>5, <3>1
    <2> HIDE DEF c
    <2>9. g[u] \subseteq c.seen /\ u \in c.seen /\ a.seen \subseteq c.seen
      BY <2>1, <2>3, <2>8 DEF Found
    <2>10. \A k \in c.seen \ a.seen : g[k] \subseteq c.seen
      BY <2>3, <2>8, <2>9 DEF Found
    <2>11. ASSUME NEW K \in SUBSET DOMAIN g, u \in K,
                  \A k \in K \ a.seen : g[k] \subseteq K \cup a.seen
           PROVE  c.seen \subseteq a.seen \cup K
      <3> DEFINE L == K \cup a.seen
      <3>1. L \in SUBSET DOMAIN g /\ g[u] \subseteq L
        BY <1>2, <2>11, WalkFacts
      <3>2. \A j \in 1..Len(list) : list[j] \in L
        BY <2>1, <3>1
      <3>3. \A k \in L \ start.seen : g[k] \subseteq L \cup start.seen
        BY <2>3, <2>11
      <3>4. L \cup start.seen = a.seen \cup K
        BY <2>3, <2>11
      <3> HIDE DEF L
      <3>5. c.seen \subseteq start.seen \cup L
        BY <2>8, <3>1, <3>2, <3>3 DEF Found
      <3> QED BY <3>4, <3>5
    <2>12. Explored(g, u, a, b)
      BY <2>7, <2>9, <2>10, <2>11 DEF Explored
    <2>13. ASSUME Sorts(g, below, n), Tidy(g, a), \A t \in OnStack(a) : Reaches(g, t, u)
           PROVE  Tidy(g, b) /\ OnStack(b) = OnStack(a)
      <3>1. PostedSet(start) = PostedSet(a)
        BY <2>3 DEF PostedSet
      <3>2. u \notin PostedSet(a) /\ u \notin OnStack(a)
        BY <1>2, <2>13 DEF Tidy, OnStack
      <3>3. OnStack(start) = OnStack(a) \cup {u}
        BY <2>3, <3>1, <3>2 DEF OnStack
      <3>4. Tidy(g, start)
        BY <2>3, <2>13, <3>1 DEF Tidy
      <3>5. \A t \in OnStack(start) : t \in DOMAIN g /\ Reaches(g, t, u)
        <4>1. a.seen \subseteq DOMAIN g
          BY WalkFacts
        <4>2. Reaches(g, u, u)
          BY ReachFacts
        <4> QED BY <2>13, <3>3, <4>1, <4>2 DEF OnStack
      <3>6. ASSUME NEW j \in 1..Len(list), NEW t \in OnStack(start)
            PROVE  Reaches(g, t, list[j])
        <4>1. list[j] \in g[u] /\ list[j] \in DOMAIN g
          BY <2>1, ElementOfSeq
        <4>2. Reaches(g, u, list[j])
          BY <4>1, ReachFacts
        <4> QED BY <3>5, <4>1, <4>2, ReachFacts
      <3>7. Tidy(g, c) /\ OnStack(c) = OnStack(start)
        <4>1. \A i \in 0..Len(list) : Tidy(g, at[i]) /\ OnStack(at[i]) = OnStack(start)
          BY <2>1, <2>2, <2>3, <2>4, <2>13, <3>4, <3>6, AlongSorts
        <4> QED BY <2>5, <4>1 DEF c
      <3>8. u \in OnStack(c) /\ \A t \in OnStack(c) : Reaches(g, t, u)
        BY <3>3, <3>5, <3>7
      <3>9. Tidy(g, Posted(c, u)) /\ OnStack(Posted(c, u)) = OnStack(c) \ {u}
        BY <2>6, <2>9, <3>7, <3>8, PostingTidy
      <3> QED BY <2>7, <3>2, <3>3, <3>7, <3>9
    <2> QED BY <2>12, <2>13 DEF b
  <1> QED BY <1>1, <1>2

LEMMA VisitingExplores ==
    ASSUME NEW g \in Graphs
    PROVE  /\ Visiting(g) \in Steps(g)
           /\ Explores(g, Visiting(g), Cardinality(DOMAIN g))
           /\ Sorts(g, Visiting(g), Cardinality(DOMAIN g))
PROOF
  <1> DEFINE size == Cardinality(DOMAIN g)
  <1>1. size \in Nat
    BY GraphFacts, FS_CardinalityType
  <1>2. PICK visit \in [0..size -> Steps(g)] :
           /\ visit[0] = [u \in DOMAIN g |-> [a \in Walks(g) |-> a]]
           /\ \A n \in 1..size : visit[n] = Visit(g, visit[n - 1])
           /\ Visiting(g) = visit[size]
    BY VisitingFacts
  <1> HIDE DEF size
  <1> DEFINE G == {n \in 0..size : Explores(g, visit[n], n) /\ Sorts(g, visit[n], n)}
  <1>3. 0 \in G
    <2>1. \A u \in DOMAIN g : \A a \in Walks(g) : visit[0][u][a] = a
      BY <1>2
    <2>2. \A u \in DOMAIN g : \A a \in Walks(g) : Unseen(g, a) <= 0 => u \in a.seen
      <3> SUFFICES ASSUME NEW u \in DOMAIN g, NEW a \in Walks(g), Unseen(g, a) <= 0
                   PROVE  u \in a.seen
        OBVIOUS
      <3>1. Unseen(g, a) \in Nat /\ (Unseen(g, a) = 0 => u \in a.seen)
        BY UnseenFacts
      <3> QED BY <3>1
    <2>3. Explores(g, visit[0], 0)
      BY <2>1, <2>2 DEF Explores, Explored
    <2>4. Sorts(g, visit[0], 0)
      BY <2>1 DEF Sorts
    <2> QED BY <1>1, <2>3, <2>4
  <1>4. ASSUME NEW n \in 1..size, n - 1 \in G
        PROVE  n \in G
    <2> DEFINE m == n - 1
               below == visit[m]
    <2>1. m \in Nat /\ n = m + 1 /\ below \in Steps(g) /\ n \in 0..size
      BY <1>1, <1>2, <1>4
    <2>2. Explores(g, below, m) /\ Sorts(g, below, m) /\ visit[n] = Visit(g, below)
      BY <1>2, <1>4
    <2> HIDE DEF m, below
    <2>3. Explores(g, visit[n], m + 1) /\ Sorts(g, visit[n], m + 1)
      BY <2>1, <2>2, VisitExplores
    <2> QED BY <2>1, <2>3
  <1> HIDE DEF G
  <1>5. \A n \in 0..size : n \in G
    BY <1>1, <1>3, <1>4, CountUp
  <1>6. size \in G /\ visit[size] \in Steps(g)
    BY <1>1, <1>2, <1>5
  <1> QED BY <1>2, <1>6 DEF G, size

-----------------------------------------------------------------------------
(* The two passes.                                                         *)

\* The stack of the first pass: every table once, and in the order of Later.
Ordered(g, post) ==
    /\ post \in Seq(DOMAIN g) /\ Later(g, post)
    /\ \A i, j \in 1..Len(post) : post[i] = post[j] => i = j
    /\ \A t \in DOMAIN g : \E i \in 1..Len(post) : post[i] = t

LEMMA FirstPassFacts ==
    ASSUME NEW g \in Graphs
    PROVE  Ordered(g, FirstPass(g))
PROOF
  <1> DEFINE n == Cardinality(DOMAIN g)
             D == DOMAIN g
             W == Walks(g)
             step == Visiting(g)
             list == Sorted(D)
  <1>1. n \in Nat /\ IsFiniteSet(D) /\ D \in SUBSET Nat
    BY GraphFacts, FS_CardinalityType
  <1>2. Unvisited \in W /\ Unvisited.seen = {} /\ Unvisited.post = <<>>
    BY DEF Unvisited, Walks
  <1>3. step \in Steps(g) /\ Explores(g, step, n) /\ Sorts(g, step, n)
    BY VisitingExplores
  <1>4. step \in [D -> [W -> W]]
    BY <1>3 DEF Steps
  <1>5. FirstPass(g) = Through(step, Unvisited, list).post
    BY DEF FirstPass
  <1>6. PostedSet(Unvisited) = {} /\ Tidy(g, Unvisited) /\ OnStack(Unvisited) = {}
    <2>1. Len(Unvisited.post) = 0 /\ \A i \in 1..Len(Unvisited.post) : FALSE
      BY <1>2
    <2>2. PostedSet(Unvisited) = {}
      BY <2>1 DEF PostedSet
    <2>3. Later(g, Unvisited.post)
      BY <2>1 DEF Later
    <2> QED BY <1>2, <2>1, <2>2, <2>3 DEF Tidy, OnStack
  <1>7. Unseen(g, Unvisited) <= n
    BY <1>2, UnseenFacts
  <1> HIDE DEF n, step, D, W
  <1>8. list \in Seq(D) /\ \A t \in D : \E i \in 1..Len(list) : list[i] = t
    BY <1>1, SortedFacts
  <1> HIDE DEF list
  <1>9. PICK at \in [0..Len(list) -> W] : Along(at, step, Unvisited, list)
    BY <1>2, <1>4, <1>8, ThroughFacts
  <1> DEFINE a == at[Len(list)]
  <1>18. at \in [0..Len(list) -> Walks(g)] /\ list \in Seq(DOMAIN g) /\ step \in Steps(g)
    BY <1>3, <1>8, <1>9 DEF D, W
  <1>19. Unvisited \in Walks(g) /\ n \in Nat
    BY <1>1, <1>2 DEF W
  <1>10. Len(list) \in 0..Len(list)
    BY <1>8, ElementOfSeq
  <1>11. a \in Walks(g) /\ FirstPass(g) = a.post
    BY <1>5, <1>9, <1>10 DEF Along, W
  <1>12. Found(g, Unvisited, list, Len(list), a)
    <2>1. \A i \in 0..Len(list) : Found(g, Unvisited, list, i, at[i])
      BY <1>1, <1>2, <1>3, <1>7, <1>8, <1>9, AlongExplores DEF D, W
    <2> QED BY <1>10, <2>1
  <1>13. Tidy(g, a) /\ OnStack(a) = {}
    <2>1. \A j \in 1..Len(list) : \A t \in OnStack(Unvisited) : Reaches(g, t, list[j])
      BY <1>6
    <2>2. \A i \in 0..Len(list) : Tidy(g, at[i]) /\ OnStack(at[i]) = OnStack(Unvisited)
      BY <1>3, <1>6, <1>7, <1>9, <1>18, <1>19, <2>1, AlongSorts
    <2> QED BY <1>6, <1>10, <2>2
  <1> HIDE DEF a
  <1>14. a.post \in Seq(DOMAIN g)
    BY <1>11, WalkFacts
  <1>15. \A t \in DOMAIN g : t \in a.seen
    BY <1>8, <1>12 DEF Found, D
  <1>16. \A t \in DOMAIN g : t \in PostedSet(a)
    BY <1>13, <1>15 DEF OnStack
  <1>17. \A t \in DOMAIN g : \E i \in 1..Len(a.post) : a.post[i] = t
    BY <1>16 DEF PostedSet
  <1> QED BY <1>11, <1>13, <1>14, <1>17 DEF Ordered, Tidy

LEMMA ReversedFacts ==
    ASSUME NEW g \in Graphs
    PROVE  /\ Reversed(g) \in Graphs /\ DOMAIN Reversed(g) = DOMAIN g
           /\ \A u, v \in DOMAIN g : u \in Reversed(g)[v] <=> v \in g[u]
           /\ \A v \in DOMAIN g : Reversed(g)[v] \subseteq DOMAIN g
PROOF
  <1> DEFINE D == DOMAIN g
             r == Reversed(g)
  <1>1. r \in [D -> SUBSET D] /\ DOMAIN r = D
    BY DEF Reversed
  <1>2. D \in SUBSET Nat /\ IsFiniteSet(D)
    BY GraphFacts
  <1>3. \A u, v \in DOMAIN g : u \in Reversed(g)[v] <=> v \in g[u]
    BY DEF Reversed
  <1> HIDE DEF D, r
  <1>4. r \in Graphs
    BY <1>1, <1>2 DEF Graphs
  <1>5. \A v \in D : r[v] \subseteq D
    BY <1>1
  <1> QED BY <1>1, <1>3, <1>4, <1>5 DEF D, r

\* What the second pass finds from u, on the reversed graph.
FoundBack(g, u, A, S) ==
    /\ u \in S /\ A \subseteq S /\ S \subseteq DOMAIN g
    /\ \A k \in S \ A : Reversed(g)[k] \subseteq S
    /\ \A K \in SUBSET DOMAIN g :
          u \in K /\ (\A k \in K \ A : Reversed(g)[k] \subseteq K \cup A) => S \subseteq A \cup K

\* From the table that was posted last of those left, it is a component.
LEMMA SecondPass ==
    ASSUME NEW g \in Graphs, NEW post, Ordered(g, post),
           NEW A \in SUBSET DOMAIN g, ClosedUnder(Reversed(g), A),
           NEW m \in 1..Len(post), post[m] \notin A,
           \A k \in (m + 1)..Len(post) : post[k] \in A,
           NEW S, FoundBack(g, post[m], A, S)
    PROVE  S \ A = Together(g, post[m]) /\ ClosedUnder(Reversed(g), S)
PROOF
  <1> DEFINE u == post[m]
             D == DOMAIN g
             C == Together(g, u)
  <1>0. u \in D /\ Len(post) \in Nat
    BY ElementOfSeq DEF Ordered
  <1>1. FoundBack(g, u, A, S) /\ u \notin A
    OBVIOUS
  <1>2. C \in SUBSET D /\ u \in C
    BY <1>0, TogetherFacts
  <1>3. ClosedUnder(Reversed(g), S)
    BY DEF ClosedUnder, FoundBack
  <1>4. \A B \in SUBSET D : ClosedUnder(Reversed(g), B) =>
           \A x, y \in D : Reaches(g, x, y) /\ y \in B => x \in B
    <2> SUFFICES ASSUME NEW B \in SUBSET D, ClosedUnder(Reversed(g), B), NEW x \in D, NEW y \in D,
                        Reaches(g, x, y), y \in B, x \notin B
                 PROVE  FALSE
      OBVIOUS
    <2> DEFINE R == D \ B
    <2>1. R \in SUBSET DOMAIN g /\ x \in R /\ y \notin R
      OBVIOUS
    <2> HIDE DEF R
    <2>2. PICK p \in R : \E q \in g[p] : q \in D /\ q \notin R
      BY <2>1, WayOut
    <2>3. PICK q \in g[p] : q \in D /\ q \notin R
      BY <2>2
    <2>4. p \in D /\ q \in B /\ p \notin B
      BY <2>1, <2>2, <2>3 DEF R
    <2>5. p \in Reversed(g)[q]
      BY <2>3, <2>4, ReversedFacts
    <2> QED BY <2>4, <2>5 DEF ClosedUnder
  <1>5. C \subseteq S \ A
    <2> SUFFICES ASSUME NEW x \in C
                 PROVE  x \in S /\ x \notin A
      OBVIOUS
    <2>1. x \in D /\ Reaches(g, x, u) /\ Reaches(g, u, x)
      BY DEF Together
    <2>2. x \in S
      BY <1>0, <1>1, <1>3, <1>4, <2>1 DEF FoundBack
    <2>3. x \notin A
      BY <1>0, <1>1, <1>4, <2>1
    <2> QED BY <2>2, <2>3
  <1>6. \A y \in D : y \notin A => \E i \in 1..m : post[i] = y
    <2> SUFFICES ASSUME NEW y \in D, y \notin A
                 PROVE  \E i \in 1..m : post[i] = y
      OBVIOUS
    <2>1. PICK i \in 1..Len(post) : post[i] = y
      BY DEF Ordered
    <2>2. i \notin (m + 1)..Len(post)
      BY <2>1
    <2>3. i \in 1..m
      BY <1>0, <2>2
    <2> QED BY <2>1, <2>3
  <1>7. ASSUME NEW k \in C, NEW y \in D, k \in g[y], y \notin A
        PROVE  y \in C
    <2>1. k \in D /\ Reaches(g, u, k) /\ Reaches(g, k, u)
      BY DEF Together
    <2>2. Reaches(g, y, k)
      BY <1>7, ReachFacts
    <2>3. Reaches(g, y, u)
      BY <1>0, <2>1, <2>2, ReachFacts
    <2>4. PICK i \in 1..m : post[i] = y
      BY <1>6, <1>7
    <2>5. i \in 1..Len(post) /\ i \in i..Len(post)
      BY <1>0
    <2> DEFINE B == Before(post, i)
    <2>6. \A v \in D : Reaches(g, u, v) /\ Reaches(g, v, y) => y \in C
      <3> SUFFICES ASSUME NEW v \in D, Reaches(g, u, v), Reaches(g, v, y)
                   PROVE  y \in C
        OBVIOUS
      <3>1. Reaches(g, u, y)
        BY <1>0, ReachFacts
      <3> QED BY <2>3, <3>1 DEF Together
    <2>7. CASE k \notin B
      <3>1. Reaches(g, k, y)
        BY <1>7, <2>4, <2>5, <2>7 DEF Ordered, Later
      <3> QED BY <2>1, <2>6, <3>1
    <2>8. CASE k \in B
      <3>1. \A l \in 1..(i - 1) : l \in 1..Len(post) /\ i \in l..Len(post) /\ l # m
        BY <1>0
      <3>2. B \in SUBSET D
        <4>1. \A l \in 1..Len(post) : post[l] \in D
          BY ElementOfSeq DEF Ordered
        <4> QED BY <3>1, <4>1 DEF Before
      <3>3. u \notin B
        <4>1. \A l \in 1..(i - 1) : post[l] # post[m]
          BY <3>1 DEF Ordered
        <4> QED BY <4>1 DEF Before
      <3> HIDE DEF B, u
      <3>4. PICK p \in B : \E q \in g[p] : q \in D /\ q \notin B /\ Reaches(g, k, q)
        BY <1>0, <2>1, <2>8, <3>2, <3>3, WayOut
      <3>5. PICK q \in g[p] : q \in D /\ q \notin B /\ Reaches(g, k, q)
        BY <3>4
      <3>6. PICK l \in 1..(i - 1) : post[l] = p
        BY DEF Before, B
      <3>7. Reaches(g, q, post[i])
        BY <3>1, <3>5, <3>6 DEF Ordered, Later, B
      <3>8. Reaches(g, u, q)
        BY <1>0, <2>1, <3>5, ReachFacts
      <3> QED BY <2>4, <2>6, <3>5, <3>7, <3>8
    <2> QED BY <2>7, <2>8
  <1>8. S \subseteq A \cup C
    <2> HIDE DEF C, u
    <2>1. ASSUME NEW k \in C \ A, NEW y \in Reversed(g)[k]
          PROVE  y \in C \cup A
      <3>1. k \in D /\ y \in D
        BY <1>2, <2>1, ReversedFacts
      <3>2. k \in g[y]
        BY <2>1, <3>1, ReversedFacts
      <3> QED BY <1>7, <2>1, <3>1, <3>2
    <2>2. \A k \in C \ A : Reversed(g)[k] \subseteq C \cup A
      BY <2>1
    <2> QED BY <1>1, <1>2, <2>2 DEF FoundBack
  <1> QED BY <1>3, <1>5, <1>8

Marks(g) == [seen : SUBSET DOMAIN g, comps : SUBSET SUBSET DOMAIN g]

\* What the second pass has gathered: the components of the tables seen.
Gathered(g, a) ==
    ClosedUnder(Reversed(g), a.seen) /\ a.comps = {Together(g, t) : t \in a.seen}

LEMMA GatheringFacts ==
    ASSUME NEW g \in Graphs
    PROVE  /\ Gathering(g) \in [DOMAIN g -> [Marks(g) -> Marks(g)]]
           /\ \A u \in DOMAIN g : \A a \in Marks(g) :
                 /\ u \in a.seen => Gathering(g)[u][a] = a
                 /\ u \notin a.seen => \E S \in SUBSET DOMAIN g :
                       /\ FoundBack(g, u, a.seen, S)
                       /\ Gathering(g)[u][a].seen = S
                       /\ Gathering(g)[u][a].comps = a.comps \cup {S \ a.seen}
PROOF
  <1> DEFINE D == DOMAIN g
             r == Reversed(g)
             back == Visiting(r)
             From(a) == [seen |-> a.seen, post |-> <<>>]
             Ends(u, a) == back[u][From(a)].seen
             Result(u, a) == IF u \in a.seen THEN a
                             ELSE [seen |-> Ends(u, a), comps |-> a.comps \cup {Ends(u, a) \ a.seen}]
  <1>1. r \in Graphs /\ DOMAIN r = D
    BY ReversedFacts
  <1>2. Gathering(g) = [u \in D |-> [a \in Marks(g) |-> Result(u, a)]]
    BY DEF Gathering, Marks
  <1>3. back \in Steps(r) /\ Explores(r, back, Cardinality(DOMAIN r))
    <2> HIDE DEF r
    <2> QED BY <1>1, VisitingExplores
  <1> HIDE DEF back
  <1>4. ASSUME NEW u \in D, NEW a \in Marks(g)
        PROVE  Ends(u, a) \in SUBSET D /\ FoundBack(g, u, a.seen, Ends(u, a))
    <2> DEFINE w == From(a)
               b == back[u][w]
    <2>1. a.seen \in SUBSET D
      BY DEF Marks
    <2>2. w \in Walks(r) /\ w.seen = a.seen
      BY <1>1, <2>1 DEF Walks
    <2> HIDE DEF r, D, w
    <2>3. u \in DOMAIN r
      BY <1>1
    <2>4. b \in Walks(r)
      BY <1>3, <2>2, <2>3 DEF Steps
    <2>5. Unseen(r, w) <= Cardinality(DOMAIN r)
      BY <1>1, <2>2, UnseenFacts
    <2> HIDE DEF b
    <2>6. Explored(r, u, w, b)
      BY <1>3, <2>2, <2>3, <2>5 DEF Explores, b
    <2>7. b.seen \in SUBSET DOMAIN r
      BY <1>1, <2>4, WalkFacts
    <2>8. FoundBack(g, u, a.seen, b.seen)
      BY <1>1, <2>2, <2>6, <2>7 DEF Explored, FoundBack, r, D
    <2> QED BY <1>1, <2>7, <2>8 DEF b, w, D
  <1> HIDE DEF Ends
  <1>5. ASSUME NEW u \in D, NEW a \in Marks(g)
        PROVE  Result(u, a) \in Marks(g)
    <2>1. Ends(u, a) \in SUBSET D
      BY <1>4
    <2> QED BY <2>1 DEF Marks
  <1>6. ASSUME NEW u \in D, NEW a \in Marks(g)
        PROVE  Gathering(g)[u][a] = Result(u, a)
    BY <1>2
  <1>7. Gathering(g) \in [D -> [Marks(g) -> Marks(g)]]
    <2> HIDE DEF Result
    <2> QED BY <1>2, <1>5
  <1>8. ASSUME NEW u \in D, NEW a \in Marks(g), u \notin a.seen
        PROVE  \E S \in SUBSET D :
                  /\ FoundBack(g, u, a.seen, S)
                  /\ Gathering(g)[u][a].seen = S
                  /\ Gathering(g)[u][a].comps = a.comps \cup {S \ a.seen}
    <2>1. Gathering(g)[u][a] =
             [seen |-> Ends(u, a), comps |-> a.comps \cup {Ends(u, a) \ a.seen}]
      BY <1>6, <1>8
    <2> QED BY <1>4, <2>1
  <1>9. ASSUME NEW u \in D, NEW a \in Marks(g), u \in a.seen
        PROVE  Gathering(g)[u][a] = a
    BY <1>6, <1>9
  <1> QED BY <1>7, <1>8, <1>9

\* One table of the stack further.
LEMMA GatheringStep ==
    ASSUME NEW g \in Graphs, NEW post, Ordered(g, post), NEW m \in 1..Len(post),
           NEW a \in Marks(g), Gathered(g, a), NEW b, b = Gathering(g)[post[m]][a],
           \A k \in (m + 1)..Len(post) : post[k] \in a.seen
    PROVE  Gathered(g, b) /\ \A k \in m..Len(post) : post[k] \in b.seen
PROOF
  <1> DEFINE u == post[m]
             A == a.seen
  <1>1. u \in DOMAIN g /\ Len(post) \in Nat
    BY ElementOfSeq DEF Ordered
  <1>2. \A k \in m..Len(post) : k = m \/ k \in (m + 1)..Len(post)
    BY <1>1
  <1>3. CASE u \in A
    <2>1. b = a
      BY <1>1, <1>3, GatheringFacts
    <2> QED BY <1>2, <1>3, <2>1
  <1>4. CASE u \notin A
    <2>1. PICK S \in SUBSET DOMAIN g :
             /\ FoundBack(g, u, A, S) /\ b.seen = S /\ b.comps = a.comps \cup {S \ A}
      BY <1>1, <1>4, GatheringFacts
    <2>2. A \in SUBSET DOMAIN g /\ ClosedUnder(Reversed(g), A)
      BY DEF Marks, Gathered
    <2>11. u \notin A /\ FoundBack(g, u, A, S) /\ \A k \in (m + 1)..Len(post) : post[k] \in A
      BY <1>4, <2>1
    <2> HIDE DEF A
    <2>3. S \ A = Together(g, u) /\ ClosedUnder(Reversed(g), S)
      BY <2>2, <2>11, SecondPass
    <2>4. A \subseteq S /\ u \in S
      BY <2>1 DEF FoundBack
    <2> HIDE DEF u
    <2>5. \A t \in Together(g, u) : Together(g, t) = Together(g, u)
      BY <1>1, TogetherFacts
    <2>6. u \in Together(g, u)
      BY <1>1, TogetherFacts
    <2>7. \A t \in S : t \in A \/ t \in Together(g, u)
      BY <2>3
    <2>8. b.comps = {Together(g, t) : t \in A} \cup {Together(g, u)}
      BY <2>1, <2>3 DEF Gathered, A
    <2>9. b.comps = {Together(g, t) : t \in S}
      BY <2>3, <2>4, <2>5, <2>6, <2>7, <2>8
    <2>10. \A k \in m..Len(post) : post[k] \in S
      BY <1>2, <2>4 DEF A, u
    <2> QED BY <2>1, <2>3, <2>9, <2>10 DEF Gathered
  <1> QED BY <1>3, <1>4

\* The two passes find the classes of mutual reachability, of any graph.
THEOREM ComponentsFacts ==
    ASSUME NEW g \in Graphs
    PROVE  Components(g) = {Together(g, t) : t \in DOMAIN g}
PROOF
  <1> DEFINE post == FirstPass(g)
             n == Len(post)
             list == Reverse(post)
             start == [seen |-> {}, comps |-> {}]
             step == Gathering(g)
             D == DOMAIN g
  <1>1. Ordered(g, post)
    BY FirstPassFacts
  <1> HIDE DEF post
  <1>2. post \in Seq(D) /\ n \in Nat /\ \A i \in 1..n : post[i] \in D
    BY <1>1, ElementOfSeq DEF Ordered
  <1>3. start \in Marks(g)
    BY DEF Marks
  <1>4. step \in [D -> [Marks(g) -> Marks(g)]]
    BY GatheringFacts
  <1>5. Components(g) = Through(step, start, list).comps
    BY DEF Components, post
  <1>6. list \in Seq(D) /\ Len(list) = n /\ \A i \in 1..n : list[i] = post[n - i + 1]
    BY <1>2 DEF Reverse
  <1> HIDE DEF n, list, step
  <1>7. PICK at \in [0..n -> Marks(g)] : Along(at, step, start, list)
    <2> HIDE DEF start, D
    <2> QED BY <1>3, <1>4, <1>6, ThroughFacts
  <1> DEFINE Good(i) == /\ Gathered(g, at[i])
                        /\ \A k \in (n - i + 1)..n : post[k] \in at[i].seen
             G == {i \in 0..n : Good(i)}
  <1>8. 0 \in G
    <2>1. at[0] = start
      BY <1>7 DEF Along
    <2>2. Gathered(g, at[0])
      BY <2>1 DEF Gathered, ClosedUnder
    <2>3. \A k \in (n - 0 + 1)..n : FALSE
      BY <1>2
    <2> QED BY <1>2, <2>2, <2>3
  <1>9. ASSUME NEW i \in 1..n, i - 1 \in G
        PROVE  i \in G
    <2> DEFINE m == n - i + 1
               a == at[i - 1]
               b == at[i]
    <2>1. m \in 1..n /\ m + 1 = n - (i - 1) + 1 /\ i - 1 \in 0..n /\ i \in 0..n
      BY <1>2
    <2>2. a \in Marks(g)
      BY <2>1
    <2>3. b = step[post[m]][a]
      BY <1>6, <1>7 DEF Along
    <2>4. Gathered(g, a) /\ \A k \in (m + 1)..n : post[k] \in a.seen
      BY <1>9, <2>1
    <2> HIDE DEF m, a, b
    <2>5. Gathered(g, b) /\ \A k \in m..n : post[k] \in b.seen
      BY <1>1, <2>1, <2>2, <2>3, <2>4, GatheringStep DEF n, step
    <2> QED BY <2>1, <2>5 DEF b, m
  <1> HIDE DEF G
  <1>10. \A i \in 0..n : i \in G
    BY <1>2, <1>8, <1>9, CountUp
  <1>11. n \in G /\ n - n + 1 = 1 /\ at[n] \in Marks(g)
    BY <1>2, <1>10
  <1>12. Gathered(g, at[n]) /\ \A k \in 1..n : post[k] \in at[n].seen
    BY <1>11 DEF G
  <1>13. at[n].seen = D
    <2>1. at[n].seen \subseteq D
      BY <1>11 DEF Marks
    <2>2. \A t \in D : \E i \in 1..n : post[i] = t
      BY <1>1 DEF Ordered, n
    <2>3. D \subseteq at[n].seen
      BY <1>12, <2>2
    <2> QED BY <2>1, <2>3
  <1>14. Components(g) = at[n].comps
    BY <1>5, <1>6, <1>7 DEF Along
  <1> QED BY <1>12, <1>13, <1>14 DEF Gathered

-----------------------------------------------------------------------------
(* The orders of the units.                                                *)

LEMMA MinFacts ==
    ASSUME NEW S \in SUBSET Nat, S # {}
    PROVE  Min(S) \in S /\ \A k \in S : Min(S) <= k
PROOF
  BY Least DEF Min

\* What components are: finitely many, disjoint, and all the tables.
LEMMA ComponentFacts ==
    ASSUME NEW g \in Graphs
    PROVE  /\ IsFiniteSet(Components(g)) /\ Components(g) \in SUBSET SUBSET DOMAIN g
           /\ \A c \in Components(g) : c # {} /\ c \in SUBSET Nat /\ IsFiniteSet(c)
           /\ \A c \in Components(g) : \A t \in c : c = Together(g, t)
           /\ \A c, d \in Components(g) : c # d => c \cap d = {}
           /\ (UNION Components(g)) = DOMAIN g
PROOF
  <1>1. Components(g) = {Together(g, t) : t \in DOMAIN g}
    BY ComponentsFacts
  <1>2. IsFiniteSet(DOMAIN g) /\ (DOMAIN g) \subseteq Nat
    BY GraphFacts
  <1>3. IsFiniteSet(Components(g))
    <2> DEFINE D == DOMAIN g
    <2>1. Components(g) \in SUBSET SUBSET D
      <3>1. \A t \in D : Together(g, t) \in SUBSET D
        BY TogetherFacts
      <3> QED BY <1>1, <3>1
    <2> HIDE DEF D
    <2>2. IsFiniteSet(SUBSET D)
      BY <1>2, FS_SUBSET DEF D
    <2> QED BY <2>1, <2>2, FS_Subset
  <1>4. \A t \in DOMAIN g : /\ Together(g, t) \in SUBSET DOMAIN g /\ t \in Together(g, t)
                            /\ \A u \in Together(g, t) : Together(g, u) = Together(g, t)
    BY TogetherFacts
  <1>5. \A c \in Components(g) : c # {} /\ c \in SUBSET DOMAIN g /\ \A t \in c : c = Together(g, t)
    BY <1>1, <1>4
  <1>6. \A c, d \in Components(g) : c # d => c \cap d = {}
    BY <1>5
  <1>7. (UNION Components(g)) = DOMAIN g
    BY <1>1, <1>4
  <1>8. \A c \in Components(g) : c \in SUBSET Nat /\ IsFiniteSet(c)
    BY <1>2, <1>5, FS_Subset
  <1> QED BY <1>3, <1>5, <1>6, <1>7, <1>8

\* Of any tables, one is led back to from all that it leads to.
LEMMA Deepest ==
    ASSUME NEW g \in Graphs, NEW K \in SUBSET DOMAIN g, K # {}
    PROVE  \E x \in K : \A y \in K : Reaches(g, x, y) => Reaches(g, y, x)
PROOF
  <1> DEFINE Area(t) == {u \in DOMAIN g : Reaches(g, t, u)}
             Sizes == {Cardinality(Area(t)) : t \in K}
  <1>1. \A t \in DOMAIN g : IsFiniteSet(Area(t)) /\ Cardinality(Area(t)) \in Nat
    BY GraphFacts, FS_Subset, FS_CardinalityType
  <1>2. Sizes \in SUBSET Nat /\ Sizes # {}
    BY <1>1
  <1>3. PICK m \in Sizes : \A k \in Sizes : m <= k
    <2> HIDE DEF Sizes
    <2> QED BY <1>2, Least
  <1>4. PICK x \in K : m = Cardinality(Area(x))
    BY <1>3
  <1>5. ASSUME NEW y \in K, Reaches(g, x, y)
        PROVE  Reaches(g, y, x)
    <2> DEFINE X == Area(x)
               Y == Area(y)
    <2>1. Y \in SUBSET X
      BY <1>5, ReachFacts
    <2>2. Cardinality(X) <= Cardinality(Y)
      BY <1>3, <1>4, <1>5
    <2>3. IsFiniteSet(X) /\ Cardinality(X) \in Nat /\ Cardinality(Y) \in Nat
      BY <1>1
    <2>4. x \in X
      BY ReachFacts
    <2> HIDE DEF X, Y
    <2>5. X = Y
      <3>1. Cardinality(Y) <= Cardinality(X) /\ (Cardinality(X) = Cardinality(Y) => X = Y)
        BY <2>1, <2>3, FS_Subset
      <3> QED BY <2>2, <2>3, <3>1
    <2>6. x \in Y
      BY <2>4, <2>5
    <2> QED BY <2>6 DEF Y
  <1> QED BY <1>5

\* The condensation has no cycle: of any components left, one is ready.
LEMMA ReadyFacts ==
    ASSUME NEW g \in Graphs, NEW left \in Parts(Components(g))
    PROVE  Ready(g, left) # {}
PROOF
  <1> DEFINE D == DOMAIN g
             All == UNION left
  <1>1. left # {} /\ left \subseteq Components(g)
    BY DEF Parts
  <1>2. \A c \in left : c # {} /\ c \in SUBSET D /\ \A t \in c : c = Together(g, t)
    BY <1>1, ComponentFacts
  <1>3. All # {} /\ All \in SUBSET D
    BY <1>1, <1>2
  <1>4. PICK x \in All : \A y \in All : Reaches(g, x, y) => Reaches(g, y, x)
    <2> HIDE DEF All
    <2> QED BY <1>3, Deepest
  <1>5. PICK c \in left : x \in c
    BY <1>4
  <1>6. c = Together(g, x) /\ x \in D
    BY <1>2, <1>5
  <1>7. ASSUME NEW t \in c, NEW d \in left \ {c}, NEW u \in g[t] \cap d
        PROVE  FALSE
    <2>1. t \in D /\ u \in D /\ u \in All /\ d = Together(g, u)
      BY <1>2, <1>5, <1>7
    <2>2. Reaches(g, x, t) /\ Reaches(g, t, u)
      BY <1>6, <1>7, <2>1, ReachFacts DEF Together
    <2>3. Reaches(g, x, u)
      BY <1>6, <2>1, <2>2, ReachFacts
    <2>4. u \in c
      BY <1>4, <1>6, <2>1, <2>3 DEF Together
    <2>5. c = d
      BY <1>2, <1>5, <2>1, <2>4
    <2> QED BY <2>5
  <1>8. c \in Ready(g, left)
    BY <1>5, <1>7 DEF Ready
  <1> QED BY <1>8

\* A component of two tables, or of one that needs itself, is a cycle.
LEMMA CyclicFacts ==
    ASSUME NEW g \in Graphs, NEW x \in DOMAIN g, NEW y \in DOMAIN g, y \in Together(g, x),
           x # y \/ y \in g[x]
    PROVE  Together(g, x) \in CyclicComps(g)
PROOF
  <1> DEFINE c == Together(g, x)
  <1>1. c \in Components(g) /\ x \in c /\ y \in c
    BY ComponentsFacts, TogetherFacts
  <1>2. IsFiniteSet(c)
    BY <1>1, ComponentFacts
  <1> HIDE DEF c
  <1>3. x # y => Cardinality(c) > 1
    <2> SUFFICES ASSUME x # y
                 PROVE  Cardinality(c) > 1
      OBVIOUS
    <2>1. {x} \in SUBSET c /\ {x} # c
      BY <1>1
    <2>2. Cardinality({x}) = 1 /\ Cardinality(c) \in Nat
      BY <1>2, FS_Singleton, FS_CardinalityType
    <2>3. Cardinality({x}) <= Cardinality(c) /\ (Cardinality(c) = Cardinality({x}) => c = {x})
      BY <1>2, <2>1, FS_Subset
    <2> QED BY <2>1, <2>2, <2>3
  <1>4. IsCyclic(g, c)
    BY <1>1, <1>3 DEF IsCyclic
  <1> QED BY <1>1, <1>4 DEF CyclicComps, c

\* Tables of which each needs another one of them lead to a cycle.
LEMMA CycleAhead ==
    ASSUME NEW g \in Graphs, NEW left \in SUBSET DOMAIN g, NEW t \in left,
           \A x \in left : \E q \in left : q \in g[x]
    PROVE  \E c \in CyclicComps(g) : \E u \in c : Reaches(g, t, u)
PROOF
  <1> DEFINE K == {x \in left : Reaches(g, t, x)}
  <1>1. K \in SUBSET DOMAIN g /\ t \in K
    BY ReachFacts
  <1>2. PICK x \in K : \A y \in K : Reaches(g, x, y) => Reaches(g, y, x)
    <2> HIDE DEF K
    <2> QED BY <1>1, Deepest
  <1>3. PICK q \in left : q \in g[x]
    BY <1>2
  <1>4. x \in DOMAIN g /\ q \in DOMAIN g /\ Reaches(g, x, q) /\ Reaches(g, t, x)
    BY <1>1, <1>3, ReachFacts
  <1>5. q \in K
    BY <1>1, <1>3, <1>4, ReachFacts
  <1>6. q \in Together(g, x)
    BY <1>2, <1>4, <1>5 DEF Together
  <1>7. Together(g, x) \in CyclicComps(g)
    BY <1>3, <1>4, <1>6, CyclicFacts
  <1>8. x \in Together(g, x)
    BY <1>4, TogetherFacts
  <1> QED BY <1>4, <1>7, <1>8

\* Every component is in the order once, and no table of one needs a table of
\* a later one.
LEMMA OrderedFacts ==
    ASSUME NEW g \in Graphs
    PROVE  /\ Cardinality(Components(g)) \in Nat
           /\ OrderedComponents(g) \in Bijection(1..Cardinality(Components(g)), Components(g))
           /\ \A i, j \in 1..Cardinality(Components(g)) :
                 i < j => \A t \in OrderedComponents(g)[i] :
                             g[t] \cap OrderedComponents(g)[j] = {}
PROOF
  <1> DEFINE all == Components(g)
             n == Cardinality(all)
             First(left) == CHOOSE c \in Ready(g, left) : \A d \in Ready(g, left) : Min(c) <= Min(d)
             pick == [left \in Parts(all) |-> First(left)]
             parts == OrderedComponents(g)
  <1>1. ASSUME NEW left \in Parts(all)
        PROVE  pick[left] \in Ready(g, left)
    <2> DEFINE R == Ready(g, left)
               Mins == {Min(c) : c \in R}
    <2>1. R # {} /\ \A c \in R : c \in all
      BY ReadyFacts DEF Ready, Parts
    <2>2. \A c \in R : Min(c) \in Nat
      <3>1. \A c \in R : c \in SUBSET Nat /\ c # {}
        BY <2>1, ComponentFacts
      <3>2. \A c \in R : Min(c) \in c
        BY <3>1, MinFacts
      <3> QED BY <3>1, <3>2
    <2>3. Mins \in SUBSET Nat /\ Mins # {}
      BY <2>1, <2>2
    <2>4. \E m \in Mins : \A k \in Mins : m <= k
      <3> HIDE DEF Mins
      <3> QED BY <2>3, Least
    <2>5. \E c \in R : \A d \in R : Min(c) <= Min(d)
      BY <2>4
    <2>6. First(left) \in R
      BY <2>5
    <2> QED BY <2>6
  <1>2. parts = Drained(pick, all)
    BY DEF OrderedComponents
  <1>3. \A left \in Parts(all) : pick[left] \in left
    <2>1. \A left : Ready(g, left) \subseteq left
      BY DEF Ready
    <2> QED BY <1>1, <2>1
  <1>4. IsFiniteSet(all) /\ n \in Nat
    BY ComponentFacts, FS_CardinalityType
  <1> HIDE DEF pick, n, all, parts
  <1>5. /\ parts \in Bijection(1..n, all)
        /\ \A i \in 1..n : parts[i] = pick[{parts[j] : j \in i..n}]
    BY <1>2, <1>3, <1>4, DrainedFacts DEF n
  <1>6. parts \in [1..n -> all] /\ \A i, j \in 1..n : parts[i] = parts[j] => i = j
    BY <1>5 DEF Bijection, Injection, IsInjective
  <1>7. ASSUME NEW i \in 1..n, NEW j \in 1..n, i < j, NEW t \in parts[i]
        PROVE  g[t] \cap parts[j] = {}
    <2> DEFINE left == {parts[k] : k \in i..n}
    <2>1. i \in i..n /\ j \in i..n /\ i # j
      BY <1>4, <1>7
    <2>2. left \in Parts(all)
      <3>1. \A k \in i..n : parts[k] \in all
        BY <1>6
      <3> QED BY <2>1, <3>1 DEF Parts
    <2>3. parts[j] \in left \ {parts[i]}
      BY <1>6, <2>1
    <2>4. parts[i] = pick[left]
      BY <1>5
    <2> HIDE DEF left
    <2>5. parts[i] \in Ready(g, left)
      BY <1>1, <2>2, <2>4
    <2> QED BY <1>7, <2>3, <2>5 DEF Ready
  <1> QED BY <1>4, <1>5, <1>7 DEF parts, all, n

LEMMA PickFacts ==
    ASSUME NEW left \in SUBSET Nat, left # {}, NEW edges, NEW known
    PROVE  /\ Pick(left, edges, known) \in left
           /\ \A x \in left : (\A e \in edges : e[2] = x => e[1] \notin left) =>
                 \A e \in edges : e[2] = Pick(left, edges, known) => e[1] \notin left
PROOF
  <1> DEFINE ready == {t \in left : \A e \in edges : e[2] = t => e[1] \notin left}
             cands == {t \in left : known[t] \notin left}
  <1>1. CASE ready # {}
    <2>1. Pick(left, edges, known) = Min(ready)
      BY <1>1 DEF Pick
    <2>2. Min(ready) \in ready
      <3>1. ready \in SUBSET Nat
        OBVIOUS
      <3> HIDE DEF ready
      <3> QED BY <1>1, <3>1, MinFacts
    <2> QED BY <2>1, <2>2
  <1>2. CASE ready = {}
    <2>1. Pick(left, edges, known) = FallbackPick(left, known)
      BY <1>2 DEF Pick
    <2>2. CASE cands # {}
      <3>1. FallbackPick(left, known) = Min(cands)
        BY <2>2 DEF FallbackPick
      <3>2. cands \in SUBSET left
        OBVIOUS
      <3> HIDE DEF cands
      <3>3. Min(cands) \in left
        BY <2>2, <3>2, MinFacts
      <3> QED BY <1>2, <2>1, <3>1, <3>3
    <2>3. CASE cands = {}
      <3>1. FallbackPick(left, known) = Min(left)
        BY <2>3 DEF FallbackPick
      <3> QED BY <1>2, <2>1, <3>1, MinFacts
    <2> QED BY <2>2, <2>3
  <1> QED BY <1>1, <1>2

\* The order of the plain dump has every table once, and each where one was
\* free to go, if any was.
LEMMA TableOrderFacts ==
    ASSUME NEW sel \in SUBSET Nat, IsFiniteSet(sel), NEW known
    PROVE  /\ Cardinality(sel) \in Nat
           /\ TableOrder(sel, known) \in Bijection(1..Cardinality(sel), sel)
           /\ \A i \in 1..Cardinality(sel) :
                 TableOrder(sel, known)[i] =
                    Pick({TableOrder(sel, known)[j] : j \in i..Cardinality(sel)},
                         OrderEdges(sel, known), known)
PROOF
  <1> DEFINE edges == OrderEdges(sel, known)
             n == Cardinality(sel)
             pick == [left \in Parts(sel) |-> Pick(left, edges, known)]
             order == TableOrder(sel, known)
  <1>1. \A left \in Parts(sel) : pick[left] \in left
    BY PickFacts DEF Parts
  <1>2. order = Drained(pick, sel)
    BY DEF TableOrder
  <1>3. n \in Nat
    BY FS_CardinalityType
  <1>4. \A left \in Parts(sel) : pick[left] = Pick(left, edges, known)
    OBVIOUS
  <1> HIDE DEF pick, order, edges, n
  <1>5. /\ order \in Bijection(1..n, sel)
        /\ \A i \in 1..n : order[i] = pick[{order[j] : j \in i..n}]
    BY <1>1, <1>2, DrainedFacts DEF n
  <1>6. order \in [1..n -> sel]
    BY <1>5 DEF Bijection, Injection
  <1>7. ASSUME NEW i \in 1..n
        PROVE  order[i] = Pick({order[j] : j \in i..n}, edges, known)
    <2> DEFINE left == {order[j] : j \in i..n}
    <2>1. left \in Parts(sel)
      <3>1. i \in i..n /\ \A j \in i..n : j \in 1..n
        BY <1>3
      <3> QED BY <1>6, <3>1 DEF Parts
    <2>2. order[i] = pick[left]
      BY <1>5
    <2> HIDE DEF left
    <2>3. order[i] = Pick(left, edges, known)
      BY <1>4, <2>1, <2>2
    <2> QED BY <2>3 DEF left
  <1> QED BY <1>3, <1>5, <1>7 DEF edges, n, order

-----------------------------------------------------------------------------
(* Lists of lists, laid end to end.                                        *)

\* The element k of flat is the element col[k] of the list row[k], in order.
Spread(row, col, seqs, m, flat) ==
    /\ \A k \in 1..Len(flat) :
          /\ row[k] \in 1..m /\ col[k] \in 1..Len(seqs[row[k]])
          /\ flat[k] = seqs[row[k]][col[k]]
    /\ \A i \in 1..m : \A j \in 1..Len(seqs[i]) :
          \E k \in 1..Len(flat) : row[k] = i /\ col[k] = j
    /\ \A k, l \in 1..Len(flat) :
          k < l => row[k] < row[l] \/ (row[k] = row[l] /\ col[k] < col[l])

Spreads(seqs, m, flat) ==
    \E row, col \in [1..Len(flat) -> Nat] : Spread(row, col, seqs, m, flat)

LEMMA SpreadStep ==
    ASSUME NEW S, NEW n \in Nat, NEW seqs \in [1..n -> Seq(S)], NEW m \in 1..n,
           NEW flat \in Seq(S), Spreads(seqs, m - 1, flat)
    PROVE  Spreads(seqs, m, flat \o seqs[m])
PROOF
  <1> DEFINE a == Len(flat)
             b == Len(seqs[m])
             all == flat \o seqs[m]
  <1>1. PICK row \in [1..a -> Nat], col \in [1..a -> Nat] : Spread(row, col, seqs, m - 1, flat)
    BY DEF Spreads
  <1>2. seqs[m] \in Seq(S) /\ a \in Nat /\ b \in Nat
    BY LenProperties
  <1>3. /\ Len(all) = a + b
        /\ \A k \in 1..a : all[k] = flat[k]
        /\ \A k \in (a + 1)..(a + b) : all[k] = seqs[m][k - a]
    <2> DEFINE s == seqs[m]
    <2>1. s \in Seq(S)
      BY <1>2
    <2> HIDE DEF s
    <2> QED BY <2>1 DEF s
  <1> HIDE DEF a, b, all
  <1>4. /\ \A k \in 1..(a + b) : k \in 1..a \/ k \in (a + 1)..(a + b)
        /\ \A k \in 1..a : k \in 1..(a + b) /\ k \notin (a + 1)..(a + b)
        /\ \A k \in (a + 1)..(a + b) : k \in 1..(a + b) /\ k \notin 1..a /\ k - a \in 1..b
        /\ \A j \in 1..b : j + a \in (a + 1)..(a + b) /\ (j + a) - a = j
    BY <1>2
  <1> DEFINE r == [k \in 1..(a + b) |-> IF k \in 1..a THEN row[k] ELSE m]
             c == [k \in 1..(a + b) |-> IF k \in 1..a THEN col[k] ELSE k - a]
  <1>5. /\ r \in [1..(a + b) -> Nat] /\ c \in [1..(a + b) -> Nat]
        /\ \A k \in 1..a : r[k] = row[k] /\ c[k] = col[k]
        /\ \A k \in (a + 1)..(a + b) : r[k] = m /\ c[k] = k - a
    BY <1>2, <1>4
  <1> HIDE DEF r, c
  <1>6. \A k \in 1..a : /\ row[k] \in 1..(m - 1) /\ col[k] \in 1..Len(seqs[row[k]])
                        /\ flat[k] = seqs[row[k]][col[k]]
    BY <1>1 DEF Spread, a
  <1>7. ASSUME NEW k \in 1..(a + b)
        PROVE  r[k] \in 1..m /\ c[k] \in 1..Len(seqs[r[k]]) /\ all[k] = seqs[r[k]][c[k]]
    <2>1. CASE k \in 1..a
      <3>1. row[k] \in 1..m
        BY <1>6, <2>1
      <3> QED BY <1>3, <1>5, <1>6, <2>1, <3>1
    <2>2. CASE k \in (a + 1)..(a + b)
      <3>1. r[k] = m /\ c[k] = k - a /\ k - a \in 1..b
        BY <1>4, <1>5, <2>2
      <3> QED BY <1>3, <2>2, <3>1 DEF b
    <2> QED BY <1>4, <2>1, <2>2
  <1>8. ASSUME NEW i \in 1..m, NEW j \in 1..Len(seqs[i])
        PROVE  \E k \in 1..(a + b) : r[k] = i /\ c[k] = j
    <2>1. CASE i = m
      <3>1. j \in 1..b
        BY <2>1 DEF b
      <3>2. j + a \in (a + 1)..(a + b) /\ (j + a) - a = j
        BY <1>4, <3>1
      <3> QED BY <1>4, <1>5, <2>1, <3>2
    <2>2. CASE i # m
      <3>1. i \in 1..(m - 1)
        BY <2>2
      <3>2. \A x \in 1..(m - 1) : \A y \in 1..Len(seqs[x]) :
               \E k \in 1..a : row[k] = x /\ col[k] = y
        BY <1>1 DEF Spread, a
      <3>3. \E k \in 1..a : row[k] = i /\ col[k] = j
        BY <1>8, <3>1, <3>2
      <3> QED BY <1>4, <1>5, <3>3
    <2> QED BY <2>1, <2>2
  <1>9. ASSUME NEW k \in 1..(a + b), NEW l \in 1..(a + b), k < l
        PROVE  r[k] < r[l] \/ (r[k] = r[l] /\ c[k] < c[l])
    <2>1. CASE k \in 1..a /\ l \in 1..a
      <3>1. row[k] < row[l] \/ (row[k] = row[l] /\ col[k] < col[l])
        BY <1>1, <1>9, <2>1 DEF Spread, a
      <3> QED BY <1>5, <2>1, <3>1
    <2>2. CASE k \in 1..a /\ l \in (a + 1)..(a + b)
      BY <1>5, <1>6, <2>2
    <2>3. CASE k \in (a + 1)..(a + b) /\ l \in (a + 1)..(a + b)
      BY <1>2, <1>5, <1>9, <2>3
    <2>4. CASE k \in (a + 1)..(a + b) /\ l \in 1..a
      BY <1>2, <1>9, <2>4
    <2> QED BY <1>4, <2>1, <2>2, <2>3, <2>4
  <1>10. Spread(r, c, seqs, m, all)
    BY <1>3, <1>7, <1>8, <1>9 DEF Spread
  <1> QED BY <1>3, <1>5, <1>10 DEF Spreads, all

LEMMA FlattenFacts ==
    ASSUME NEW S, NEW n \in Nat, NEW seqs \in [1..n -> Seq(S)]
    PROVE  FlattenSeq(seqs) \in Seq(S) /\ Spreads(seqs, n, FlattenSeq(seqs))
PROOF
  <1>0. Spreads(seqs, 0, <<>>)
    <2> DEFINE z == [k \in 1..0 |-> 0]
    <2>1. z \in [1..0 -> Nat] /\ Len(<<>>) = 0
      OBVIOUS
    <2> HIDE DEF z
    <2>2. Spread(z, z, seqs, 0, <<>>)
      BY <2>1 DEF Spread
    <2> QED BY <2>1, <2>2 DEF Spreads
  <1>1. seqs \in Seq(Seq(S)) /\ Len(seqs) = n
    OBVIOUS
  <1>2. CASE n = 0
    <2>1. FlattenSeq(seqs) = seqs
      BY <1>1, <1>2 DEF FlattenSeq
    <2>2. seqs = <<>>
      BY <1>1, <1>2, EmptySeq
    <2> QED BY <1>0, <1>2, <2>1, <2>2
  <1>3. CASE n # 0
    <2> DEFINE F == [m \in 1..n |-> [s \in Seq(S) |-> s \o seqs[m]]]
               Up(f) == [i \in 1..n |-> IF i = 1 THEN seqs[i] ELSE f[i - 1] \o seqs[i]]
    <2>0. \A s, t \in Seq(S) : s \o t \in Seq(S)
      BY ConcatProperties
    <2>1. F \in [1..n -> [Seq(S) -> Seq(S)]]
      BY <2>0
    <2>2. <<>> \in Seq(S)
      BY EmptySeq
    <2>3. PICK f \in [0..n -> Seq(S)] : Follows(f, <<>>, F, n)
      <3> HIDE DEF F
      <3> QED BY <2>1, <2>2, Recursion
    <2>4. \A m \in 1..n : f[m - 1] \in Seq(S) /\ f[m] = f[m - 1] \o seqs[m]
      <3> SUFFICES ASSUME NEW m \in 1..n
                   PROVE  f[m - 1] \in Seq(S) /\ f[m] = f[m - 1] \o seqs[m]
        OBVIOUS
      <3>1. m - 1 \in 0..n
        OBVIOUS
      <3>2. f[m - 1] \in Seq(S)
        BY <2>3, <3>1
      <3>3. f[m] = F[m][f[m - 1]]
        BY <2>3 DEF Follows
      <3> QED BY <3>2, <3>3
    <2>5. f[0] = <<>> /\ f[1] = seqs[1]
      <3>1. 1 \in 1..n /\ 1 - 1 = 0
        BY <1>3
      <3>2. f[0] = <<>> /\ f[1] = f[0] \o seqs[1]
        BY <2>3, <2>4, <3>1 DEF Follows
      <3>3. seqs[1] \in Seq(S)
        BY <3>1
      <3>4. <<>> \o seqs[1] = seqs[1]
        BY <3>3, ConcatEmptySeq
      <3> QED BY <3>2, <3>4
    <2> DEFINE e == [i \in 1..n |-> f[i]]
    <2>6. e = Up(e)
      <3>1. \A i \in 1..n : i # 1 => i - 1 \in 1..n
        OBVIOUS
      <3>2. \A i \in 1..n : e[i] = f[i]
        OBVIOUS
      <3> HIDE DEF e
      <3>3. \A i \in 1..n : e[i] = (IF i = 1 THEN seqs[i] ELSE e[i - 1] \o seqs[i])
        BY <2>4, <2>5, <3>1, <3>2
      <3> QED BY <3>3 DEF e
    <2> DEFINE h == CHOOSE x : x = Up(x)
    <2>7. h = Up(h)
      <3> HIDE DEF e, Up
      <3> QED BY <2>6
    <2>8. FlattenSeq(seqs) = h[n]
      BY <1>1, <1>3 DEF FlattenSeq
    <2> HIDE DEF h
    <2>9. \A i \in 1..n : h[i] = (IF i = 1 THEN seqs[i] ELSE h[i - 1] \o seqs[i])
      BY <2>7
    <2> DEFINE G == {i \in 0..n : i # 0 => h[i] = f[i]}
    <2>10. 0 \in G
      OBVIOUS
    <2>11. ASSUME NEW m \in 1..n, m - 1 \in G
           PROVE  m \in G
      <3>1. CASE m = 1
        BY <2>5, <2>9, <3>1
      <3>2. CASE m # 1
        <4>1. m - 1 # 0 /\ m \in 0..n
          BY <3>2
        <4>2. h[m - 1] = f[m - 1]
          BY <2>11, <4>1
        <4>3. h[m] = f[m]
          BY <2>4, <2>9, <3>2, <4>2
        <4> QED BY <4>1, <4>3
      <3> QED BY <3>1, <3>2
    <2> HIDE DEF G
    <2>12. \A i \in 0..n : i \in G
      BY <2>10, <2>11, CountUp
    <2>13. n \in G /\ n \in 0..n
      BY <2>12
    <2>14. h[n] = f[n]
      BY <1>3, <2>13 DEF G
    <2> DEFINE H == {i \in 0..n : Spreads(seqs, i, f[i])}
    <2>15. 0 \in H
      BY <1>0, <2>5
    <2>16. ASSUME NEW m \in 1..n, m - 1 \in H
           PROVE  m \in H
      <3>1. Spreads(seqs, m - 1, f[m - 1])
        BY <2>16
      <3>2. f[m - 1] \in Seq(S) /\ f[m] = f[m - 1] \o seqs[m] /\ m \in 0..n
        BY <2>4
      <3>3. Spreads(seqs, m, f[m - 1] \o seqs[m])
        BY <3>1, <3>2, SpreadStep
      <3> QED BY <3>2, <3>3
    <2> HIDE DEF H
    <2>17. \A i \in 0..n : i \in H
      BY <2>15, <2>16, CountUp
    <2>18. n \in H
      BY <2>13, <2>17
    <2>19. Spreads(seqs, n, f[n]) /\ f[n] \in Seq(S)
      BY <2>3, <2>13, <2>18 DEF H
    <2> QED BY <2>8, <2>14, <2>19
  <1> QED BY <1>2, <1>3

-----------------------------------------------------------------------------
(* The catalog graph of a selection.                                       *)

SchemaOK ==
    /\ parent \in [Tables -> Tables \cup {None}] /\ Forest(parent)
    /\ fks \subseteq Tables \X Tables
    /\ rows \subseteq Tables /\ bare \subseteq rows

GraphOf(sel) == SafetyGraph(sel, InterleaveParent(sel))

LEMMA TableFacts ==
    /\ Tables \in SUBSET Nat /\ IsFiniteSet(Tables) /\ Cardinality(Tables) = N /\ N \in Nat
    /\ None \notin Tables
PROOF
  <1>1. N \in Nat
    BY CatalogAssumption
  <1>2. Tables = 1..N
    BY DEF Tables
  <1>3. IsFiniteSet(1..N) /\ Cardinality(1..N) = N
    BY <1>1, FS_Interval
  <1> QED BY <1>1, <1>2, <1>3 DEF None

\* The graph has every prerequisite of a table that is selected, and the order
\* of the INSERTs follows only its edges.
LEMMA SelectionGraph ==
    ASSUME SchemaOK, NEW sel \in SUBSET Tables
    PROVE  /\ sel \in SUBSET Nat /\ IsFiniteSet(sel)
           /\ InterleaveParent(sel) \in [sel -> sel \cup {None}]
           /\ GraphOf(sel) \in Graphs /\ DOMAIN GraphOf(sel) = sel
           /\ \A t, p \in sel : parent[t] = p \/ <<t, p>> \in fks => p \in GraphOf(sel)[t]
           /\ \A t \in sel : InterleaveParent(sel)[t] # None =>
                 InterleaveParent(sel)[t] \in GraphOf(sel)[t]
           /\ \A t, p \in sel : parent[t] = p => InterleaveParent(sel)[t] = p
           /\ \A e \in OrderEdges(sel, InterleaveParent(sel)) :
                 e[1] \in sel /\ e[2] \in sel /\ e[1] \in GraphOf(sel)[e[2]]
PROOF
  <1> DEFINE known == InterleaveParent(sel)
             g == GraphOf(sel)
  <1>1. sel \in SUBSET Nat /\ IsFiniteSet(sel) /\ None \notin sel
    BY TableFacts, FS_Subset
  <1>2. parent \in [Tables -> Tables \cup {None}] /\ fks \subseteq Tables \X Tables
    BY DEF SchemaOK
  <1>3. \A t \in Tables : parent[t] # t
    <2> SUFFICES ASSUME NEW t \in Tables, parent[t] = t
                 PROVE  FALSE
      OBVIOUS
    <2>1. {t} \in Parts(Tables)
      BY DEF Parts
    <2> QED BY <2>1 DEF SchemaOK, Forest
  <1>4. known \in [sel -> sel \cup {None}]
    BY DEF InterleaveParent
  <1>5. \A t, p \in sel : parent[t] = p => known[t] = p
    <2> SUFFICES ASSUME NEW t \in sel, NEW p \in sel, parent[t] = p
                 PROVE  known[t] = p
      OBVIOUS
    <2>1. p # None /\ p # t
      BY <1>1, <1>3
    <2>2. NeedsInterleaveDdl(sel)
      BY <2>1 DEF NeedsInterleaveDdl
    <2> QED BY <2>2 DEF InterleaveParent, CreateTableParent
  <1> DEFINE Edges(k) == [t \in sel |-> ({k[t]} \ {None}) \cup {p \in sel : <<t, p>> \in fks}]
  <1>6. g = Edges(known)
    BY DEF GraphOf, SafetyGraph
  <1>11. OrderEdges(sel, known) =
            {<<known[t], t>> : t \in {u \in sel : known[u] # None}}
            \cup {<<e[2], e[1]>> : e \in {f \in fks :
                      /\ f[1] \in sel /\ f[2] \in sel /\ f[1] # f[2]
                      /\ ~Descends(known, f[1], f[2])}}
    BY DEF OrderEdges
  <1> HIDE DEF known, g
  <1>7. g \in [sel -> SUBSET sel] /\ DOMAIN g = sel
    BY <1>4, <1>6
  <1>8. g \in Graphs
    BY <1>1, <1>7 DEF Graphs
  <1>9. \A t, p \in sel : parent[t] = p \/ <<t, p>> \in fks => p \in g[t]
    BY <1>1, <1>5, <1>6
  <1>10. \A t \in sel : known[t] # None => known[t] \in g[t]
    BY <1>6
  <1>12. \A e \in OrderEdges(sel, known) : e[1] \in sel /\ e[2] \in sel /\ e[1] \in g[e[2]]
    <2> SUFFICES ASSUME NEW e \in OrderEdges(sel, known)
                 PROVE  e[1] \in sel /\ e[2] \in sel /\ e[1] \in g[e[2]]
      OBVIOUS
    <2>1. CASE \E t \in sel : known[t] # None /\ e = <<known[t], t>>
      BY <1>4, <1>10, <2>1
    <2>2. CASE \E f \in fks : f[1] \in sel /\ f[2] \in sel /\ e = <<f[2], f[1]>>
      <3>1. PICK f \in fks : f[1] \in sel /\ f[2] \in sel /\ e = <<f[2], f[1]>>
        BY <2>2
      <3>2. f = <<f[1], f[2]>>
        BY <1>2
      <3>3. f[2] \in g[f[1]]
        BY <1>9, <3>1, <3>2
      <3> QED BY <3>1, <3>3
    <2> QED BY <1>11, <2>1, <2>2
  <1> QED BY <1>1, <1>4, <1>5, <1>7, <1>8, <1>9, <1>10, <1>12 DEF known, g

\* A descendant reaches its ancestors.
LEMMA DescendsFacts ==
    ASSUME NEW g \in Graphs, NEW known \in [DOMAIN g -> DOMAIN g \cup {None}],
           None \notin DOMAIN g,
           \A u \in DOMAIN g : known[u] # None => known[u] \in g[u],
           NEW t \in DOMAIN g, NEW anc \in DOMAIN g, Descends(known, anc, t)
    PROVE  Reaches(g, t, anc)
PROOF
  <1> DEFINE D == DOMAIN g
             A == D \cup {None}
             n == Cardinality(D)
             Next1 == [x \in A |-> IF x = None THEN None ELSE known[x]]
             F == [m \in 1..n |-> Next1]
             Up(f) == [m \in 0..n |->
                         IF m = 0 THEN t ELSE IF f[m - 1] = None THEN None ELSE known[f[m - 1]]]
  <1>1. n \in Nat /\ DOMAIN known = D
    BY GraphFacts, FS_CardinalityType
  <1>2. Next1 \in [A -> A] /\ F \in [1..n -> [A -> A]] /\ t \in A
    OBVIOUS
  <1> DEFINE h == CHOOSE x : x = Up(x)
  <1>3. \E m \in 1..n : h[m] = anc
    BY <1>1 DEF Descends
  <1> HIDE DEF n, D
  <1>4. PICK f \in [0..n -> A] : Follows(f, t, F, n)
    <2> HIDE DEF F, A
    <2> QED BY <1>1, <1>2, Recursion
  <1>5. \A m \in 1..n : f[m - 1] \in A /\ f[m] = Next1[f[m - 1]]
    <2> SUFFICES ASSUME NEW m \in 1..n
                 PROVE  f[m - 1] \in A /\ f[m] = Next1[f[m - 1]]
      OBVIOUS
    <2>1. m - 1 \in 0..n /\ F[m] = Next1
      BY <1>1
    <2> QED BY <1>4, <2>1 DEF Follows
  <1>6. f = Up(f)
    <2>1. \A x \in A : Next1[x] = (IF x = None THEN None ELSE known[x])
      OBVIOUS
    <2> HIDE DEF Next1, A, F
    <2>2. \A m \in 1..n : f[m] = (IF f[m - 1] = None THEN None ELSE known[f[m - 1]])
      BY <1>5, <2>1
    <2>3. f[0] = t
      BY <1>4 DEF Follows
    <2>4. \A m \in 0..n : m # 0 => m \in 1..n
      BY <1>1
    <2> QED BY <1>4, <2>2, <2>3, <2>4
  <1>7. h = Up(h)
    <2> HIDE DEF Up
    <2> QED BY <1>6
  <1> HIDE DEF h
  <1>8. h[0] = t /\ \A m \in 1..n : h[m] = (IF h[m - 1] = None THEN None ELSE known[h[m - 1]])
    <2>1. 0 \in 0..n /\ \A m \in 1..n : m \in 0..n /\ m # 0
      BY <1>1
    <2> QED BY <1>7, <2>1
  <1> DEFINE G == {m \in 0..n : h[m] \in A /\ (h[m] # None => Reaches(g, t, h[m]))}
  <1>9. 0 \in G
    BY <1>1, <1>8, ReachFacts DEF D
  <1>10. ASSUME NEW m \in 1..n, m - 1 \in G
         PROVE  m \in G
    <2>1. h[m - 1] \in A /\ (h[m - 1] # None => Reaches(g, t, h[m - 1])) /\ m \in 0..n
      BY <1>10
    <2>2. CASE h[m - 1] = None
      BY <1>8, <2>1, <2>2
    <2>3. CASE h[m - 1] # None
      <3> DEFINE x == h[m - 1]
                 y == known[h[m - 1]]
      <3>1. x \in D /\ y \in A /\ h[m] = y
        BY <1>8, <2>1, <2>3 DEF D
      <3>2. y # None => y \in D /\ Reaches(g, x, y)
        BY <3>1, ReachFacts DEF D
      <3>3. y # None => Reaches(g, t, y)
        BY <2>1, <2>3, <3>1, <3>2, ReachFacts DEF D
      <3> QED BY <2>1, <3>1, <3>3
    <2> QED BY <2>2, <2>3
  <1> HIDE DEF G
  <1>11. \A m \in 0..n : m \in G
    BY <1>1, <1>9, <1>10, CountUp
  <1>12. PICK m \in 1..n : h[m] = anc
    BY <1>3
  <1>13. m \in G /\ anc # None
    BY <1>1, <1>11, <1>12
  <1> QED BY <1>12, <1>13 DEF G

-----------------------------------------------------------------------------
(* The plan.                                                               *)

\* Every table finds what it needs in an earlier unit or, in a group, there.
InOrder(units, sel) ==
    \A i \in 1..Len(units) : \A t \in Exported(units[i]) : \A p \in Needs(sel, t) :
        \/ \E j \in 1..(i - 1) : p \in Exported(units[j])
        \/ units[i].kind = "cyclic" /\ p \in Exported(units[i])

GroupsOf(units) == {i \in 1..Len(units) : units[i].kind = "cyclic"}

Affordable(units) ==
    Cardinality(GroupsOf(units))
        + Cardinality(UNION {Populated(units[i].tables) : i \in GroupsOf(units)}) <= ByteLimit

\* What a plan is: the selected tables, each once.
Whole(units, sel, mutate) ==
    /\ units \in Seq(Unit)
    /\ \A i, j \in 1..Len(units) : i # j => units[i].tables \cap units[j].tables = {}
    /\ \A i \in 1..Len(units) : units[i].tables \subseteq sel
    /\ \A t \in sel : \E i \in 1..Len(units) : t \in units[i].tables
    /\ \A i \in 1..Len(units) : units[i].kind = "empty" => Populated(units[i].tables) = {}
    /\ (GroupsOf(units) # {} => mutate) /\ Affordable(units)
    /\ InOrder(units, sel) \/ LeadsToEmptyCycle(sel)

LEMMA NoGroupsAffordable ==
    ASSUME NEW units, GroupsOf(units) = {}
    PROVE  Affordable(units)
PROOF
  <1>1. (UNION {Populated(units[i].tables) : i \in GroupsOf(units)}) = {}
    OBVIOUS
  <1> QED BY <1>1, FS_EmptySet, LimitAssumption DEF Affordable

\* Without a populated cycle, each table on its own.
LEMMA SingleUnits ==
    ASSUME SchemaOK, NEW sel \in SUBSET Tables, Groups(GraphOf(sel)) = {}, NEW mutate \in BOOLEAN,
           NEW order, order = TableOrder(sel, InterleaveParent(sel)),
           NEW units \in Seq(Unit), Len(units) = Cardinality(sel),
           \A i \in 1..Len(units) :
              /\ units[i].tables = {order[i]} /\ units[i].kind \in {"ordinary", "empty"}
              /\ units[i].kind = "empty" => order[i] \notin rows
    PROVE  Whole(units, sel, mutate)
PROOF
  <1> DEFINE g == GraphOf(sel)
             n == Cardinality(sel)
             known == InterleaveParent(sel)
             edges == OrderEdges(sel, known)
  <1>1. /\ g \in Graphs /\ DOMAIN g = sel /\ sel \in SUBSET Nat /\ IsFiniteSet(sel)
        /\ known \in [sel -> sel \cup {None}] /\ None \notin sel
        /\ \A t, p \in sel : parent[t] = p \/ <<t, p>> \in fks => p \in g[t]
        /\ \A t \in sel : known[t] # None => known[t] \in g[t]
        /\ \A t, p \in sel : parent[t] = p => known[t] = p
        /\ \A e \in edges : e[1] \in sel /\ e[2] \in sel /\ e[1] \in g[e[2]]
    BY SelectionGraph, TableFacts
  <1>2. /\ n \in Nat /\ order \in Bijection(1..n, sel)
        /\ \A i \in 1..n : order[i] = Pick({order[j] : j \in i..n}, edges, known)
    BY <1>1, TableOrderFacts
  <1>3. /\ order \in [1..n -> sel] /\ \A i, j \in 1..n : order[i] = order[j] => i = j
        /\ \A t \in sel : \E i \in 1..n : order[i] = t
    BY <1>2 DEF Bijection, Injection, IsInjective, Surjection
  <1>4. Len(units) = n
    OBVIOUS
  <1>5. \A c \in CyclicComps(g) : c \cap rows = {}
    BY DEF Groups, Populated
  <1>6. \A t, p \in sel : t # p /\ <<t, p>> \in fks /\ ~Descends(known, t, p) => <<p, t>> \in edges
    <2> SUFFICES ASSUME NEW t \in sel, NEW p \in sel, t # p, <<t, p>> \in fks, ~Descends(known, t, p)
                 PROVE  <<p, t>> \in edges
      OBVIOUS
    <2> DEFINE f == <<t, p>>
    <2>1. f \in fks /\ f[1] \in sel /\ f[2] \in sel /\ f[1] # f[2] /\ ~Descends(known, f[1], f[2])
          /\ <<f[2], f[1]>> = <<p, t>>
      OBVIOUS
    <2> HIDE DEF f, known
    <2> QED BY <2>1 DEF OrderEdges
  <1>7. \A t \in sel : known[t] # None => <<known[t], t>> \in edges
    <2> HIDE DEF known
    <2> QED BY DEF OrderEdges
  <1> HIDE DEF g, n, known, edges
  <1>8. \A i, j \in 1..Len(units) : i # j => units[i].tables \cap units[j].tables = {}
    BY <1>3, <1>4
  <1>9. /\ \A i \in 1..Len(units) : units[i].tables \subseteq sel
        /\ \A t \in sel : \E i \in 1..Len(units) : t \in units[i].tables
    BY <1>3, <1>4
  <1>10. \A i \in 1..Len(units) : units[i].kind = "empty" => Populated(units[i].tables) = {}
    BY DEF Populated
  <1>11. GroupsOf(units) = {}
    BY DEF GroupsOf
  <1>12. ASSUME ~LeadsToEmptyCycle(sel), NEW i \in 1..Len(units), NEW t \in Exported(units[i]),
                NEW p \in Needs(sel, t)
         PROVE  \E j \in 1..(i - 1) : p \in Exported(units[j])
    <2> DEFINE left == {order[j] : j \in i..n}
    <2>1. t = order[i] /\ t \in rows /\ t \in sel /\ i \in 1..n
      BY <1>3, <1>4, <1>12 DEF Exported, Writable, Populated
    <2>2. p \in sel /\ p \in rows /\ p \notin bare /\ (parent[t] = p \/ <<t, p>> \in fks)
      BY DEF Needs
    <2>3. p \in g[t]
      BY <1>1, <2>1, <2>2
    <2>4. t \in Together(g, t)
      BY <1>1, <2>1, TogetherFacts
    <2>5. p \notin Together(g, t)
      BY <1>1, <1>5, <2>1, <2>2, <2>3, <2>4, CyclicFacts
    <2>6. p # t
      BY <2>4, <2>5
    <2>7. Reaches(g, t, p)
      BY <1>1, <2>1, <2>3, ReachFacts
    <2>8. ~Descends(known, t, p)
      BY <1>1, <2>1, <2>2, <2>5, <2>7, DescendsFacts DEF Together
    <2>9. <<p, t>> \in edges
      <3>1. CASE parent[t] = p
        <4>1. known[t] = p /\ p # None
          BY <1>1, <2>1, <2>2, <3>1
        <4> QED BY <1>7, <2>1, <4>1
      <3>2. CASE <<t, p>> \in fks
        BY <1>6, <2>1, <2>2, <2>6, <2>8, <3>2
      <3> QED BY <2>2, <3>1, <3>2
    <2>10. left \in SUBSET Nat /\ left \in SUBSET sel /\ t \in left /\ t = Pick(left, edges, known)
      <3>1. i \in i..n /\ \A j \in i..n : j \in 1..n
        BY <1>2, <2>1
      <3>2. left \subseteq sel
        BY <1>3, <3>1
      <3>3. t \in left
        BY <2>1, <3>1
      <3>4. t = Pick(left, edges, known)
        BY <1>2, <2>1
      <3> HIDE DEF left
      <3> QED BY <1>1, <3>2, <3>3, <3>4
    <2> HIDE DEF left
    <2>11. p \notin left
      <3>1. CASE \E x \in left : \A e \in edges : e[2] = x => e[1] \notin left
        <4>1. PICK x \in left : \A e \in edges : e[2] = x => e[1] \notin left
          BY <3>1
        <4>2. \A e \in edges : e[2] = Pick(left, edges, known) => e[1] \notin left
          BY <2>10, <4>1, PickFacts
        <4> QED BY <2>9, <2>10, <4>2
      <3>2. CASE ~ \E x \in left : \A e \in edges : e[2] = x => e[1] \notin left
        <4>1. \A x \in left : \E q \in left : q \in g[x]
          BY <1>1, <3>2
        <4>2. PICK c \in CyclicComps(g) : \E u \in c : Reaches(g, t, u)
          <5>1. left \in SUBSET DOMAIN g /\ g \in Graphs
            BY <1>1, <2>10
          <5> QED BY <2>10, <4>1, <5>1, CycleAhead
        <4>3. Populated(c) = {}
          BY <1>5, <4>2 DEF Populated
        <4>4. t \in sel \cap rows
          BY <2>1
        <4>5. LeadsToEmptyCycle(sel)
          BY <4>2, <4>3, <4>4 DEF LeadsToEmptyCycle, g, GraphOf
        <4> QED BY <1>12, <4>5
      <3> QED BY <3>1, <3>2
    <2>12. PICK j \in 1..n : order[j] = p
      BY <1>3, <2>2
    <2>13. j \in 1..(i - 1)
      <3>1. j \notin i..n
        BY <2>11, <2>12 DEF left
      <3> QED BY <1>2, <2>1, <3>1
    <2>14. units[j].tables = {p} /\ units[j].kind # "empty"
      BY <1>4, <2>2, <2>12
    <2>15. p \in Exported(units[j])
      BY <2>2, <2>14 DEF Exported, Writable, Populated
    <2> QED BY <2>13, <2>15
  <1>13. InOrder(units, sel) \/ LeadsToEmptyCycle(sel)
    BY <1>12 DEF InOrder
  <1>14. Affordable(units)
    BY <1>11, NoGroupsAffordable
  <1> QED BY <1>8, <1>9, <1>10, <1>11, <1>13, <1>14 DEF Whole

\* The units of one component.
LEMMA UnitsOfFacts ==
    ASSUME NEW g \in Graphs, (DOMAIN g) \subseteq Tables, NEW comp \in Components(g)
    PROVE  /\ UnitsOf(g, comp) \in Seq(Unit)
           /\ \A k \in 1..Len(UnitsOf(g, comp)) :
                 /\ UnitsOf(g, comp)[k].tables # {} /\ UnitsOf(g, comp)[k].tables \subseteq comp
                 /\ UnitsOf(g, comp)[k].kind = "empty" => Populated(comp) = {}
                 /\ UnitsOf(g, comp)[k].kind = "cyclic" <=> comp \in Groups(g)
                 /\ comp \in Groups(g) => UnitsOf(g, comp)[k].tables = comp
           /\ \A t \in comp : \E k \in 1..Len(UnitsOf(g, comp)) : t \in UnitsOf(g, comp)[k].tables
           /\ \A k, l \in 1..Len(UnitsOf(g, comp)) :
                 k # l => UnitsOf(g, comp)[k].tables \cap UnitsOf(g, comp)[l].tables = {}
PROOF
  <1> DEFINE u == UnitsOf(g, comp)
             n == Cardinality(comp)
             cyclic == IsCyclic(g, comp)
  <1>1. comp \in SUBSET Tables /\ comp \in SUBSET Nat /\ IsFiniteSet(comp) /\ comp # {}
    BY ComponentFacts
  <1>2. n \in Nat /\ Sorted(comp) \in Bijection(1..n, comp)
    BY <1>1, SortedFacts, FS_CardinalityType
  <1>3. CASE comp \in Groups(g)
    <2>1. u = <<Cyclic(comp)>>
      BY <1>3 DEF UnitsOf
    <2>2. Cyclic(comp) \in Unit /\ Cyclic(comp).tables = comp /\ Cyclic(comp).kind = "cyclic"
      BY <1>1 DEF Cyclic, Unit
    <2> HIDE DEF u
    <2>3. u \in Seq(Unit) /\ Len(u) = 1 /\ u[1] = Cyclic(comp)
      BY <2>1, <2>2
    <2>4. \A k \in 1..Len(u) : u[k].tables = comp /\ u[k].kind = "cyclic"
      BY <2>2, <2>3
    <2>5. \A k, l \in 1..Len(u) : k = l
      BY <2>3
    <2>6. \E k \in 1..Len(u) : TRUE
      BY <2>3
    <2>7. \A t \in comp : \E k \in 1..Len(u) : t \in u[k].tables
      BY <2>4, <2>6
    <2> QED BY <1>1, <1>3, <2>3, <2>4, <2>5, <2>7 DEF u
  <1>4. CASE comp \notin Groups(g)
    <2> DEFINE s == Sorted(comp)
    <2>1. u = [i \in 1..n |-> Alone(s[i], cyclic)]
      BY <1>4 DEF UnitsOf
    <2>2. cyclic => Populated(comp) = {}
      BY <1>4 DEF Groups, CyclicComps
    <2> HIDE DEF s, n, cyclic, u
    <2>3. /\ s \in [1..n -> comp] /\ \A i, j \in 1..n : s[i] = s[j] => i = j
          /\ \A t \in comp : \E i \in 1..n : s[i] = t
      BY <1>2 DEF Bijection, Injection, IsInjective, Surjection, s, n
    <2>4. \A i \in 1..n : /\ Alone(s[i], cyclic) \in Unit
                          /\ Alone(s[i], cyclic).tables = {s[i]}
                          /\ Alone(s[i], cyclic).kind = (IF cyclic THEN "empty" ELSE "ordinary")
      <3>1. \A i \in 1..n : s[i] \in Tables
        BY <1>1, <2>3
      <3> QED BY <3>1 DEF Alone, EmptyUnit, Ordinary, Unit
    <2>5. u \in Seq(Unit) /\ Len(u) = n
      BY <1>2, <2>1, <2>4 DEF n
    <2>6. \A k \in 1..n : u[k].tables = {s[k]} /\ u[k].kind = (IF cyclic THEN "empty" ELSE "ordinary")
      BY <2>1, <2>4
    <2>7. \A k \in 1..n : /\ u[k].tables # {} /\ u[k].tables \subseteq comp
                          /\ u[k].kind = "empty" => Populated(comp) = {}
                          /\ u[k].kind # "cyclic"
      BY <2>2, <2>3, <2>6
    <2>8. \A t \in comp : \E k \in 1..n : t \in u[k].tables
      BY <2>3, <2>6
    <2>9. \A k, l \in 1..n : k # l => u[k].tables \cap u[l].tables = {}
      BY <2>3, <2>6
    <2> QED BY <1>4, <2>5, <2>7, <2>8, <2>9 DEF u
  <1> QED BY <1>3, <1>4

\* With one, the components in the order of the condensation.
LEMMA GroupPlan ==
    ASSUME SchemaOK, NEW sel \in SUBSET Tables, ~OverBudget(GraphOf(sel)),
           NEW units, units = FlattenSeq([i \in DOMAIN OrderedComponents(GraphOf(sel)) |->
                                 UnitsOf(GraphOf(sel), OrderedComponents(GraphOf(sel))[i])])
    PROVE  Whole(units, sel, TRUE)
PROOF
  <1> DEFINE g == GraphOf(sel)
             all == Components(g)
             n == Cardinality(all)
             parts == OrderedComponents(g)
             seqs == [i \in 1..n |-> UnitsOf(g, parts[i])]
             L == Len(units)
  <1>1. /\ g \in Graphs /\ DOMAIN g = sel
        /\ \A t, p \in sel : parent[t] = p \/ <<t, p>> \in fks => p \in g[t]
    BY SelectionGraph
  <1>2. ~OverBudget(g)
    OBVIOUS
  <1>3. units = FlattenSeq([i \in DOMAIN parts |-> UnitsOf(g, parts[i])])
    OBVIOUS
  <1> HIDE DEF g
  <1>4. /\ n \in Nat /\ parts \in Bijection(1..n, all)
        /\ \A i, j \in 1..n : i < j => \A t \in parts[i] : g[t] \cap parts[j] = {}
    BY <1>1, OrderedFacts
  <1>5. /\ parts \in [1..n -> all] /\ DOMAIN parts = 1..n
        /\ \A i, j \in 1..n : parts[i] = parts[j] => i = j
        /\ \A c \in all : \E i \in 1..n : parts[i] = c
    BY <1>4 DEF Bijection, Injection, IsInjective, Surjection
  <1>6. /\ \A c \in all : c # {} /\ c \subseteq sel /\ \A t \in c : c = Together(g, t)
        /\ \A c, d \in all : c # d => c \cap d = {}
        /\ (UNION all) = sel /\ IsFiniteSet(all)
    BY <1>1, ComponentFacts
  <1>7. units = FlattenSeq(seqs)
    BY <1>3, <1>5
  <1>8. ASSUME NEW i \in 1..n
        PROVE  /\ seqs[i] \in Seq(Unit)
               /\ \A k \in 1..Len(seqs[i]) :
                     /\ seqs[i][k].tables # {} /\ seqs[i][k].tables \subseteq parts[i]
                     /\ seqs[i][k].kind = "empty" => Populated(parts[i]) = {}
                     /\ seqs[i][k].kind = "cyclic" <=> parts[i] \in Groups(g)
                     /\ parts[i] \in Groups(g) => seqs[i][k].tables = parts[i]
               /\ \A t \in parts[i] : \E k \in 1..Len(seqs[i]) : t \in seqs[i][k].tables
               /\ \A k, l \in 1..Len(seqs[i]) :
                     k # l => seqs[i][k].tables \cap seqs[i][l].tables = {}
    <2> DEFINE comp == parts[i]
    <2>1. comp \in Components(g) /\ (DOMAIN g) \subseteq Tables
      BY <1>1, <1>5
    <2>2. seqs[i] = UnitsOf(g, comp)
      OBVIOUS
    <2> HIDE DEF comp, seqs, n
    <2> QED BY <1>1, <2>1, <2>2, UnitsOfFacts DEF comp
  <1> HIDE DEF seqs, parts, n, all
  <1>9. seqs \in [1..n -> Seq(Unit)]
    BY <1>8 DEF seqs
  <1>10. units \in Seq(Unit) /\ Spreads(seqs, n, units)
    BY <1>4, <1>7, <1>9, FlattenFacts
  <1>11. PICK row \in [1..L -> Nat], col \in [1..L -> Nat] : Spread(row, col, seqs, n, units)
    BY <1>10 DEF Spreads
  <1>12. \A k \in 1..L : /\ row[k] \in 1..n /\ col[k] \in 1..Len(seqs[row[k]])
                         /\ units[k] = seqs[row[k]][col[k]]
    BY <1>11 DEF Spread
  <1>13. \A i \in 1..n : \A j \in 1..Len(seqs[i]) : \E k \in 1..L : row[k] = i /\ col[k] = j
    BY <1>11 DEF Spread
  <1>14. \A k, l \in 1..L : k < l => row[k] < row[l] \/ (row[k] = row[l] /\ col[k] < col[l])
    BY <1>11 DEF Spread
  <1>15. L \in Nat
    BY <1>10, LenProperties
  <1> HIDE DEF L
  \* The component of each unit.
  <1>16. ASSUME NEW k \in 1..L
         PROVE  /\ parts[row[k]] \in all
                /\ units[k].tables # {} /\ units[k].tables \subseteq parts[row[k]]
                /\ units[k].kind = "empty" => Populated(parts[row[k]]) = {}
                /\ units[k].kind = "cyclic" <=> parts[row[k]] \in Groups(g)
                /\ parts[row[k]] \in Groups(g) => units[k].tables = parts[row[k]]
    <2> DEFINE i == row[k]
               j == col[k]
    <2>1. i \in 1..n /\ j \in 1..Len(seqs[i]) /\ units[k] = seqs[i][j]
      BY <1>12
    <2>2. parts[i] \in all
      BY <1>5, <2>1
    <2> HIDE DEF i, j
    <2>3. /\ seqs[i][j].tables # {} /\ seqs[i][j].tables \subseteq parts[i]
          /\ seqs[i][j].kind = "empty" => Populated(parts[i]) = {}
          /\ seqs[i][j].kind = "cyclic" <=> parts[i] \in Groups(g)
          /\ parts[i] \in Groups(g) => seqs[i][j].tables = parts[i]
      BY <1>8, <2>1
    <2> QED BY <2>1, <2>2, <2>3 DEF i
  <1>17. ASSUME NEW k \in 1..L, NEW l \in 1..L, k # l
         PROVE  units[k].tables \cap units[l].tables = {}
    <2>1. row[k] \in 1..n /\ col[k] \in 1..Len(seqs[row[k]]) /\ units[k] = seqs[row[k]][col[k]]
      BY <1>12
    <2>2. row[l] \in 1..n /\ col[l] \in 1..Len(seqs[row[l]]) /\ units[l] = seqs[row[l]][col[l]]
      BY <1>12
    <2>3. row[k] # row[l] \/ col[k] # col[l]
      <3>1. k < l \/ l < k
        BY <1>15, <1>17
      <3>2. row[k] \in Nat /\ col[k] \in Nat /\ row[l] \in Nat /\ col[l] \in Nat
        BY <1>11
      <3> QED BY <1>14, <3>1, <3>2
    <2>4. CASE row[k] = row[l]
      BY <1>8, <2>1, <2>2, <2>3, <2>4
    <2>5. CASE row[k] # row[l]
      <3>1. parts[row[k]] \cap parts[row[l]] = {}
        BY <1>5, <1>6, <2>1, <2>2, <2>5
      <3> QED BY <1>16, <3>1
    <2> QED BY <2>4, <2>5
  <1>18. \A k \in 1..L : units[k].tables \subseteq sel
    BY <1>6, <1>16
  <1>19. ASSUME NEW t \in sel
         PROVE  \E k \in 1..L : t \in units[k].tables /\ t \in parts[row[k]]
    <2>1. PICK c \in all : t \in c
      BY <1>6
    <2>2. PICK i \in 1..n : parts[i] = c
      BY <1>5
    <2>3. PICK j \in 1..Len(seqs[i]) : t \in seqs[i][j].tables
      BY <1>8, <2>1, <2>2
    <2>4. PICK k \in 1..L : row[k] = i /\ col[k] = j
      BY <1>13
    <2> QED BY <1>12, <2>1, <2>2, <2>3, <2>4
  <1>20. \A k \in 1..L : units[k].kind = "empty" => Populated(units[k].tables) = {}
    BY <1>16 DEF Populated
  <1>21. Affordable(units)
    <2> DEFINE I == GroupsOf(units)
               R == Groups(g)
               f == [k \in I |-> units[k].tables]
               X == UNION {Populated(units[i].tables) : i \in I}
               Y == UNION {Populated(c) : c \in R}
    <2>1. I \subseteq 1..L /\ \A k \in I : f[k] \in R /\ f[k] = units[k].tables
      BY <1>16 DEF GroupsOf, L
    <2>2. f \in Injection(I, R)
      <3>1. \A k, l \in I : f[k] = f[l] => k = l
        BY <1>16, <1>17, <2>1
      <3> QED BY <2>1, <3>1 DEF Injection, IsInjective
    <2>3. IsFiniteSet(R)
      <3>1. R \in SUBSET all
        BY DEF Groups, CyclicComps, all
      <3> HIDE DEF R
      <3> QED BY <1>6, <3>1, FS_Subset
    <2>4. X \subseteq Y
      BY <2>1
    <2>5. IsFiniteSet(Y)
      <3>1. Y \in SUBSET Tables
        BY DEF Populated, SchemaOK
      <3> HIDE DEF Y
      <3> QED BY <3>1, TableFacts, FS_Subset
    <2>6. Cardinality(R) + Cardinality(Y) <= ByteLimit
      <3>1. ~ (Cardinality(R) + Cardinality(Y) > ByteLimit)
        BY <1>2 DEF OverBudget
      <3>2. Cardinality(R) \in Nat /\ Cardinality(Y) \in Nat
        BY <2>3, <2>5, FS_CardinalityType
      <3> HIDE DEF R, Y
      <3> QED BY <3>1, <3>2, LimitAssumption
    <2> HIDE DEF I, R, X, Y, f
    <2>7. IsFiniteSet(I) /\ Cardinality(I) <= Cardinality(R)
      BY <2>2, <2>3, FS_Injection
    <2>8. Cardinality(X) <= Cardinality(Y) /\ IsFiniteSet(X)
      BY <2>4, <2>5, FS_Subset
    <2>9. /\ Cardinality(I) \in Nat /\ Cardinality(R) \in Nat
          /\ Cardinality(X) \in Nat /\ Cardinality(Y) \in Nat
      BY <2>3, <2>5, <2>7, <2>8, FS_CardinalityType
    <2>10. Cardinality(I) + Cardinality(X) <= ByteLimit
      BY <2>6, <2>7, <2>8, <2>9, LimitAssumption
    <2> QED BY <2>10 DEF Affordable, I, X
  <1>22. ASSUME NEW k \in 1..L, NEW t \in Exported(units[k]), NEW p \in Needs(sel, t)
         PROVE  \/ \E j \in 1..(k - 1) : p \in Exported(units[j])
                \/ units[k].kind = "cyclic" /\ p \in Exported(units[k])
    <2> DEFINE c == parts[row[k]]
    <2>1. t \in rows /\ t \in units[k].tables /\ t \in c /\ t \in sel
      BY <1>6, <1>16 DEF Exported, Writable, Populated
    <2>2. p \in sel /\ p \in rows /\ p \notin bare /\ (parent[t] = p \/ <<t, p>> \in fks)
      BY DEF Needs
    <2>3. p \in g[t]
      BY <1>1, <2>1, <2>2
    <2>4. row[k] \in 1..n /\ c \in all /\ c = Together(g, t)
      BY <1>5, <1>6, <1>12, <2>1
    <2> HIDE DEF c
    <2>5. CASE p \in c
      <3>1. c \in CyclicComps(g)
        BY <1>1, <2>1, <2>2, <2>3, <2>4, <2>5, CyclicFacts
      <3>2. c \in Groups(g)
        BY <2>1, <3>1 DEF Groups, Populated
      <3>3. units[k].kind = "cyclic" /\ units[k].tables = c
        BY <1>16, <3>2 DEF c
      <3>4. p \in Exported(units[k])
        BY <2>2, <2>5, <3>3 DEF Exported, Writable, Populated
      <3> QED BY <3>3, <3>4
    <2>6. CASE p \notin c
      <3>1. PICK j \in 1..L : p \in units[j].tables /\ p \in parts[row[j]]
        BY <1>19, <2>2
      <3>2. row[j] \in 1..n /\ row[j] # row[k]
        BY <1>12, <2>6, <3>1 DEF c
      <3>3. ~ (row[k] < row[j])
        BY <1>4, <2>1, <2>3, <2>4, <3>1, <3>2 DEF c
      <3>4. row[j] < row[k]
        BY <1>4, <2>4, <3>2, <3>3
      <3>5. j < k
        <4>1. j # k
          BY <3>2
        <4>2. ~ (k < j)
          BY <1>14, <2>4, <3>2, <3>4, <1>4
        <4> QED BY <1>15, <4>1, <4>2
      <3>6. j \in 1..(k - 1)
        BY <1>15, <3>5
      <3>7. units[j].kind # "empty"
        BY <1>20, <2>2, <3>1 DEF Populated
      <3>8. p \in Exported(units[j])
        BY <2>2, <3>1, <3>7 DEF Exported, Writable, Populated
      <3> QED BY <3>6, <3>8
    <2> QED BY <2>5, <2>6
  <1>23. InOrder(units, sel)
    BY <1>22 DEF InOrder, L
  <1>24. \A t \in sel : \E k \in 1..L : t \in units[k].tables
    BY <1>19
  <1> QED BY <1>10, <1>17, <1>18, <1>20, <1>21, <1>23, <1>24 DEF Whole, L

\* A dump that is not refused has a whole plan.
LEMMA PlanFacts ==
    ASSUME SchemaOK, NEW sel \in SUBSET Tables, NEW mutate \in BOOLEAN,
           ~Rejected(GraphOf(sel), mutate)
    PROVE  Whole(Units(sel, mutate), sel, mutate)
PROOF
  <1> DEFINE g == GraphOf(sel)
             known == InterleaveParent(sel)
             order == TableOrder(sel, known)
             n == Cardinality(sel)
             units == Units(sel, mutate)
             cyclic == UNION CyclicComps(g)
  <1>1. sel \in SUBSET Nat /\ IsFiniteSet(sel) /\ g \in Graphs /\ DOMAIN g = sel
    BY SelectionGraph
  <1>2. n \in Nat /\ order \in Bijection(1..n, sel)
    BY <1>1, TableOrderFacts
  <1>3. order \in [1..n -> sel] /\ DOMAIN order = 1..n
    BY <1>2 DEF Bijection, Injection
  <1>4. \A i \in 1..n : order[i] \in Tables
    BY <1>3
  <1>5. CASE mutate /\ Groups(g) # {}
    <2>1. units = FlattenSeq([i \in DOMAIN OrderedComponents(GraphOf(sel)) |->
                                 UnitsOf(GraphOf(sel), OrderedComponents(GraphOf(sel))[i])])
      BY <1>5 DEF Units, GroupUnits, GraphOf
    <2>2. ~OverBudget(GraphOf(sel))
      BY <1>5 DEF Rejected
    <2> HIDE DEF units
    <2>3. Whole(units, sel, TRUE)
      BY <2>1, <2>2, GroupPlan
    <2>4. mutate = TRUE
      BY <1>5
    <2> QED BY <2>3, <2>4 DEF units
  <1>6. CASE Groups(g) = {}
    <2>1. \A i \in 1..n : order[i] \in cyclic => order[i] \notin rows
      BY <1>6 DEF Groups, Populated
    <2>2. /\ units = [i \in 1..n |-> IF mutate THEN Alone(order[i], order[i] \in cyclic)
                                      ELSE Ordinary(order[i])]
      <3>1. CASE mutate
        BY <1>3, <1>6, <3>1 DEF Units, GroupUnits, GraphOf
      <3>2. CASE ~mutate
        BY <1>3, <3>2 DEF Units, PlainUnits
      <3> QED BY <3>1, <3>2
    <2> HIDE DEF units, cyclic, g, order, n
    <2>3. \A i \in 1..n : units[i] = Ordinary(order[i])
                          \/ (order[i] \in cyclic /\ units[i] = EmptyUnit(order[i]))
      BY <2>2 DEF Alone
    <2>4. \A i \in 1..n : Ordinary(order[i]) \in Unit /\ EmptyUnit(order[i]) \in Unit
      BY <1>4 DEF Ordinary, EmptyUnit, Unit
    <2>5. units \in Seq(Unit) /\ Len(units) = n
      <3>1. \A i \in 1..n : units[i] \in Unit
        BY <2>3, <2>4
      <3>2. units \in [1..n -> Unit]
        BY <2>2, <3>1
      <3> QED BY <1>2, <3>2
    <2>6. \A i \in 1..n : /\ units[i].tables = {order[i]} /\ units[i].kind \in {"ordinary", "empty"}
                          /\ units[i].kind = "empty" => order[i] \notin rows
      <3> SUFFICES ASSUME NEW i \in 1..n
                   PROVE  /\ units[i].tables = {order[i]} /\ units[i].kind \in {"ordinary", "empty"}
                          /\ units[i].kind = "empty" => order[i] \notin rows
        OBVIOUS
      <3>1. CASE units[i] = Ordinary(order[i])
        BY <3>1 DEF Ordinary
      <3>2. CASE order[i] \in cyclic /\ units[i] = EmptyUnit(order[i])
        BY <2>1, <3>2 DEF EmptyUnit
      <3> QED BY <2>3, <3>1, <3>2
    <2>7. Whole(units, sel, mutate)
      BY <1>6, <2>5, <2>6, SingleUnits DEF g, n, order
    <2> QED BY <2>7 DEF units
  <1>7. mutate \/ Groups(g) = {}
    BY DEF Rejected
  <1> QED BY <1>5, <1>6, <1>7

-----------------------------------------------------------------------------
(* The DDL.                                                                *)

\* The tables have an order in which parents come first.
LEMMA OrderExists ==
    ASSUME SchemaOK
    PROVE  (CHOOSE o \in CreationOrders : TRUE) \in CreationOrders
PROOF
  <1> DEFINE pick == [left \in Parts(Tables) |-> CHOOSE t \in left : parent[t] \notin left]
             p == Drained(pick, Tables)
  <1>1. \A left \in Parts(Tables) : pick[left] \in left /\ parent[pick[left]] \notin left
    <2> SUFFICES ASSUME NEW left \in Parts(Tables)
                 PROVE  pick[left] \in left /\ parent[pick[left]] \notin left
      OBVIOUS
    <2>1. \E t \in left : parent[t] \notin left
      BY DEF SchemaOK, Forest
    <2> QED BY <2>1
  <1> HIDE DEF pick
  <1>2. IsFiniteSet(Tables) /\ Cardinality(Tables) = N /\ N \in Nat
    BY TableFacts
  <1>3. p \in Bijection(1..N, Tables) /\ \A i \in 1..N : p[i] = pick[{p[j] : j \in i..N}]
    <2> DEFINE S == Tables
               n == Cardinality(S)
    <2>1. n = N /\ IsFiniteSet(S) /\ \A left \in Parts(S) : pick[left] \in left
      BY <1>1, <1>2
    <2>2. p = Drained(pick, S)
      OBVIOUS
    <2> HIDE DEF S, p
    <2>3. p \in Bijection(1..n, S) /\ \A i \in 1..n : p[i] = pick[{p[j] : j \in i..n}]
      BY <2>1, <2>2, DrainedFacts
    <2> HIDE DEF n
    <2> QED BY <2>1, <2>3 DEF S
  <1> HIDE DEF p
  <1>4. p \in [1..N -> Tables]
    BY <1>3 DEF Bijection, Injection
  <1>5. ASSUME NEW i \in 1..N, NEW j \in 1..N, parent[p[j]] = p[i]
        PROVE  i < j
    <2> DEFINE left == {p[k] : k \in j..N}
    <2>1. left \in Parts(Tables)
      <3>1. j \in j..N /\ \A k \in j..N : k \in 1..N
        BY <1>2
      <3> QED BY <1>4, <3>1 DEF Parts
    <2>2. p[j] = pick[left]
      BY <1>3
    <2>3. p[i] \notin left
      <3> HIDE DEF left
      <3> QED BY <1>1, <1>5, <2>1, <2>2
    <2>4. i \notin j..N
      BY <2>3
    <2> QED BY <1>2, <2>4
  <1>6. p \in CreationOrders
    BY <1>3, <1>5 DEF CreationOrders
  <1> QED BY <1>6

LEMMA SetToSeqFacts ==
    ASSUME NEW S, IsFiniteSet(S)
    PROVE  /\ SetToSeq(S) \in Seq(S)
           /\ \A i, j \in 1..Len(SetToSeq(S)) : SetToSeq(S)[i] = SetToSeq(S)[j] => i = j
           /\ \A x \in S : \E i \in 1..Len(SetToSeq(S)) : SetToSeq(S)[i] = x
PROOF
  <1> DEFINE n == Cardinality(S)
             s == SetToSeq(S)
  <1>1. n \in Nat /\ ExistsBijection(1..n, S)
    BY FS_CardinalityType
  <1>2. \E f \in [1..n -> S] : IsInjective(f)
    BY <1>1 DEF ExistsBijection, Bijection, Injection
  <1>3. s \in [1..n -> S] /\ IsInjective(s)
    <2> HIDE DEF n
    <2>1. s = CHOOSE f \in [1..n -> S] : IsInjective(f)
      BY DEF SetToSeq, n
    <2> QED BY <1>2, <2>1
  <1> HIDE DEF s
  <1>4. s \in Injection(1..n, S)
    BY <1>3 DEF Injection
  <1>5. IsFiniteSet(1..n) /\ Cardinality(1..n) = n
    BY <1>1, FS_Interval
  <1>6. s \in Surjection(1..n, S)
    <2> DEFINE T == 1..n
    <2>1. s \in Injection(T, S) /\ Cardinality(T) = Cardinality(S)
      BY <1>4, <1>5
    <2> HIDE DEF T, n
    <2>2. s \in Surjection(T, S)
      BY <2>1, FS_Injection
    <2> QED BY <2>2 DEF T
  <1> HIDE DEF n
  <1>7. s \in Seq(S) /\ Len(s) = n
    BY <1>1, <1>3
  <1>8. \A i, j \in 1..n : s[i] = s[j] => i = j
    BY <1>3 DEF IsInjective
  <1>9. \A x \in S : \E i \in 1..n : s[i] = x
    BY <1>6 DEF Surjection
  <1> QED BY <1>7, <1>8, <1>9 DEF s

Inline(o, i) == {p \in Tables : <<o[i], p>> \in fks} \ ForwardKeys(o, i)

\* The statement k of the script alters the table o[row[k]].
Altering(d, k, o, r, q) ==
    d[k].op = "alter" /\ d[k].table = o[r] /\ d[k].targets = {q} /\ q \in ForwardKeys(o, r)

Script(d, o, M) ==
    /\ Len(d) = N + M /\ DOMAIN d = 1..(N + M)
    /\ \A i \in 1..N : d[i].op = "create" /\ d[i].table = o[i] /\ d[i].targets = Inline(o, i)
    /\ \A k \in (N + 1)..(N + M) : \E r \in 1..N : \E q \in Tables : Altering(d, k, o, r, q)
    /\ \A r \in 1..N : \A q \in ForwardKeys(o, r) :
          \E k \in (N + 1)..(N + M) : Altering(d, k, o, r, q)
    /\ \A k, l \in (N + 1)..(N + M) : \A r \in 1..N : \A q \in Tables :
          Altering(d, k, o, r, q) /\ Altering(d, l, o, r, q) => k = l

LEMMA ScriptFacts ==
    ASSUME SchemaOK, NEW o \in CreationOrders
    PROVE  \E M \in Nat : Script(ReplayScript(o), o, M)
PROOF
  <1> DEFINE Stmt == [op : {"create", "alter"}, table : Tables, targets : SUBSET Tables]
             creates == [i \in 1..N |-> Create(o[i], Inline(o, i))]
             Set(i) == {Alter(o[i], p) : p \in ForwardKeys(o, i)}
             seqs == [i \in 1..N |-> SetToSeq(Set(i))]
             alters == FlattenSeq(seqs)
             M == Len(alters)
             d == ReplayScript(o)
  <1>1. N \in Nat /\ o \in [1..N -> Tables] /\ \A i, j \in 1..N : o[i] = o[j] => i = j
    BY TableFacts DEF CreationOrders, Bijection, Injection, IsInjective
  <1>2. \A i \in 1..N : Inline(o, i) \subseteq Tables /\ ForwardKeys(o, i) \subseteq Tables
    BY DEF Inline, ForwardKeys
  <1>3. d = creates \o alters
    BY DEF ReplayScript, Inline
  <1>4. \A i \in 1..N : \A p \in Tables :
           /\ Alter(o[i], p) \in Stmt /\ Alter(o[i], p).op = "alter"
           /\ Alter(o[i], p).table = o[i] /\ Alter(o[i], p).targets = {p}
    BY <1>1 DEF Alter
  <1>5. \A i \in 1..N : /\ creates[i] \in Stmt /\ creates[i].op = "create"
                        /\ creates[i].table = o[i] /\ creates[i].targets = Inline(o, i)
    BY <1>1, <1>2 DEF Create
  <1> HIDE DEF d
  <1>6. ASSUME NEW i \in 1..N
        PROVE  /\ seqs[i] \in Seq(Stmt)
               /\ \A j \in 1..Len(seqs[i]) : \E q \in ForwardKeys(o, i) : seqs[i][j] = Alter(o[i], q)
               /\ \A q \in ForwardKeys(o, i) : \E j \in 1..Len(seqs[i]) : seqs[i][j] = Alter(o[i], q)
               /\ \A j, l \in 1..Len(seqs[i]) : seqs[i][j] = seqs[i][l] => j = l
    <2> DEFINE K == ForwardKeys(o, i)
               S == Set(i)
               s == seqs[i]
    <2>1. IsFiniteSet(K)
      BY <1>2, TableFacts, FS_Subset
    <2>2. S = {Alter(o[i], p) : p \in K} /\ s = SetToSeq(S) /\ S \in SUBSET Stmt
      BY <1>2, <1>4
    <2>3. IsFiniteSet(S)
      <3> DEFINE f == [p \in K |-> Alter(o[i], p)]
      <3>1. f \in [K -> S] /\ \A x \in S : \E p \in K : f[p] = x
        BY <2>2
      <3>2. f \in Surjection(K, S)
        BY <3>1 DEF Surjection
      <3> HIDE DEF f, K, S
      <3> QED BY <2>1, <3>2, FS_Surjection
    <2> HIDE DEF K, S, s, Stmt
    <2>4. /\ s \in Seq(S) /\ \A j, l \in 1..Len(s) : s[j] = s[l] => j = l
          /\ \A x \in S : \E j \in 1..Len(s) : s[j] = x
      BY <2>2, <2>3, SetToSeqFacts
    <2>5. \A j \in 1..Len(s) : s[j] \in S
      BY <2>4, ElementOfSeq
    <2>6. s \in Seq(Stmt)
      BY <2>2, <2>4, <2>5
    <2>7. \A x \in S : \E q \in K : x = Alter(o[i], q)
      BY <2>2
    <2>8. \A q \in K : Alter(o[i], q) \in S
      BY <2>2
    <2>9. /\ \A j \in 1..Len(s) : \E q \in K : s[j] = Alter(o[i], q)
          /\ \A q \in K : \E j \in 1..Len(s) : s[j] = Alter(o[i], q)
      BY <2>4, <2>5, <2>7, <2>8
    <2> HIDE DEF Set, seqs
    <2> QED BY <2>4, <2>6, <2>9 DEF s, K
  <1> HIDE DEF creates, Set, seqs, alters, M, Stmt
  <1>7. seqs \in [1..N -> Seq(Stmt)]
    BY <1>6 DEF seqs
  <1>8. alters \in Seq(Stmt) /\ Spreads(seqs, N, alters)
    BY <1>1, <1>7, FlattenFacts DEF alters
  <1>9. PICK row \in [1..M -> Nat], col \in [1..M -> Nat] : Spread(row, col, seqs, N, alters)
    BY <1>8 DEF Spreads, M
  <1>10. creates \in Seq(Stmt) /\ Len(creates) = N /\ M \in Nat /\ Len(alters) = M
    <2>1. creates \in [1..N -> Stmt]
      BY <1>5 DEF creates
    <2> QED BY <1>1, <1>8, <2>1 DEF M
  <1>11. /\ d \in Seq(Stmt) /\ Len(d) = N + M /\ DOMAIN d = 1..(N + M)
         /\ \A i \in 1..N : d[i] = creates[i]
         /\ \A k \in (N + 1)..(N + M) : d[k] = alters[k - N]
    <2>1. d \in Seq(Stmt) /\ Len(d) = N + M
      BY <1>3, <1>8, <1>10, ConcatProperties
    <2>2. /\ \A i \in 1..N : d[i] = creates[i]
          /\ \A k \in (N + 1)..(N + M) : d[k] = alters[k - N]
      <3>1. \A i \in 1..(N + M) : d[i] = (IF i <= N THEN creates[i] ELSE alters[i - N])
        BY <1>3, <1>8, <1>10, ConcatProperties
      <3>2. \A i \in 1..N : i \in 1..(N + M) /\ i <= N
        BY <1>1, <1>10
      <3>3. \A k \in (N + 1)..(N + M) : k \in 1..(N + M) /\ ~ (k <= N)
        BY <1>1, <1>10
      <3> QED BY <3>1, <3>2, <3>3
    <2> QED BY <2>1, <2>2
  <1>12. \A k \in (N + 1)..(N + M) : k - N \in 1..M
    BY <1>1, <1>10
  <1>13. \A k \in 1..M : k + N \in (N + 1)..(N + M) /\ (k + N) - N = k
    BY <1>1, <1>10
  <1>14. \A k \in 1..M : row[k] \in 1..N /\ col[k] \in 1..Len(seqs[row[k]])
                         /\ alters[k] = seqs[row[k]][col[k]]
    BY <1>9 DEF Spread, M
  <1>15. \A k \in (N + 1)..(N + M) : \E q \in ForwardKeys(o, row[k - N]) :
            d[k] = Alter(o[row[k - N]], q) /\ Altering(d, k, o, row[k - N], q)
    <2> SUFFICES ASSUME NEW k \in (N + 1)..(N + M)
                 PROVE  \E q \in ForwardKeys(o, row[k - N]) :
                           d[k] = Alter(o[row[k - N]], q) /\ Altering(d, k, o, row[k - N], q)
      OBVIOUS
    <2> DEFINE r == row[k - N]
               c == col[k - N]
    <2>1. r \in 1..N /\ c \in 1..Len(seqs[r]) /\ d[k] = seqs[r][c]
      BY <1>11, <1>12, <1>14
    <2> HIDE DEF r, c
    <2>2. PICK q \in ForwardKeys(o, r) : seqs[r][c] = Alter(o[r], q)
      BY <1>6, <2>1
    <2>3. q \in Tables
      BY <1>2, <2>1
    <2>4. d[k] = Alter(o[r], q)
      BY <2>1, <2>2
    <2>5. Altering(d, k, o, r, q)
      <3>1. /\ Alter(o[r], q).op = "alter" /\ Alter(o[r], q).table = o[r]
            /\ Alter(o[r], q).targets = {q}
        BY <1>4, <2>1, <2>3
      <3>2. q \in ForwardKeys(o, r)
        BY <2>2
      <3> QED BY <2>4, <3>1, <3>2 DEF Altering
    <2> QED BY <2>4, <2>5 DEF r
  <1>16. \A k \in (N + 1)..(N + M) : \E r \in 1..N : \E q \in Tables : Altering(d, k, o, r, q)
    BY <1>2, <1>12, <1>14, <1>15
  <1>17. ASSUME NEW r \in 1..N, NEW q \in ForwardKeys(o, r)
         PROVE  \E k \in (N + 1)..(N + M) : Altering(d, k, o, r, q)
    <2>1. PICK j \in 1..Len(seqs[r]) : seqs[r][j] = Alter(o[r], q)
      BY <1>6
    <2>2. PICK k \in 1..M : row[k] = r /\ col[k] = j
      BY <1>9 DEF Spread, M
    <2>3. alters[k] = Alter(o[r], q)
      BY <1>14, <2>1, <2>2
    <2>4. k + N \in (N + 1)..(N + M) /\ d[k + N] = Alter(o[r], q)
      BY <1>11, <1>13, <2>3
    <2>5. q \in Tables
      BY <1>2
    <2>6. Altering(d, k + N, o, r, q)
      BY <1>4, <2>4, <2>5 DEF Altering
    <2> QED BY <2>4, <2>6
  <1>18. ASSUME NEW k \in (N + 1)..(N + M), NEW l \in (N + 1)..(N + M), NEW r \in 1..N, NEW q \in Tables,
                Altering(d, k, o, r, q), Altering(d, l, o, r, q)
         PROVE  k = l
    <2> DEFINE x == k - N
               y == l - N
    <2>1. x \in 1..M /\ y \in 1..M
      BY <1>12
    <2>2. PICK a \in ForwardKeys(o, row[x]) : d[k] = Alter(o[row[x]], a) /\ Altering(d, k, o, row[x], a)
      BY <1>15
    <2>3. PICK b \in ForwardKeys(o, row[y]) : d[l] = Alter(o[row[y]], b) /\ Altering(d, l, o, row[y], b)
      BY <1>15
    <2>4. o[row[x]] = o[r] /\ o[row[y]] = o[r] /\ a = q /\ b = q
      BY <1>18, <2>2, <2>3 DEF Altering
    <2>5. d[k] = alters[x] /\ d[l] = alters[y]
      BY <1>11
    <2> HIDE DEF x, y
    <2>6. row[x] \in 1..N /\ row[y] \in 1..N
      BY <1>14, <2>1
    <2>7. row[x] = row[y]
      BY <1>1, <2>4, <2>6
    <2>8. col[x] = col[y]
      <3> DEFINE i == row[x]
      <3>1. /\ i \in 1..N /\ col[x] \in 1..Len(seqs[i]) /\ col[y] \in 1..Len(seqs[i])
            /\ seqs[i][col[x]] = seqs[i][col[y]]
        BY <1>14, <2>1, <2>2, <2>3, <2>4, <2>5, <2>7
      <3> HIDE DEF i
      <3> QED BY <1>6, <3>1
    <2>9. ~ (x < y) /\ ~ (y < x)
      <3>1. \A e, f \in 1..M : e < f => row[e] < row[f] \/ (row[e] = row[f] /\ col[e] < col[f])
        BY <1>9 DEF Spread, M
      <3>2. row[x] \in Nat /\ row[y] \in Nat /\ col[x] \in Nat /\ col[y] \in Nat
        BY <1>9, <2>1
      <3> QED BY <2>1, <2>7, <2>8, <3>1, <3>2
    <2>10. x = y
      BY <1>10, <2>1, <2>9
    <2> QED BY <1>1, <1>10, <2>10 DEF x, y
  <1>19. Script(d, o, M)
    BY <1>5, <1>11, <1>16, <1>17, <1>18 DEF Script
  <1> QED BY <1>10, <1>19 DEF d

\* Whatever the order of creation, the script replays.
LEMMA ReplayFacts ==
    ASSUME SchemaOK, NEW o \in CreationOrders, ddl = ReplayScript(o)
    PROVE  DdlReplays
PROOF
  <1>1. PICK M \in Nat : Script(ddl, o, M)
    BY ScriptFacts
  <1> DEFINE L == N + M
             Made(i) == {ddl[j].table : j \in {k \in 1..i : ddl[k].op = "create"}}
             keys == {k \in (DOMAIN ddl) \X Tables : k[2] \in ddl[k[1]].targets}
  <1>2. /\ N \in Nat /\ o \in [1..N -> Tables] /\ \A i, j \in 1..N : o[i] = o[j] => i = j
        /\ \A t \in Tables : \E i \in 1..N : o[i] = t
        /\ \A i, j \in 1..N : parent[o[j]] = o[i] => i < j
    BY TableFacts DEF CreationOrders, Bijection, Injection, IsInjective, Surjection
  <1>3. parent \in [Tables -> Tables \cup {None}] /\ fks \subseteq Tables \X Tables
    BY DEF SchemaOK
  <1>4. Len(ddl) = L /\ DOMAIN ddl = 1..L
    BY <1>1 DEF Script
  <1>5. \A i \in 1..N : /\ ddl[i].op = "create" /\ ddl[i].table = o[i]
                        /\ ddl[i].targets = Inline(o, i)
    BY <1>1 DEF Script
  <1>6. \A k \in (N + 1)..L : \E r \in 1..N : \E q \in Tables : Altering(ddl, k, o, r, q)
    BY <1>1 DEF Script
  <1>7. \A r \in 1..N : \A q \in ForwardKeys(o, r) :
           \E k \in (N + 1)..L : Altering(ddl, k, o, r, q)
    BY <1>1 DEF Script
  <1>8. \A k, l \in (N + 1)..L : \A r \in 1..N : \A q \in Tables :
           Altering(ddl, k, o, r, q) /\ Altering(ddl, l, o, r, q) => k = l
    BY <1>1 DEF Script
  <1>9. L \in Nat /\ \A i \in 1..L : i \in 1..N \/ i \in (N + 1)..L
    BY <1>2
  <1>10. (1..N) \subseteq 1..L /\ ((N + 1)..L) \subseteq 1..L
    BY <1>2
  <1> HIDE DEF L
  <1>11. \A i \in 1..L : i \in 1..N \/ ddl[i].op = "alter"
    BY <1>6, <1>9 DEF Altering
  <1>12. \A i \in 1..N : \A j \in 1..i : o[j] \in Made(i)
    <2> SUFFICES ASSUME NEW i \in 1..N, NEW j \in 1..i
                 PROVE  o[j] \in Made(i)
      OBVIOUS
    <2>1. j \in 1..N
      BY <1>2
    <2> QED BY <1>5, <2>1
  <1>13. \A i \in (N + 1)..L : Made(i) = Tables
    <2> SUFFICES ASSUME NEW i \in (N + 1)..L
                 PROVE  Made(i) = Tables
      OBVIOUS
    <2>1. \A j \in 1..N : j \in 1..i
      BY <1>2
    <2>2. \A j \in 1..i : j \in 1..L
      BY <1>2, <1>9
    <2>3. Tables \subseteq Made(i)
      BY <1>2, <1>5, <2>1
    <2>4. Made(i) \subseteq Tables
      <3> SUFFICES ASSUME NEW j \in 1..i, ddl[j].op = "create"
                   PROVE  ddl[j].table \in Tables
        OBVIOUS
      <3>1. j \in 1..N
        BY <1>11, <2>2
      <3> QED BY <1>2, <1>5, <3>1
    <2> QED BY <2>3, <2>4
  <1>14. Made(L) = Tables
    <2>1. CASE L \in (N + 1)..L
      BY <1>13, <2>1
    <2>2. CASE L \notin (N + 1)..L
      <3>1. L = N
        BY <1>2, <1>9, <2>2 DEF L
      <3>2. Made(N) \subseteq Tables
        BY <1>2, <1>5
      <3>3. Tables \subseteq Made(N)
        BY <1>2, <1>5
      <3> QED BY <3>1, <3>2, <3>3
    <2> QED BY <2>1, <2>2
  <1>15. ASSUME NEW i \in 1..L
         PROVE  /\ ddl[i].table \in Made(i) /\ ddl[i].targets \subseteq Made(i)
                /\ ddl[i].op = "create" => parent[ddl[i].table] \in Made(i) \cup {None}
    <2>1. CASE i \in 1..N
      <3>1. ddl[i].table = o[i] /\ ddl[i].targets = Inline(o, i) /\ i \in 1..i
        BY <1>5, <2>1
      <3>2. o[i] \in Made(i)
        BY <1>12, <2>1, <3>1
      <3>3. Inline(o, i) \subseteq Made(i)
        <4> SUFFICES ASSUME NEW p \in Inline(o, i)
                     PROVE  p \in Made(i)
          OBVIOUS
        <4>1. PICK j \in 1..i : o[j] = p
          BY DEF Inline, ForwardKeys
        <4> QED BY <1>12, <2>1, <4>1
      <3>4. parent[o[i]] \in Made(i) \cup {None}
        <4> SUFFICES ASSUME parent[o[i]] # None
                     PROVE  parent[o[i]] \in Made(i)
          OBVIOUS
        <4>1. parent[o[i]] \in Tables
          BY <1>2, <1>3, <2>1
        <4>2. PICK j \in 1..N : o[j] = parent[o[i]]
          BY <1>2, <4>1
        <4>3. j \in 1..i
          BY <1>2, <2>1, <4>2
        <4> QED BY <1>12, <2>1, <4>2, <4>3
      <3> HIDE DEF Made
      <3> QED BY <3>1, <3>2, <3>3, <3>4
    <2>2. CASE i \in (N + 1)..L
      <3>1. PICK r \in 1..N : \E q \in Tables : Altering(ddl, i, o, r, q)
        BY <1>6, <2>2
      <3>2. PICK q \in Tables : Altering(ddl, i, o, r, q)
        BY <3>1
      <3>3. ddl[i].op = "alter" /\ ddl[i].table \in Tables /\ ddl[i].targets \subseteq Tables
        BY <1>2, <3>2 DEF Altering
      <3> QED BY <1>13, <2>2, <3>3
    <2> QED BY <1>9, <2>1, <2>2
  <1> HIDE DEF Made
  \* The foreign keys, each in one statement.
  <1>16. ASSUME NEW i \in 1..L, NEW q \in Tables, q \in ddl[i].targets
         PROVE  \E r \in 1..N : /\ ddl[i].table = o[r] /\ <<o[r], q>> \in fks
                                /\ \/ i = r /\ q \notin ForwardKeys(o, r)
                                   \/ /\ i \in (N + 1)..L /\ Altering(ddl, i, o, r, q)
                                      /\ q \in ForwardKeys(o, r)
    <2>1. CASE i \in 1..N
      <3>1. ddl[i].table = o[i] /\ q \in Inline(o, i)
        BY <1>5, <1>16, <2>1
      <3> QED BY <2>1, <3>1 DEF Inline
    <2>2. CASE i \in (N + 1)..L
      <3>1. PICK r \in 1..N : \E x \in Tables : Altering(ddl, i, o, r, x)
        BY <1>6, <2>2
      <3>2. PICK x \in Tables : Altering(ddl, i, o, r, x)
        BY <3>1
      <3>3. x = q /\ ddl[i].table = o[r] /\ q \in ForwardKeys(o, r)
        BY <1>16, <3>2 DEF Altering
      <3>4. <<o[r], q>> \in fks
        BY <3>3 DEF ForwardKeys
      <3> QED BY <2>2, <3>2, <3>3, <3>4
    <2> QED BY <1>9, <2>1, <2>2
  <1>17. \A i \in 1..L : \A q \in Tables : q \in ddl[i].targets => <<ddl[i].table, q>> \in fks
    BY <1>16
  <1>18. ASSUME NEW i \in 1..L, NEW j \in 1..L, NEW q \in Tables,
                q \in ddl[i].targets, q \in ddl[j].targets, ddl[i].table = ddl[j].table
         PROVE  i = j
    <2>1. PICK r \in 1..N : /\ ddl[i].table = o[r]
                            /\ \/ i = r /\ q \notin ForwardKeys(o, r)
                               \/ /\ i \in (N + 1)..L /\ Altering(ddl, i, o, r, q)
                                  /\ q \in ForwardKeys(o, r)
      BY <1>16, <1>18
    <2>2. PICK s \in 1..N : /\ ddl[j].table = o[s]
                            /\ \/ j = s /\ q \notin ForwardKeys(o, s)
                               \/ /\ j \in (N + 1)..L /\ Altering(ddl, j, o, s, q)
                                  /\ q \in ForwardKeys(o, s)
      BY <1>16, <1>18
    <2>3. r = s
      BY <1>2, <1>18, <2>1, <2>2
    <2> QED BY <1>8, <2>1, <2>2, <2>3
  <1>19. ASSUME NEW t \in Tables, NEW q \in Tables, <<t, q>> \in fks
         PROVE  \E i \in 1..L : ddl[i].table = t /\ q \in ddl[i].targets
    <2>1. PICK r \in 1..N : o[r] = t
      BY <1>2
    <2>2. CASE q \in ForwardKeys(o, r)
      <3>1. PICK k \in (N + 1)..L : Altering(ddl, k, o, r, q)
        BY <1>7, <2>2
      <3> QED BY <1>10, <2>1, <3>1 DEF Altering
    <2>3. CASE q \notin ForwardKeys(o, r)
      <3>1. q \in Inline(o, r)
        BY <1>19, <2>1, <2>3 DEF Inline
      <3> QED BY <1>5, <1>10, <2>1, <3>1
    <2> QED BY <2>2, <2>3
  <1> DEFINE f == [k \in keys |-> <<ddl[k[1]].table, k[2]>>]
  <1>20. \A k \in keys : /\ k[1] \in 1..L /\ k[2] \in Tables /\ k[2] \in ddl[k[1]].targets
                         /\ k = <<k[1], k[2]>>
    BY <1>4
  <1>21. \A i \in 1..L : \A q \in Tables : q \in ddl[i].targets => <<i, q>> \in keys
    BY <1>4
  <1>22. f \in [keys -> fks]
    <2> HIDE DEF keys
    <2> QED BY <1>17, <1>20
  <1>23. \A x \in fks : \E k \in keys : <<ddl[k[1]].table, k[2]>> = x
    <2> HIDE DEF keys
    <2> SUFFICES ASSUME NEW x \in fks
                 PROVE  \E k \in keys : <<ddl[k[1]].table, k[2]>> = x
      OBVIOUS
    <2>1. x[1] \in Tables /\ x[2] \in Tables /\ x = <<x[1], x[2]>>
      BY <1>3
    <2>2. PICK i \in 1..L : ddl[i].table = x[1] /\ x[2] \in ddl[i].targets
      BY <1>19, <2>1
    <2> DEFINE k == <<i, x[2]>>
    <2>3. k \in keys /\ k[1] = i /\ k[2] = x[2]
      BY <1>21, <2>1, <2>2
    <2> HIDE DEF k
    <2> QED BY <2>1, <2>2, <2>3
  <1>24. {<<ddl[k[1]].table, k[2]>> : k \in keys} = fks
    <2> HIDE DEF keys
    <2>1. \A k \in keys : <<ddl[k[1]].table, k[2]>> \in fks
      BY <1>17, <1>20
    <2> QED BY <1>23, <2>1
  <1>25. \A k, l \in keys : f[k] = f[l] => k = l
    <2> HIDE DEF keys
    <2> SUFFICES ASSUME NEW k \in keys, NEW l \in keys,
                        <<ddl[k[1]].table, k[2]>> = <<ddl[l[1]].table, l[2]>>
                 PROVE  k = l
      OBVIOUS
    <2>1. ddl[k[1]].table = ddl[l[1]].table /\ k[2] = l[2]
      OBVIOUS
    <2>2. k[1] = l[1]
      BY <1>18, <1>20, <2>1
    <2> QED BY <1>20, <2>1, <2>2
  <1>26. f \in Bijection(keys, fks)
    <2> HIDE DEF keys
    <2>1. f \in Injection(keys, fks)
      <3> HIDE DEF f
      <3> QED BY <1>22, <1>25 DEF Injection, IsInjective
    <2>2. f \in Surjection(keys, fks)
      BY <1>22, <1>23 DEF Surjection
    <2> QED BY <2>1, <2>2 DEF Bijection
  <1>27. IsFiniteSet(keys)
    <2> DEFINE all == (1..L) \X Tables
    <2>1. IsFiniteSet(1..L) /\ IsFiniteSet(Tables)
      BY <1>9, TableFacts, FS_Interval
    <2>2. IsFiniteSet(all)
      BY <2>1, FS_Product
    <2>3. keys \in SUBSET all
      BY <1>4
    <2> HIDE DEF keys, all
    <2> QED BY <2>2, <2>3, FS_Subset
  <1>28. Cardinality(keys) = Cardinality(fks)
    <2> HIDE DEF keys, f
    <2>1. ExistsBijection(keys, fks)
      BY <1>26 DEF ExistsBijection
    <2> QED BY <1>27, <2>1, FS_Bijection
  <1> QED BY <1>4, <1>14, <1>15, <1>24, <1>28 DEF DdlReplays, Made

-----------------------------------------------------------------------------
(* The statement.                                                          *)

\* A plan stays what it is: the catalog and the snapshot do not change.
LEMMA WholeKept ==
    ASSUME NEW units, NEW sel, NEW mutate, UNCHANGED schema, Whole(units, sel, mutate)
    PROVE  Whole(units, sel, mutate)'
PROOF
  <1>0. parent' = parent /\ fks' = fks /\ rows' = rows /\ bare' = bare
    BY DEF schema
  <1>1. \A c : Populated(c)' = Populated(c)
    BY <1>0 DEF Populated
  <1>2. \A u : Exported(u)' = Exported(u)
    BY <1>0 DEF Exported, Writable, Populated
  <1>3. \A t : Needs(sel, t)' = Needs(sel, t)
    BY <1>0 DEF Needs
  <1>4. GraphOf(sel)' = GraphOf(sel)
    BY <1>0 DEF GraphOf, SafetyGraph, InterleaveParent, NeedsInterleaveDdl, CreateTableParent
  <1>5. LeadsToEmptyCycle(sel)' <=> LeadsToEmptyCycle(sel)
    BY <1>0, <1>1, <1>4 DEF LeadsToEmptyCycle, GraphOf
  <1>6. InOrder(units, sel)' <=> InOrder(units, sel)
    BY <1>2, <1>3 DEF InOrder
  <1>7. Affordable(units)' <=> Affordable(units)
    BY <1>1 DEF Affordable
  <1> QED BY <1>1, <1>5, <1>6, <1>7 DEF Whole

LEMMA EmptyPlan ==
    Whole(<<>>, {}, FALSE)
PROOF
  <1> DEFINE u == <<>>
  <1>1. u \in Seq(Unit) /\ Len(u) = 0 /\ \A i \in 1..Len(u) : FALSE
    OBVIOUS
  <1> HIDE DEF u
  <1>2. GroupsOf(u) = {}
    BY <1>1 DEF GroupsOf
  <1>3. InOrder(u, {})
    BY <1>1 DEF InOrder
  <1>4. Affordable(u)
    BY <1>2, NoGroupsAffordable
  <1>5. Whole(u, {}, FALSE)
    BY <1>1, <1>2, <1>3, <1>4 DEF Whole
  <1> QED BY <1>5 DEF u

Written(unit) == [tables |-> Exported(unit), atomic |-> unit.kind = "cyclic"]

Outputs == [tables : SUBSET Tables, atomic : BOOLEAN]

\* The first k units of the plan were written, and the others are left; what
\* was written to a buffer is gone when a write failed.
Going(sel, mutate, units, k) ==
    /\ req.sel = sel /\ req.mutate = mutate /\ Whole(units, sel, mutate)
    /\ k \in Nat /\ k + Len(plan) = Len(units)
    /\ plan \in Seq(Unit) /\ \A i \in 1..Len(plan) : plan[i] = units[k + i]
    /\ out \in Seq(Outputs)
    /\ \/ Len(out) = k /\ \A i \in 1..k : out[i] = Written(units[i])
       \/ verdict = "broken" /\ out = <<>>

StatusOK ==
    /\ pc \in {"idle", "writing", "end"}
    /\ verdict \in (IF pc = "end" THEN {"ok", "refused", "broken"} ELSE {"none"})
    /\ req \in [mode : {"none", "database", "tables", "schema"},
                sel : SUBSET Tables, mutate : BOOLEAN]
    /\ rows \subseteq live /\ live \subseteq Tables

ScriptOK == ddl = <<>> \/ \E o \in CreationOrders : ddl = ReplayScript(o)

PlanOK ==
    /\ pc = "idle" \/ verdict = "refused" => plan = <<>> /\ out = <<>>
    /\ ~ (pc = "idle" \/ verdict = "refused") =>
          \E sel \in SUBSET Tables, mutate \in BOOLEAN, units \in Seq(Unit), k \in Nat :
              Going(sel, mutate, units, k)
    /\ verdict = "ok" => plan = <<>>

DumpInv == SchemaOK /\ StatusOK /\ ScriptOK /\ PlanOK

LEMMA DumpInvInit == DumpInit => DumpInv
PROOF
  <1> SUFFICES ASSUME DumpInit
               PROVE  DumpInv
    OBVIOUS
  <1>1. fks \subseteq Tables \X Tables
    <2>1. fks \in ForeignSets
      BY DEF DumpInit
    <2>2. fks \subseteq Keys
      BY <2>1 DEF ForeignSets, kSubset
    <2> QED BY <2>2, CatalogAssumption
  <1>2. parent \in [Tables -> Tables \cup {None}] /\ Forest(parent)
    BY DEF DumpInit
  <1>3. rows \subseteq Tables /\ bare \subseteq rows /\ live = rows
    BY DEF DumpInit
  <1>4. /\ pc = "idle" /\ req = NoRequest /\ verdict = "none"
        /\ plan = <<>> /\ out = <<>> /\ ddl = <<>>
    BY DEF DumpInit
  <1>5. NoRequest \in [mode : {"none", "database", "tables", "schema"},
                       sel : SUBSET Tables, mutate : BOOLEAN]
    BY DEF NoRequest
  <1> QED BY <1>1, <1>2, <1>3, <1>4, <1>5 DEF DumpInv, SchemaOK, StatusOK, ScriptOK, PlanOK

LEMMA ScriptKept ==
    ASSUME UNCHANGED schema, NEW o
    PROVE  CreationOrders' = CreationOrders /\ ReplayScript(o)' = ReplayScript(o)
PROOF
  <1>1. parent' = parent /\ fks' = fks
    BY DEF schema
  <1>2. CreationOrders' = CreationOrders
    BY <1>1 DEF CreationOrders
  <1>4. ReplayScript(o)' = ReplayScript(o)
    BY <1>1 DEF ReplayScript, ForwardKeys
  <1> QED BY <1>2, <1>4

LEMMA SchemaKept ==
    ASSUME SchemaOK, UNCHANGED schema
    PROVE  SchemaOK'
PROOF
  BY DEF SchemaOK, schema, Forest

\* A step that leaves the catalog and the request, and keeps the plan going.
LEMMA StillGoing ==
    ASSUME DumpInv, UNCHANGED <<schema, req, ddl>>,
           pc' \in {"writing", "end"},
           verdict' \in (IF pc' = "end" THEN {"ok", "broken"} ELSE {"none"}),
           verdict' = "ok" => plan' = <<>>,
           rows \subseteq live', live' \subseteq Tables,
           NEW sel \in SUBSET Tables, NEW mutate \in BOOLEAN, NEW units \in Seq(Unit), NEW k \in Nat,
           Whole(units, sel, mutate), req.sel = sel, req.mutate = mutate,
           k + Len(plan') = Len(units),
           plan' \in Seq(Unit), \A i \in 1..Len(plan') : plan'[i] = units[k + i],
           out' \in Seq(Outputs),
           \/ Len(out') = k /\ \A i \in 1..k : out'[i] = Written(units[i])
           \/ verdict' = "broken" /\ out' = <<>>
    PROVE  DumpInv'
PROOF
  <1>1. UNCHANGED schema /\ req' = req /\ ddl' = ddl /\ rows' = rows /\ bare' = bare
    BY DEF schema
  <1>2. SchemaOK'
    BY <1>1, SchemaKept DEF DumpInv
  <1>3. StatusOK'
    BY <1>1 DEF DumpInv, StatusOK
  <1>4. ScriptOK'
    BY <1>1, ScriptKept DEF DumpInv, ScriptOK
  <1>5. Whole(units, sel, mutate)'
    BY <1>1, WholeKept
  <1>6. \A u : Written(u)' = Written(u)
    BY <1>1 DEF Written, Exported, Writable, Populated
  <1>7. Going(sel, mutate, units, k)'
    BY <1>1, <1>5, <1>6 DEF Going
  <1>8. PlanOK'
    BY <1>7 DEF PlanOK
  <1> QED BY <1>2, <1>3, <1>4, <1>8 DEF DumpInv

LEMMA DumpRefuses ==
    ASSUME DumpInv, pc = "idle", Refuse,
           req' \in [mode : {"none", "database", "tables", "schema"},
                     sel : SUBSET Tables, mutate : BOOLEAN]
    PROVE  DumpInv'
PROOF
  <1>1. /\ UNCHANGED schema /\ live' = live /\ plan' = plan /\ out' = out /\ ddl' = ddl
        /\ pc' = "end" /\ verdict' = "refused" /\ rows' = rows
    BY DEF Refuse, schema
  <1>2. SchemaOK'
    BY <1>1, SchemaKept DEF DumpInv
  <1>3. StatusOK'
    BY <1>1 DEF DumpInv, StatusOK
  <1>4. ScriptOK'
    BY <1>1, ScriptKept DEF DumpInv, ScriptOK
  <1>5. PlanOK'
    BY <1>1 DEF DumpInv, PlanOK
  <1> QED BY <1>2, <1>3, <1>4, <1>5 DEF DumpInv

LEMMA DumpPlans ==
    ASSUME DumpInv, pc = "idle",
           NEW sel \in SUBSET Tables, NEW mutate \in BOOLEAN, NEW units, NEW script,
           Whole(units, sel, mutate), Planned(units, script),
           script = <<>> \/ \E o \in CreationOrders : script = ReplayScript(o),
           req' \in [mode : {"none", "database", "tables", "schema"},
                     sel : SUBSET Tables, mutate : BOOLEAN],
           req'.sel = sel, req'.mutate = mutate
    PROVE  DumpInv'
PROOF
  <1>1. /\ UNCHANGED schema /\ live' = live /\ plan' = units /\ out' = out /\ ddl' = script
        /\ pc' = "writing" /\ verdict' = verdict /\ rows' = rows
    BY DEF Planned, schema
  <1>2. SchemaOK'
    BY <1>1, SchemaKept DEF DumpInv
  <1>3. StatusOK'
    BY <1>1 DEF DumpInv, StatusOK
  <1>4. ScriptOK'
    BY <1>1, ScriptKept DEF ScriptOK
  <1>5. Whole(units, sel, mutate)'
    BY <1>1, WholeKept
  <1>6. units \in Seq(Unit) /\ Len(units) \in Nat
    BY LenProperties DEF Whole
  <1>7. out' = <<>> /\ verdict' = "none"
    BY <1>1 DEF DumpInv, PlanOK, StatusOK
  <1>8. Going(sel, mutate, units, 0)'
    <2>1. \A i \in 1..Len(units) : units[0 + i] = units[i]
      BY <1>6
    <2>2. 0 + Len(units) = Len(units) /\ 0 \in Nat /\ <<>> \in Seq(Outputs) /\ Len(<<>>) = 0
      BY <1>6
    <2>3. \A i \in 1..0 : FALSE
      OBVIOUS
    <2> QED BY <1>1, <1>5, <1>6, <1>7, <2>1, <2>2, <2>3 DEF Going
  <1>9. PlanOK'
    BY <1>1, <1>6, <1>7, <1>8 DEF PlanOK
  <1> QED BY <1>2, <1>3, <1>4, <1>9 DEF DumpInv

LEMMA DumpStep ==
    ASSUME DumpInv, NEW mode \in {"tables", "database"}, NEW sel \in SUBSET Tables,
           NEW mutate \in BOOLEAN, Dump(mode, sel, mutate)
    PROVE  DumpInv'
PROOF
  <1>1. pc = "idle" /\ req' = [mode |-> mode, sel |-> sel, mutate |-> mutate]
    BY DEF Dump
  <1>2. /\ req' \in [mode : {"none", "database", "tables", "schema"},
                     sel : SUBSET Tables, mutate : BOOLEAN]
        /\ req'.sel = sel /\ req'.mutate = mutate
    BY <1>1
  <1>3. CASE (mode = "tables" /\ sel = {}) \/ Rejected(SafetyGraph(sel, InterleaveParent(sel)), mutate)
    <2>1. Refuse
      BY <1>3 DEF Dump
    <2> QED BY <1>1, <1>2, <2>1, DumpRefuses
  <1>4. CASE ~ ((mode = "tables" /\ sel = {})
                  \/ Rejected(SafetyGraph(sel, InterleaveParent(sel)), mutate))
    <2> DEFINE script == IF mode = "tables" THEN <<>>
                         ELSE ReplayScript(CHOOSE o \in CreationOrders : TRUE)
    <2>1. Planned(Units(sel, mutate), script)
      BY <1>4 DEF Dump
    <2>2. SchemaOK
      BY DEF DumpInv
    <2>3. Whole(Units(sel, mutate), sel, mutate)
      BY <1>4, <2>2, PlanFacts DEF GraphOf
    <2>4. script = <<>> \/ \E o \in CreationOrders : script = ReplayScript(o)
      BY <2>2, OrderExists
    <2> HIDE DEF script
    <2> QED BY <1>1, <1>2, <2>1, <2>3, <2>4, DumpPlans
  <1> QED BY <1>3, <1>4

LEMMA DumpSchemaStep ==
    ASSUME DumpInv, DumpSchema
    PROVE  DumpInv'
PROOF
  <1>1. pc = "idle" /\ req' = [mode |-> "schema", sel |-> {}, mutate |-> FALSE]
    BY DEF DumpSchema
  <1>2. /\ req' \in [mode : {"none", "database", "tables", "schema"},
                     sel : SUBSET Tables, mutate : BOOLEAN]
        /\ req'.sel = {} /\ req'.mutate = FALSE
    BY <1>1
  <1>3. PICK o \in CreationOrders : Planned(<<>>, ReplayScript(o))
    BY DEF DumpSchema
  <1> QED BY <1>1, <1>2, <1>3, EmptyPlan, DumpPlans

LEMMA WriteUnitStep ==
    ASSUME DumpInv, WriteUnit
    PROVE  DumpInv'
PROOF
  <1>1. pc = "writing" /\ verdict = "none" /\ plan # <<>>
    BY DEF WriteUnit, DumpInv, StatusOK
  <1>2. PICK sel \in SUBSET Tables, mutate \in BOOLEAN, units \in Seq(Unit), k \in Nat :
           Going(sel, mutate, units, k)
    BY <1>1 DEF DumpInv, PlanOK
  <1>3. /\ req.sel = sel /\ req.mutate = mutate /\ Whole(units, sel, mutate)
        /\ k + Len(plan) = Len(units) /\ plan \in Seq(Unit)
        /\ \A i \in 1..Len(plan) : plan[i] = units[k + i]
        /\ out \in Seq(Outputs) /\ Len(out) = k /\ \A i \in 1..k : out[i] = Written(units[i])
    BY <1>1, <1>2 DEF Going
  <1> DEFINE n == Len(plan)
             new == Written(Head(plan))
  <1>4. n \in Nat /\ n > 0 /\ Head(plan) = plan[1] /\ 1 \in 1..n
    BY <1>1, <1>3, LenProperties, EmptySeq
  <1>5. Head(plan) = units[k + 1] /\ Head(plan) \in Unit
    BY <1>3, <1>4, ElementOfSeq
  <1>6. new \in Outputs
    BY <1>5 DEF Written, Exported, Writable, Populated, Outputs, Unit
  <1>7. /\ out' = Append(out, new) /\ plan' = Tail(plan)
        /\ pc' = pc /\ verdict' = verdict /\ live' = live /\ UNCHANGED <<schema, req, ddl>>
    BY DEF WriteUnit, Written
  <1>8. /\ Tail(plan) \in Seq(Unit) /\ Len(Tail(plan)) = n - 1
        /\ \A i \in 1..(n - 1) : Tail(plan)[i] = plan[i + 1]
    BY <1>1, <1>3, HeadTailProperties
  <1>9. /\ Append(out, new) \in Seq(Outputs) /\ Len(Append(out, new)) = k + 1
        /\ \A i \in 1..k : Append(out, new)[i] = out[i]
        /\ Append(out, new)[k + 1] = new
    BY <1>3, <1>6, AppendProperties
  <1> HIDE DEF n, new
  <1>10. \A i \in 1..(n - 1) : plan'[i] = units[(k + 1) + i]
    <2> SUFFICES ASSUME NEW i \in 1..(n - 1)
                 PROVE  plan'[i] = units[(k + 1) + i]
      OBVIOUS
    <2>1. i + 1 \in 1..n /\ k + (i + 1) = (k + 1) + i
      BY <1>4
    <2> QED BY <1>3, <1>7, <1>8, <2>1 DEF n
  <1>11. \A i \in 1..(k + 1) : out'[i] = Written(units[i])
    <2>1. \A i \in 1..(k + 1) : i = k + 1 \/ i \in 1..k
      OBVIOUS
    <2> QED BY <1>3, <1>5, <1>7, <1>9, <2>1 DEF new
  <1>12. (k + 1) + Len(plan') = Len(units) /\ k + 1 \in Nat /\ Len(plan') = n - 1
    BY <1>3, <1>4, <1>7, <1>8 DEF n
  <1>13. rows \subseteq live' /\ live' \subseteq Tables
    BY <1>7 DEF DumpInv, StatusOK
  <1>14. /\ plan' \in Seq(Unit) /\ out' \in Seq(Outputs) /\ Len(out') = k + 1
         /\ pc' \in {"writing", "end"} /\ verdict' = "none" /\ pc' = "writing"
    BY <1>1, <1>7, <1>8, <1>9
  <1>15. \A i \in 1..Len(plan') : plan'[i] = units[(k + 1) + i]
    BY <1>10, <1>12
  <1> QED BY <1>3, <1>7, <1>11, <1>12, <1>13, <1>14, <1>15, StillGoing

\* A step of the writing that changes neither plan nor, unless it fails, output.
LEMMA WritingStep ==
    ASSUME DumpInv, pc = "writing", plan' = plan, UNCHANGED <<schema, req, ddl>>,
           out' = out \/ (verdict' = "broken" /\ out' = <<>>),
           pc' \in {"writing", "end"},
           verdict' \in (IF pc' = "end" THEN {"ok", "broken"} ELSE {"none"}),
           verdict' = "ok" => plan = <<>>,
           rows \subseteq live', live' \subseteq Tables
    PROVE  DumpInv'
PROOF
  <1>1. verdict = "none"
    BY DEF DumpInv, StatusOK
  <1>2. PICK sel \in SUBSET Tables, mutate \in BOOLEAN, units \in Seq(Unit), k \in Nat :
           Going(sel, mutate, units, k)
    BY <1>1 DEF DumpInv, PlanOK
  <1>3. /\ req.sel = sel /\ req.mutate = mutate /\ Whole(units, sel, mutate)
        /\ k + Len(plan) = Len(units) /\ plan \in Seq(Unit)
        /\ \A i \in 1..Len(plan) : plan[i] = units[k + i]
        /\ out \in Seq(Outputs) /\ Len(out) = k /\ \A i \in 1..k : out[i] = Written(units[i])
    BY <1>1, <1>2 DEF Going
  <1>4. /\ out' \in Seq(Outputs)
        /\ \/ Len(out') = k /\ \A i \in 1..k : out'[i] = Written(units[i])
           \/ verdict' = "broken" /\ out' = <<>>
    <2>1. <<>> \in Seq(Outputs)
      OBVIOUS
    <2> QED BY <1>3, <2>1
  <1>5. k + Len(plan') = Len(units) /\ plan' \in Seq(Unit)
        /\ \A i \in 1..Len(plan') : plan'[i] = units[k + i]
    BY <1>3
  <1> QED BY <1>3, <1>4, <1>5, StillGoing

LEMMA ReturnStep ==
    ASSUME DumpInv, Return
    PROVE  DumpInv'
PROOF
  <1>1. /\ UNCHANGED schema /\ rows' = rows /\ live' = rows /\ pc' = "idle" /\ req' = NoRequest
        /\ verdict' = "none" /\ plan' = <<>> /\ out' = <<>> /\ ddl' = <<>>
    BY DEF Return, schema
  <1>2. SchemaOK'
    BY <1>1, SchemaKept DEF DumpInv
  <1>3. StatusOK'
    BY <1>1 DEF DumpInv, StatusOK, NoRequest, SchemaOK
  <1>4. ScriptOK' /\ PlanOK'
    BY <1>1 DEF ScriptOK, PlanOK
  <1> QED BY <1>2, <1>3, <1>4 DEF DumpInv

LEMMA DumpInvStutter ==
    ASSUME DumpInv, UNCHANGED dumpVars
    PROVE  DumpInv'
PROOF
  <1>1. /\ UNCHANGED schema /\ rows' = rows /\ bare' = bare /\ live' = live /\ pc' = pc
        /\ req' = req /\ plan' = plan /\ out' = out /\ ddl' = ddl /\ verdict' = verdict
    BY DEF dumpVars, schema
  <1>2. SchemaOK'
    BY <1>1, SchemaKept DEF DumpInv
  <1>3. StatusOK'
    BY <1>1 DEF DumpInv, StatusOK
  <1>4. ScriptOK'
    BY <1>1, ScriptKept DEF DumpInv, ScriptOK
  <1>5. PlanOK'
    <2>1. CASE pc = "idle" \/ verdict = "refused"
      BY <1>1, <2>1 DEF DumpInv, PlanOK
    <2>2. CASE ~ (pc = "idle" \/ verdict = "refused")
      <3>1. PICK sel \in SUBSET Tables, mutate \in BOOLEAN, units \in Seq(Unit), k \in Nat :
               Going(sel, mutate, units, k)
        BY <2>2 DEF DumpInv, PlanOK
      <3>2. Whole(units, sel, mutate)'
        BY <1>1, <3>1, WholeKept DEF Going
      <3>3. \A u : Written(u)' = Written(u)
        BY <1>1 DEF Written, Exported, Writable, Populated
      <3>4. Going(sel, mutate, units, k)'
        BY <1>1, <3>1, <3>2, <3>3 DEF Going
      <3>5. verdict' = "ok" => plan' = <<>>
        BY <1>1 DEF DumpInv, PlanOK
      <3> QED BY <1>1, <2>2, <3>4, <3>5 DEF PlanOK
    <2> QED BY <2>1, <2>2
  <1> QED BY <1>2, <1>3, <1>4, <1>5 DEF DumpInv

LEMMA DumpInvNext == DumpInv /\ [DumpNext]_dumpVars => DumpInv'
PROOF
  <1> SUFFICES ASSUME DumpInv, [DumpNext]_dumpVars
               PROVE  DumpInv'
    OBVIOUS
  <1>1. ASSUME NEW sel \in Selections, NEW mutate \in BOOLEAN, Dump("tables", sel, mutate)
        PROVE  DumpInv'
    <2>1. sel \in SUBSET Tables
      BY DEF Selections, Selected
    <2> QED BY <1>1, <2>1, DumpStep
  <1>2. ASSUME NEW mutate \in BOOLEAN, Dump("database", Tables, mutate)
        PROVE  DumpInv'
    BY <1>2, DumpStep
  <1>3. CASE DumpSchema
    BY <1>3, DumpSchemaStep
  <1>4. ASSUME NEW mode \in {"tables", "database", "schema"}, PlanningFails(mode)
        PROVE  DumpInv'
    <2>1. pc = "idle" /\ Refuse /\ req' = [NoRequest EXCEPT !.mode = mode]
      BY <1>4 DEF PlanningFails
    <2>2. req' \in [mode : {"none", "database", "tables", "schema"},
                    sel : SUBSET Tables, mutate : BOOLEAN]
      BY <2>1 DEF NoRequest
    <2> QED BY <2>1, <2>2, DumpRefuses
  <1>5. ASSUME NEW t \in Tables, OutsideWrite(t)
        PROVE  DumpInv'
    <2>1. /\ pc = "writing" /\ live' = live \cup {t} /\ UNCHANGED <<schema, req, ddl>>
          /\ pc' = pc /\ plan' = plan /\ out' = out /\ verdict' = verdict
      BY <1>5 DEF OutsideWrite
    <2>2. verdict' = "none" /\ rows \subseteq live' /\ live' \subseteq Tables
      BY <2>1 DEF DumpInv, StatusOK
    <2> QED BY <2>1, <2>2, WritingStep
  <1>6. CASE WriteUnit
    BY <1>6, WriteUnitStep
  <1>7. ASSUME NEW streaming \in BOOLEAN, WriteFails(streaming)
        PROVE  DumpInv'
    <2>1. /\ pc = "writing" /\ pc' = "end" /\ verdict' = "broken" /\ UNCHANGED <<schema, req, ddl>>
          /\ plan' = plan /\ live' = live /\ (out' = out \/ out' = <<>>)
      BY <1>7 DEF WriteFails, Kept
    <2>2. rows \subseteq live' /\ live' \subseteq Tables
      BY <2>1 DEF DumpInv, StatusOK
    <2> QED BY <2>1, <2>2, WritingStep
  <1>8. CASE Complete
    <2>1. /\ pc = "writing" /\ plan = <<>> /\ pc' = "end" /\ verdict' = "ok"
          /\ UNCHANGED <<schema, req, ddl>> /\ plan' = plan /\ live' = live /\ out' = out
      BY <1>8 DEF Complete
    <2>2. rows \subseteq live' /\ live' \subseteq Tables
      BY <2>1 DEF DumpInv, StatusOK
    <2> QED BY <2>1, <2>2, WritingStep
  <1>9. CASE Return
    BY <1>9, ReturnStep
  <1>10. CASE UNCHANGED dumpVars
    BY <1>10, DumpInvStutter
  <1> QED BY <1>1, <1>2, <1>3, <1>4, <1>5, <1>6, <1>7, <1>8, <1>9, <1>10 DEF DumpNext

-----------------------------------------------------------------------------
(* What the invariant says of the output.                                  *)

\* What is in the output is a first part of a plan, or nothing.
LEMMA OutputFacts ==
    ASSUME DumpInv, out # <<>> \/ verdict = "ok"
    PROVE  \E units \in Seq(Unit) :
              /\ Whole(units, req.sel, req.mutate)
              /\ Len(out) \in Nat /\ Len(units) \in Nat /\ Len(out) <= Len(units)
              /\ DOMAIN out = 1..Len(out)
              /\ \A i \in 1..Len(out) : out[i] = Written(units[i])
              /\ verdict = "ok" => Len(out) = Len(units)
PROOF
  <1>1. ~ (pc = "idle" \/ verdict = "refused")
    BY DEF DumpInv, PlanOK, StatusOK
  <1>2. PICK sel \in SUBSET Tables, mutate \in BOOLEAN, units \in Seq(Unit), k \in Nat :
           Going(sel, mutate, units, k)
    BY <1>1 DEF DumpInv, PlanOK
  <1>3. /\ req.sel = sel /\ req.mutate = mutate /\ Whole(units, sel, mutate)
        /\ k + Len(plan) = Len(units) /\ plan \in Seq(Unit)
        /\ out \in Seq(Outputs) /\ Len(out) = k /\ \A i \in 1..k : out[i] = Written(units[i])
    BY <1>2 DEF Going
  <1>4. Len(plan) \in Nat /\ Len(units) \in Nat /\ DOMAIN out = 1..Len(out)
    BY <1>3, LenProperties
  <1>5. verdict = "ok" => Len(plan) = 0
    BY DEF DumpInv, PlanOK
  <1> QED BY <1>3, <1>4, <1>5

LEMMA InvRestores == DumpInv => RestoresUnlessStuck
PROOF
  <1> SUFFICES ASSUME DumpInv, out # <<>>, ~LeadsToEmptyCycle(req.sel)
               PROVE  RestoresInOrder
    BY DEF RestoresUnlessStuck, RestoresInOrder
  <1>1. PICK units \in Seq(Unit) :
           /\ Whole(units, req.sel, req.mutate)
           /\ Len(out) \in Nat /\ Len(units) \in Nat /\ Len(out) <= Len(units)
           /\ DOMAIN out = 1..Len(out) /\ \A i \in 1..Len(out) : out[i] = Written(units[i])
    BY OutputFacts
  <1>2. InOrder(units, req.sel)
    BY <1>1 DEF Whole
  <1>3. \A i \in 1..Len(out) : /\ out[i].tables = Exported(units[i])
                               /\ out[i].atomic = (units[i].kind = "cyclic")
    BY <1>1 DEF Written
  <1> SUFFICES ASSUME NEW i \in 1..Len(out), NEW t \in out[i].tables, NEW p \in Needs(req.sel, t)
               PROVE  \/ \E j \in 1..(i - 1) : p \in out[j].tables
                      \/ out[i].atomic /\ p \in out[i].tables
    BY <1>1 DEF RestoresInOrder
  <1>4. i \in 1..Len(units) /\ t \in Exported(units[i])
    BY <1>1, <1>3
  <1>5. CASE \E j \in 1..(i - 1) : p \in Exported(units[j])
    <2>1. PICK j \in 1..(i - 1) : p \in Exported(units[j])
      BY <1>5
    <2>2. j \in 1..Len(out)
      BY <1>1
    <2> QED BY <1>3, <2>1, <2>2
  <1>6. CASE units[i].kind = "cyclic" /\ p \in Exported(units[i])
    BY <1>3, <1>6
  <1> QED BY <1>2, <1>4, <1>5, <1>6 DEF InOrder

LEMMA InvSnapshot == DumpInv => OkIsWholeSnapshot
PROOF
  <1> SUFFICES ASSUME DumpInv, verdict = "ok"
               PROVE  /\ (UNION {out[i].tables : i \in DOMAIN out}) = (req.sel \cap rows) \ bare
                      /\ \A i, j \in DOMAIN out :
                            i # j => out[i].tables \cap out[j].tables = {}
    BY DEF OkIsWholeSnapshot
  <1>1. PICK units \in Seq(Unit) :
           /\ Whole(units, req.sel, req.mutate)
           /\ DOMAIN out = 1..Len(out) /\ Len(out) = Len(units)
           /\ \A i \in 1..Len(out) : out[i] = Written(units[i])
    BY OutputFacts
  <1> DEFINE L == Len(units)
  <1>2. /\ \A i, j \in 1..L : i # j => units[i].tables \cap units[j].tables = {}
        /\ \A i \in 1..L : units[i].tables \subseteq req.sel
        /\ \A t \in req.sel : \E i \in 1..L : t \in units[i].tables
        /\ \A i \in 1..L : units[i].kind = "empty" => Populated(units[i].tables) = {}
    BY <1>1 DEF Whole
  <1>3. DOMAIN out = 1..L /\ \A i \in 1..L : out[i].tables = Exported(units[i])
    BY <1>1 DEF Written
  <1> HIDE DEF L
  <1>4. \A i \in 1..L : Exported(units[i]) = (units[i].tables \cap rows) \ bare
    BY <1>2 DEF Exported, Writable, Populated
  <1>5. \A i \in 1..L : out[i].tables = (units[i].tables \cap rows) \ bare
    BY <1>3, <1>4
  <1>6. (UNION {out[i].tables : i \in 1..L}) = (req.sel \cap rows) \ bare
    BY <1>2, <1>5
  <1>7. \A i, j \in 1..L : i # j => out[i].tables \cap out[j].tables = {}
    BY <1>2, <1>5
  <1> QED BY <1>3, <1>6, <1>7

LEMMA InvBounded == DumpInv => GroupsStayBounded
PROOF
  <1> SUFFICES ASSUME DumpInv
               PROVE  GroupsStayBounded
    OBVIOUS
  <1> DEFINE groups == {i \in DOMAIN out : out[i].atomic}
             X == UNION {out[i].tables : i \in groups}
  <1>1. CASE out = <<>>
    <2>1. groups = {} /\ X = {}
      BY <1>1
    <2> HIDE DEF groups, X
    <2>2. Cardinality(groups) + Cardinality(X) <= ByteLimit
      BY <2>1, FS_EmptySet, LimitAssumption
    <2> QED BY <2>1, <2>2 DEF GroupsStayBounded, groups, X
  <1>2. CASE out # <<>>
    <2>1. PICK units \in Seq(Unit) :
             /\ Whole(units, req.sel, req.mutate)
             /\ Len(out) \in Nat /\ Len(units) \in Nat /\ Len(out) <= Len(units)
             /\ DOMAIN out = 1..Len(out) /\ \A i \in 1..Len(out) : out[i] = Written(units[i])
      BY <1>2, OutputFacts
    <2> DEFINE I == GroupsOf(units)
               Y == UNION {Populated(units[i].tables) : i \in I}
    <2>2. \A i \in 1..Len(out) : /\ i \in 1..Len(units) /\ out[i].tables = Exported(units[i])
                                 /\ out[i].atomic = (units[i].kind = "cyclic")
      BY <2>1 DEF Written
    <2>3. groups \subseteq I
      BY <2>1, <2>2 DEF GroupsOf
    <2>4. X \subseteq Y
      <3>1. \A i \in groups : out[i].tables \subseteq Populated(units[i].tables)
        BY <2>1, <2>2 DEF Exported, Writable
      <3> QED BY <2>3, <3>1
    <2>5. (I # {} => req.mutate) /\ Cardinality(I) + Cardinality(Y) <= ByteLimit
      BY <2>1 DEF Whole, Affordable
    <2>6. IsFiniteSet(I)
      <3>1. IsFiniteSet(1..Len(units))
        BY <2>1, FS_Interval
      <3>2. I \in SUBSET (1..Len(units))
        BY DEF GroupsOf
      <3> HIDE DEF I
      <3> QED BY <3>1, <3>2, FS_Subset
    <2>7. IsFiniteSet(Y)
      <3>1. Y \in SUBSET Tables
        BY DEF Populated, DumpInv, SchemaOK
      <3> HIDE DEF Y
      <3> QED BY <3>1, TableFacts, FS_Subset
    <2> HIDE DEF groups, X, I, Y
    <2>8. /\ IsFiniteSet(groups) /\ Cardinality(groups) <= Cardinality(I)
          /\ IsFiniteSet(X) /\ Cardinality(X) <= Cardinality(Y)
      BY <2>3, <2>4, <2>6, <2>7, FS_Subset
    <2>9. /\ Cardinality(groups) \in Nat /\ Cardinality(I) \in Nat
          /\ Cardinality(X) \in Nat /\ Cardinality(Y) \in Nat
      BY <2>6, <2>7, <2>8, FS_CardinalityType
    <2>10. Cardinality(groups) + Cardinality(X) <= ByteLimit
      BY <2>5, <2>8, <2>9, LimitAssumption
    <2>11. groups # {} => req.mutate
      BY <2>3, <2>5
    <2> QED BY <2>10, <2>11 DEF GroupsStayBounded, groups, X
  <1> QED BY <1>1, <1>2

LEMMA InvCycles == DumpInv => ComponentsAreCycles
PROOF
  <1> SUFFICES ASSUME DumpInv
               PROVE  ComponentsAreCycles
    OBVIOUS
  <1>1. GraphOf(Tables) \in Graphs /\ DOMAIN GraphOf(Tables) = Tables
    BY SelectionGraph DEF DumpInv
  <1>2. Components(GraphOf(Tables)) = {Together(GraphOf(Tables), t) : t \in Tables}
    BY <1>1, ComponentsFacts
  <1> QED BY <1>2 DEF ComponentsAreCycles, GraphOf

LEMMA InvType == DumpInv => DumpTypeOK
PROOF
  <1> SUFFICES ASSUME DumpInv
               PROVE  DumpTypeOK
    OBVIOUS
  <1>1. /\ plan \in Seq(Unit) /\ out \in Seq(Outputs)
        /\ \A i, j \in DOMAIN plan : i # j => plan[i].tables \cap plan[j].tables = {}
    <2>1. CASE pc = "idle" \/ verdict = "refused"
      <3>1. plan = <<>> /\ out = <<>>
        BY <2>1 DEF DumpInv, PlanOK
      <3> QED BY <3>1
    <2>2. CASE ~ (pc = "idle" \/ verdict = "refused")
      <3>1. PICK sel \in SUBSET Tables, mutate \in BOOLEAN, units \in Seq(Unit), k \in Nat :
               Going(sel, mutate, units, k)
        BY <2>2 DEF DumpInv, PlanOK
      <3>2. /\ Whole(units, sel, mutate) /\ k + Len(plan) = Len(units) /\ plan \in Seq(Unit)
            /\ out \in Seq(Outputs) /\ \A i \in 1..Len(plan) : plan[i] = units[k + i]
        BY <3>1 DEF Going
      <3>3. DOMAIN plan = 1..Len(plan) /\ Len(plan) \in Nat
        BY <3>2, LenProperties
      <3>4. \A i, j \in 1..Len(units) : i # j => units[i].tables \cap units[j].tables = {}
        BY <3>2 DEF Whole
      <3>5. \A i \in 1..Len(plan) : k + i \in 1..Len(units)
        BY <3>2, <3>3
      <3>6. \A i, j \in 1..Len(plan) : i # j => k + i # k + j
        BY <3>3
      <3> QED BY <3>2, <3>3, <3>4, <3>5, <3>6
    <2> QED BY <2>1, <2>2
  <1>2. verdict \in {"none", "ok", "refused", "broken"}
    BY DEF DumpInv, StatusOK
  <1> QED BY <1>1, <1>2 DEF DumpTypeOK, DumpInv, SchemaOK, StatusOK, Outputs

LEMMA InvReplays == DumpInv => DdlReplays
PROOF
  <1> SUFFICES ASSUME DumpInv, ddl # <<>>
               PROVE  DdlReplays
    BY DEF DdlReplays
  <1>1. PICK o \in CreationOrders : ddl = ReplayScript(o)
    BY DEF DumpInv, ScriptOK
  <1> QED BY <1>1, ReplayFacts DEF DumpInv

LEMMA DumpInvariant == DumpSpec => []DumpInv
PROOF
  <1> QED BY DumpInvInit, DumpInvNext, PTL DEF DumpSpec

\* A dump that says OK holds the rows of the selected tables as the snapshot
\* had them, each once; its INSERTs replay in their order unless a table leads
\* to an empty cycle; its DDL replays; the retained groups stay in the budget;
\* and the two passes find the cycles, for any catalog (dump.go,
\* dependency_resolver.go, dump_cyclic.go, dump_ddl_replay.go).
THEOREM DumpIsSound == DumpSpec => []DumpSound
PROOF
  <1>1. DumpInv => DumpSound
    BY InvType, InvRestores, InvSnapshot, InvReplays, InvBounded, InvCycles DEF DumpSound
  <1> QED BY <1>1, DumpInvariant, PTL

=============================================================================
