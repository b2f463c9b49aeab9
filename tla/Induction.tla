------------------------------ MODULE Induction ------------------------------
(***************************************************************************)
(* Induction over the numbers up to n and recursion over a finite order,    *)
(* stated with sets and functions, so that the provers can instantiate      *)
(* them: what the recursive functions of the models compute is proved with  *)
(* these lemmas.                                                            *)
(***************************************************************************)
EXTENDS Integers, FiniteSets, FiniteSetTheorems, WellFoundedInduction, TLAPS

-----------------------------------------------------------------------------
(* Least and greatest elements.                                            *)

LEMMA Extremes ==
    ASSUME NEW n \in Nat, NEW S \in SUBSET (0..n), S # {}
    PROVE  /\ \E p \in S : \A q \in S : p <= q
           /\ \E p \in S : \A q \in S : p >= q
    <1> DEFINE R == StrictSubsetOrdering(0..n)
    <1>1. IsFiniteSet(0..n) /\ IsWellFoundedOn(R, FiniteSubsetsOf(0..n))
      BY FS_Interval, FS_StrictSubsetOrderingWellFounded
    <1>2. \E p \in S : \A q \in S : p <= q
      <2> DEFINE below(p) == {q \in S : q < p}
                 B == {below(p) : p \in S}
      <2>1. B \subseteq FiniteSubsetsOf(0..n) /\ B # {}
        <3>1. ASSUME NEW p \in S PROVE below(p) \in FiniteSubsetsOf(0..n)
          <4>1. below(p) \in SUBSET (0..n)
            OBVIOUS
          <4>2. IsFiniteSet(below(p))
            BY <4>1, <1>1, FS_Subset
          <4>. QED BY <4>1, <4>2 DEF FiniteSubsetsOf
        <3>. QED BY <3>1
      <2>2. \E x \in B : \A y \in B : <<y, x>> \notin R
        <3> HIDE DEF B, R
        <3>. QED BY <1>1, <2>1, WFMin
      <2>3. PICK p \in S : \A q \in S : <<below(q), below(p)>> \notin R
        BY <2>2
      <2>4. ASSUME NEW q \in S, q < p PROVE FALSE
        <3>1. below(q) \subseteq below(p) /\ q \in below(p) /\ q \notin below(q)
          <4>1. \A x \in S : x < q => x < p
            BY <2>4
          <4>2. ~(q < q)
            BY q \in 0..n
          <4>. QED BY <2>4, <4>1, <4>2
        <3>2. below(q) \in SUBSET (0..n) /\ below(p) \in SUBSET (0..n)
          OBVIOUS
        <3>3. <<below(q), below(p)>> \in R
          BY <3>1, <3>2 DEF StrictSubsetOrdering
        <3>. QED BY <2>3, <3>3
      <2>. QED BY <2>4
    <1>3. \E p \in S : \A q \in S : p >= q
      <2> DEFINE above(p) == {q \in S : q > p}
                 B == {above(p) : p \in S}
      <2>1. B \subseteq FiniteSubsetsOf(0..n) /\ B # {}
        <3>1. ASSUME NEW p \in S PROVE above(p) \in FiniteSubsetsOf(0..n)
          <4>1. above(p) \in SUBSET (0..n)
            OBVIOUS
          <4>2. IsFiniteSet(above(p))
            BY <4>1, <1>1, FS_Subset
          <4>. QED BY <4>1, <4>2 DEF FiniteSubsetsOf
        <3>. QED BY <3>1
      <2>2. \E x \in B : \A y \in B : <<y, x>> \notin R
        <3> HIDE DEF B, R
        <3>. QED BY <1>1, <2>1, WFMin
      <2>3. PICK p \in S : \A q \in S : <<above(q), above(p)>> \notin R
        BY <2>2
      <2>4. ASSUME NEW q \in S, q > p PROVE FALSE
        <3>1. above(q) \subseteq above(p) /\ q \in above(p) /\ q \notin above(q)
          <4>1. \A x \in S : x > q => x > p
            BY <2>4
          <4>2. ~(q > q)
            BY q \in 0..n
          <4>. QED BY <2>4, <4>1, <4>2
        <3>2. above(q) \in SUBSET (0..n) /\ above(p) \in SUBSET (0..n)
          OBVIOUS
        <3>3. <<above(q), above(p)>> \in R
          BY <3>1, <3>2 DEF StrictSubsetOrdering
        <3>. QED BY <2>3, <3>3
      <2>. QED BY <2>4
    <1>. QED BY <1>2, <1>3

-----------------------------------------------------------------------------
(* Induction: a set of numbers up to n that holds 0, and the next of each of *)
(* its elements, holds all of them.                                         *)

LEMMA Induct ==
  ASSUME NEW n \in Nat, NEW B \in SUBSET (0 .. n), 0 \in B,
         \A k \in B : k < n => k + 1 \in B
  PROVE  B = 0 .. n
  <1> DEFINE S == (0 .. n) \ B
  <1>1. SUFFICES ASSUME S # {} PROVE FALSE
    OBVIOUS
  <1>2. S \in SUBSET (0 .. n)
    OBVIOUS
  <1>3. PICK p \in S : \A q \in S : p <= q
    <2> HIDE DEF S
    <2>. QED BY <1>1, <1>2, Extremes
  <1>4. p \in 1 .. n
    BY <1>3
  <1>5. p - 1 \in 0 .. n /\ ~(p <= p - 1)
    BY <1>4
  <1>6. p - 1 \in B
    BY <1>3, <1>5
  <1>7. (p - 1) + 1 = p /\ p - 1 < n
    BY <1>4
  <1>8. (p - 1) + 1 \in B
    BY <1>6, <1>7
  <1>. QED BY <1>3, <1>7, <1>8

\* Induction over a rank: a set that holds each d if it holds all of lower rank.
LEMMA RankInduct ==
  ASSUME NEW n \in Nat, NEW D, NEW rank \in [D -> 0 .. n], NEW B \in SUBSET D,
         \A d \in D : (\A e \in D : rank[e] < rank[d] => e \in B) => d \in B
  PROVE  B = D
  <1> DEFINE R == {rank[d] : d \in D \ B}
  <1>1. SUFFICES ASSUME D \ B # {} PROVE FALSE
    OBVIOUS
  <1>2. R \in SUBSET (0 .. n) /\ R # {}
    BY <1>1
  <1>3. PICK r \in R : \A x \in R : r <= x
    <2> HIDE DEF R
    <2>. QED BY <1>2, Extremes
  <1>4. PICK d \in D \ B : r = rank[d]
    OBVIOUS
  <1>5. ASSUME NEW e \in D, rank[e] < rank[d] PROVE e \in B
    <2>1. rank[e] \in 0 .. n /\ rank[d] \in 0 .. n
      OBVIOUS
    <2>2. rank[e] \notin R
      <3> HIDE DEF R
      <3>. QED BY <1>3, <1>4, <1>5, <2>1
    <2>. QED BY <2>2
  <1>. QED BY <1>4, <1>5

(* Recursion: f[d] is base[d] for d in B, and for every other d it comes from *)
(* f at prev[d], which has a lower rank.                                     *)

Descends(D, B, S, rank, prev, base, step) ==
  /\ \A d \in B : base[d] \in S
  /\ \A d \in D \ B : prev[d] \in D /\ rank[prev[d]] < rank[d]
  /\ \A d \in D \ B, x \in S : step[d][x] \in S
Computes(f, D, B, prev, base, step) ==
  \A d \in D : f[d] = IF d \in B THEN base[d] ELSE step[d][f[prev[d]]]

LEMMA Recursion ==
  ASSUME NEW n \in Nat, NEW D, NEW B \in SUBSET D, NEW S,
         NEW rank \in [D -> 0 .. n], NEW prev, NEW base, NEW step,
         Descends(D, B, S, rank, prev, base, step)
  PROVE  \E f \in [D -> S] : Computes(f, D, B, prev, base, step)
  <1>0. /\ \A d \in B : base[d] \in S
        /\ \A d \in D \ B : prev[d] \in D /\ rank[prev[d]] < rank[d]
        /\ \A d \in D \ B, x \in S : step[d][x] \in S
    BY DEF Descends
  <1> DEFINE Low(k) == {d \in D : rank[d] <= k}
             Holds(f, k) == \A d \in Low(k) :
                              f[d] = IF d \in B THEN base[d] ELSE step[d][f[prev[d]]]
             K == {k \in 0 .. n : \E f \in [Low(k) -> S] : Holds(f, k)}
  <1>1. 0 \in K
    <2> DEFINE f == [d \in Low(0) |-> base[d]]
    <2>1. \A d \in Low(0) : d \in B
      <3> SUFFICES ASSUME NEW d \in D, rank[d] <= 0, d \notin B PROVE FALSE
        OBVIOUS
      <3>1. prev[d] \in D /\ rank[prev[d]] < rank[d]
        BY <1>0
      <3>2. rank[prev[d]] \in 0 .. n /\ rank[d] \in 0 .. n
        BY <3>1
      <3>. QED BY <3>1, <3>2
    <2>2. f \in [Low(0) -> S] /\ Holds(f, 0)
      BY <1>0, <2>1
    <2>3. 0 \in 0 .. n
      OBVIOUS
    <2> HIDE DEF f, Low, Holds
    <2>. QED BY <2>2, <2>3
  <1>2. ASSUME NEW k \in K, k < n PROVE k + 1 \in K
    <2>0. k \in 0 .. n /\ k + 1 \in 0 .. n
      BY <1>2
    <2>1. PICK g \in [Low(k) -> S] : Holds(g, k)
      OBVIOUS
    <2> DEFINE f == [d \in Low(k + 1) |-> IF d \in Low(k) THEN g[d]
                       ELSE IF d \in B THEN base[d] ELSE step[d][g[prev[d]]]]
    <2>2. Low(k) \subseteq Low(k + 1)
      BY <2>0
    <2>3. \A d \in Low(k + 1) \ B : prev[d] \in Low(k)
      <3> SUFFICES ASSUME NEW d \in D, rank[d] <= k + 1, d \notin B PROVE prev[d] \in Low(k)
        OBVIOUS
      <3>1. prev[d] \in D /\ rank[prev[d]] < rank[d]
        BY <1>0
      <3>2. rank[prev[d]] \in 0 .. n /\ rank[d] \in 0 .. n
        BY <3>1
      <3>. QED BY <2>0, <3>1, <3>2
    <2>4. f \in [Low(k + 1) -> S]
      <3> SUFFICES ASSUME NEW d \in Low(k + 1)
                   PROVE  (IF d \in Low(k) THEN g[d]
                           ELSE IF d \in B THEN base[d] ELSE step[d][g[prev[d]]]) \in S
        OBVIOUS
      <3>1. CASE d \in Low(k) \/ d \in B
        BY <1>0, <3>1
      <3>2. CASE d \notin Low(k) /\ d \notin B
        <4>1. g[prev[d]] \in S
          BY <2>3, <3>2
        <4>. QED BY <1>0, <3>2, <4>1
      <3>. QED BY <3>1, <3>2
    <2>5. Holds(f, k + 1)
      <3> SUFFICES ASSUME NEW d \in Low(k + 1)
                   PROVE  f[d] = IF d \in B THEN base[d] ELSE step[d][f[prev[d]]]
        OBVIOUS
      <3>1. d \notin B => prev[d] \in Low(k) /\ f[prev[d]] = g[prev[d]]
        BY <2>2, <2>3
      <3>2. CASE d \in Low(k)
        <4>1. f[d] = g[d]
          BY <3>2
        <4>2. g[d] = IF d \in B THEN base[d] ELSE step[d][g[prev[d]]]
          BY <2>1, <3>2
        <4>. QED BY <3>1, <4>1, <4>2
      <3>3. CASE d \notin Low(k)
        <4>1. f[d] = IF d \in B THEN base[d] ELSE step[d][g[prev[d]]]
          BY <3>3
        <4>. QED BY <3>1, <4>1
      <3>. QED BY <3>2, <3>3
    <2> HIDE DEF f, Low, Holds
    <2>. QED BY <2>0, <2>4, <2>5
  <1>3. K = 0 .. n
    <2>1. K \in SUBSET (0 .. n)
      OBVIOUS
    <2> HIDE DEF K
    <2>. QED BY <1>1, <1>2, <2>1, Induct
  <1>4. n \in K
    <2> HIDE DEF K
    <2>. QED BY <1>3
  <1>5. PICK f \in [Low(n) -> S] : Holds(f, n)
    BY <1>4
  <1>6. Low(n) = D
    <2> SUFFICES ASSUME NEW d \in D PROVE rank[d] <= n
      OBVIOUS
    <2>. QED OBVIOUS
  <1>. QED BY <1>5, <1>6 DEF Computes

\* Iteration: f[0] is b, and f[k] comes from f[k - 1].
Steps(n, S, step) == \A k \in 1 .. n, x \in S : step[k][x] \in S
Iterates(f, n, b, step) == f[0] = b /\ \A k \in 1 .. n : f[k] = step[k][f[k - 1]]

LEMMA Iterate ==
  ASSUME NEW n \in Nat, NEW S, NEW b \in S, NEW step, Steps(n, S, step)
  PROVE  \E f \in [0 .. n -> S] : Iterates(f, n, b, step)
  <1> DEFINE D    == 0 .. n
             Z    == {0}
             rank == [d \in D |-> d]
             prev == [d \in D |-> d - 1]
             base == [d \in Z |-> b]
  <1>1. Descends(D, Z, S, rank, prev, base, step)
    BY DEF Descends, Steps
  <1>2. PICK f \in [D -> S] : Computes(f, D, Z, prev, base, step)
    <2>1. Z \in SUBSET D /\ rank \in [D -> 0 .. n]
      OBVIOUS
    <2> HIDE DEF D, Z, rank, prev, base
    <2>. QED BY <1>1, <2>1, Recursion
  <1>3. f[0] = b
    BY <1>2 DEF Computes
  <1>4. \A k \in 1 .. n : f[k] = step[k][f[k - 1]]
    <2> SUFFICES ASSUME NEW k \in 1 .. n PROVE f[k] = step[k][f[k - 1]]
      OBVIOUS
    <2>1. k \in D /\ k \notin Z /\ prev[k] = k - 1
      OBVIOUS
    <2>. QED BY <1>2, <2>1 DEF Computes
  <1>. QED BY <1>2, <1>3, <1>4 DEF Iterates

\* A function given by an equation in which the value at d depends on values of
\* lower rank only: the equation has a solution.
Contracts(body, D, S, rank) ==
  /\ body \in [[D -> S] -> [D -> S]]
  /\ \A f, g \in [D -> S], d \in D :
       (\A e \in D : rank[e] < rank[d] => f[e] = g[e]) => body[f][d] = body[g][d]

LEMMA Fixpoint ==
  ASSUME NEW n \in Nat, NEW D, NEW S, NEW start \in [D -> S],
         NEW rank \in [D -> 0 .. n], NEW body,
         Contracts(body, D, S, rank)
  PROVE  \E f \in [D -> S] : f = body[f]
  <1> DEFINE F    == [D -> S]
             m    == n + 2
             step == [k \in 1 .. m |-> body]
  <1>0. m \in Nat /\ n + 1 \in Nat /\ start \in F /\ body \in [F -> F]
    BY DEF Contracts
  <1>1. Steps(m, F, step)
    <2> HIDE DEF F, m
    <2>. QED BY <1>0 DEF Steps
  <1>2. PICK it \in [0 .. m -> F] : Iterates(it, m, start, step)
    <2> HIDE DEF F, m, step
    <2>. QED BY <1>0, <1>1, Iterate
  <1>3. \A k \in 0 .. n + 1 : it[k] \in F /\ it[k + 1] \in F /\ it[k + 1] = body[it[k]]
    <2> SUFFICES ASSUME NEW k \in 0 .. n + 1
                 PROVE  it[k] \in F /\ it[k + 1] \in F /\ it[k + 1] = body[it[k]]
      OBVIOUS
    <2>1. k \in 0 .. m /\ k + 1 \in 0 .. m /\ k + 1 \in 1 .. m /\ (k + 1) - 1 = k
      OBVIOUS
    <2>2. it[k + 1] = step[k + 1][it[k]]
      BY <1>2, <2>1 DEF Iterates
    <2>. QED BY <2>1, <2>2
  <1> HIDE DEF F, m, step
  <1> DEFINE Fixed(k) == \A d \in D : rank[d] < k => it[k + 1][d] = it[k][d]
             K == {k \in 0 .. n + 1 : Fixed(k)}
  <1>4. 0 \in K
    OBVIOUS
  <1>5. ASSUME NEW k \in K, k < n + 1 PROVE k + 1 \in K
    <2>1. k \in 0 .. n + 1 /\ k + 1 \in 0 .. n + 1 /\ Fixed(k)
      BY <1>5
    <2> SUFFICES ASSUME NEW d \in D, rank[d] < k + 1
                 PROVE  it[(k + 1) + 1][d] = it[k + 1][d]
      BY <2>1
    <2>2. \A e \in D : rank[e] < rank[d] => it[k + 1][e] = it[k][e]
      <3> SUFFICES ASSUME NEW e \in D, rank[e] < rank[d] PROVE rank[e] < k
        BY <2>1
      <3>1. rank[e] \in 0 .. n /\ rank[d] \in 0 .. n
        OBVIOUS
      <3>. QED BY <2>1, <3>1
    <2>3. /\ it[k] \in F /\ it[k + 1] \in F /\ it[k + 1] = body[it[k]]
          /\ it[(k + 1) + 1] = body[it[k + 1]]
      BY <1>3, <2>1
    <2> DEFINE f == it[k + 1]
               g == it[k]
    <2>4. f \in [D -> S] /\ g \in [D -> S] /\ \A e \in D : rank[e] < rank[d] => f[e] = g[e]
      BY <2>2, <2>3 DEF F
    <2>5. body[f][d] = body[g][d]
      <3> HIDE DEF f, g
      <3>. QED BY <2>4 DEF Contracts
    <2>. QED BY <2>3, <2>5
  <1>6. K = 0 .. n + 1
    <2>1. K \in SUBSET (0 .. n + 1)
      OBVIOUS
    <2> HIDE DEF K
    <2>. QED BY <1>0, <1>4, <1>5, <2>1, Induct
  <1>7. n + 1 \in 0 .. n + 1 /\ Fixed(n + 1)
    <2>1. n + 1 \in K
      <3> HIDE DEF K
      <3>. QED BY <1>6
    <2>. QED BY <2>1
  <1>8. \A d \in D : rank[d] < n + 1
    <2> SUFFICES ASSUME NEW d \in D PROVE rank[d] < n + 1
      OBVIOUS
    <2>1. rank[d] \in 0 .. n
      OBVIOUS
    <2>. QED BY <2>1
  <1>9. it[(n + 1) + 1] = it[n + 1]
    <2>1. it[(n + 1) + 1] \in F /\ it[n + 1] \in F
      BY <1>3, <1>7
    <2>2. \A d \in D : it[(n + 1) + 1][d] = it[n + 1][d]
      BY <1>7, <1>8
    <2>. QED BY <2>1, <2>2 DEF F
  <1>. QED BY <1>3, <1>7, <1>9 DEF F
=============================================================================
