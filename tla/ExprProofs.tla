----------------------------- MODULE ExprProofs -----------------------------
(***************************************************************************)
(* Proofs about Expr: whatever the tokens are called and however long an    *)
(* expression is, a well-formed one is accepted with the value of the       *)
(* grammar.  The evaluator looks for the main operator by trying pairs of   *)
(* parentheses around each operator, the grammar counts open parentheses.   *)
(***************************************************************************)
EXTENDS Expr, Induction, SequenceTheorems

-----------------------------------------------------------------------------
(* Tokens. *)

Symbols == Numbers \cup Binary \cup {"(", ")"}
Typed   == Tokens \cup {"deref"}

LEMMA KindsDiffer ==
  /\ "(" # ")" /\ "(" \notin Binary /\ ")" \notin Binary
  /\ "(" \notin Numbers /\ ")" \notin Numbers /\ "?" \notin Numbers
  /\ "deref" \notin Numbers \cup Binary \cup {"(", ")"}
  /\ \A c \in Numbers : c \notin Binary
  BY ExprAssumption DEF Binary

-----------------------------------------------------------------------------
(* Open parentheses. *)

\* What one token adds.
Opens(c) == IF c = "(" THEN 1 ELSE IF c = ")" THEN -1 ELSE 0
\* The open parentheses after the first i tokens.
Open(t, i) == depth(t, 1, i)

LEMMA CountType ==
  ASSUME NEW t, NEW p \in Int, NEW i \in Int, NEW c
  PROVE  /\ IsFiniteSet({j \in p .. i : t[j] = c})
         /\ count(t, p, i, c) \in Nat
  <1>1. IsFiniteSet(p .. i)
    BY FS_Interval
  <1>2. {j \in p .. i : t[j] = c} \subseteq p .. i
    OBVIOUS
  <1>3. IsFiniteSet({j \in p .. i : t[j] = c})
    BY <1>1, <1>2, FS_Subset
  <1>. QED BY <1>3, FS_CardinalityType DEF count

LEMMA CountEmpty ==
  ASSUME NEW t, NEW p \in Int, NEW i \in Int, i < p, NEW c
  PROVE  count(t, p, i, c) = 0
  <1>1. {j \in p .. i : t[j] = c} = {}
    OBVIOUS
  <1>. QED BY <1>1, FS_EmptySet DEF count

LEMMA CountStep ==
  ASSUME NEW t, NEW p \in Int, NEW i \in Int, p <= i, NEW c
  PROVE  count(t, p, i, c) = count(t, p, i - 1, c) + (IF t[i] = c THEN 1 ELSE 0)
  <1> DEFINE S(k) == {j \in p .. k : t[j] = c}
  <1>1. IsFiniteSet(S(i - 1)) /\ Cardinality(S(i - 1)) \in Nat
    <2>1. PICK m \in Int : m = i - 1
      OBVIOUS
    <2>2. IsFiniteSet({j \in p .. m : t[j] = c}) /\ count(t, p, m, c) \in Nat
      BY CountType
    <2>. QED BY <2>1, <2>2 DEF count
  <1>2. CASE t[i] = c
    <2>1. S(i) = S(i - 1) \cup {i} /\ i \notin S(i - 1)
      BY <1>2
    <2> HIDE DEF S
    <2>2. Cardinality(S(i)) = Cardinality(S(i - 1)) + 1
      BY <1>1, <2>1, FS_AddElement
    <2>. QED BY <1>2, <2>2 DEF count, S
  <1>3. CASE t[i] # c
    <2>1. S(i) = S(i - 1)
      <3>1. \A j \in p .. i : t[j] = c => j \in p .. i - 1
        BY <1>3
      <3>. QED BY <3>1
    <2> HIDE DEF S
    <2>2. Cardinality(S(i)) = Cardinality(S(i - 1)) + 0
      BY <1>1, <2>1
    <2>. QED BY <1>3, <2>2 DEF count, S
  <1>. QED BY <1>2, <1>3

LEMMA DepthStep ==
  ASSUME NEW t, NEW p \in Int, NEW i \in Int, p <= i
  PROVE  /\ depth(t, p, i) \in Int /\ depth(t, p, i - 1) \in Int
         /\ depth(t, p, i) = depth(t, p, i - 1) + Opens(t[i])
  <1>1. /\ count(t, p, i, "(") \in Nat /\ count(t, p, i - 1, "(") \in Nat
        /\ count(t, p, i, ")") \in Nat /\ count(t, p, i - 1, ")") \in Nat
    <2>1. i - 1 \in Int
      OBVIOUS
    <2>. QED BY <2>1, CountType
  <1>2. /\ count(t, p, i, "(") = count(t, p, i - 1, "(") + (IF t[i] = "(" THEN 1 ELSE 0)
        /\ count(t, p, i, ")") = count(t, p, i - 1, ")") + (IF t[i] = ")" THEN 1 ELSE 0)
    <2>1. ASSUME NEW c
          PROVE  count(t, p, i, c) = count(t, p, i - 1, c) + (IF t[i] = c THEN 1 ELSE 0)
      BY CountStep
    <2>. QED BY <2>1
  <1>. QED BY <1>1, <1>2, KindsDiffer DEF depth, Opens

\* The depth within a segment is the difference of the depths at its ends.
LEMMA DepthFrom ==
  ASSUME NEW t, NEW p \in Nat, p >= 1, NEW i \in Nat, i >= p - 1
  PROVE  /\ Open(t, i) \in Int /\ Open(t, p - 1) \in Int
         /\ depth(t, p, i) = Open(t, i) - Open(t, p - 1)
  <1> DEFINE P(k) == depth(t, p, k) = Open(t, k) - Open(t, p - 1)
             n == i - (p - 1)
             B == {k \in 0 .. n : P(p - 1 + k)}
  <1>0. n \in Nat
    OBVIOUS
  <1>1. \A k \in 0 .. n : Open(t, p - 1 + k) \in Int
    <2> SUFFICES ASSUME NEW k \in 0 .. n PROVE Open(t, p - 1 + k) \in Int
      OBVIOUS
    <2>1. PICK m \in Int : m = p - 1 + k
      OBVIOUS
    <2>2. count(t, 1, m, "(") \in Nat /\ count(t, 1, m, ")") \in Nat
      <3>1. 1 \in Int
        OBVIOUS
      <3>. QED BY <3>1, CountType
    <2>. QED BY <2>1, <2>2 DEF depth, Open
  <1>2. 0 \in B
    <2>1. depth(t, p, p - 1) = 0
      <3>1. count(t, p, p - 1, "(") = 0 /\ count(t, p, p - 1, ")") = 0
        BY CountEmpty
      <3>. QED BY <3>1 DEF depth
    <2>2. p - 1 + 0 = p - 1 /\ 0 \in 0 .. n
      BY <1>0
    <2>3. Open(t, p - 1) \in Int
      BY <1>1, <2>2
    <2>4. P(p - 1 + 0)
      BY <2>1, <2>2, <2>3
    <2>. QED BY <2>2, <2>4
  <1>3. ASSUME NEW k \in B, k < n PROVE k + 1 \in B
    <2>1. k \in 0 .. n /\ k + 1 \in 0 .. n /\ P(p - 1 + k)
      BY <1>3
    <2>2. /\ p - 1 + (k + 1) \in Int /\ p <= p - 1 + (k + 1) /\ 1 <= p - 1 + (k + 1)
          /\ (p - 1 + (k + 1)) - 1 = p - 1 + k
      BY <2>1
    <2>3. /\ depth(t, p, p - 1 + k) \in Int
          /\ depth(t, p, p - 1 + (k + 1)) = depth(t, p, p - 1 + k) + Opens(t[p - 1 + (k + 1)])
      BY <2>2, DepthStep
    <2>4. Open(t, p - 1 + (k + 1)) = Open(t, p - 1 + k) + Opens(t[p - 1 + (k + 1)])
      BY <2>2, DepthStep DEF Open
    <2>5. Open(t, p - 1 + k) \in Int /\ Open(t, p - 1) \in Int
      <3>1. 0 \in 0 .. n /\ p - 1 + 0 = p - 1
        BY <1>0
      <3>. QED BY <1>1, <2>1, <3>1
    <2>6. Opens(t[p - 1 + (k + 1)]) \in Int
      BY DEF Opens
    <2>7. P(p - 1 + (k + 1))
      BY <2>1, <2>3, <2>4, <2>5, <2>6
    <2>. QED BY <2>1, <2>7
  <1>4. B = 0 .. n
    <2>1. B \in SUBSET (0 .. n)
      OBVIOUS
    <2> HIDE DEF B, n
    <2>. QED BY <1>0, <1>2, <1>3, <2>1, Induct
  <1>5. n \in B /\ p - 1 + n = i
    <2>1. n \in 0 .. n
      BY <1>0
    <2> HIDE DEF B
    <2>. QED BY <1>4, <2>1 DEF n
  <1>6. 0 \in 0 .. n /\ n \in 0 .. n /\ p - 1 + 0 = p - 1
    BY <1>0
  <1>7. P(i)
    BY <1>5
  <1>. QED BY <1>1, <1>5, <1>6, <1>7

-----------------------------------------------------------------------------
(* Segments: the parts of a well-formed expression that are expressions.     *)

\* The token at i, in a segment from p, is an operand's first.
Expects(t, p, i) == i = p \/ t[i - 1] \in Binary \cup {"("}
Segment(t, p, q) ==
  /\ p \in Nat /\ q \in Nat /\ 1 <= p /\ p <= q
  /\ \A i \in p .. q :
       t[i] \in IF Expects(t, p, i) THEN Numbers \cup {"("} ELSE Binary \cup {")"}
  /\ \A i \in p .. q : Open(t, i) >= Open(t, p - 1)
  /\ Open(t, q) = Open(t, p - 1)
  /\ t[q] \in Numbers \cup {")"}

LEMMA SegmentDepth ==
  ASSUME NEW t, NEW p, NEW q, Segment(t, p, q)
  PROVE  /\ \A i \in p - 1 .. q : /\ Open(t, i) \in Int
                                  /\ depth(t, p, i) = Open(t, i) - Open(t, p - 1)
                                  /\ Open(t, i) >= Open(t, p - 1)
         /\ \A i \in p .. q : Open(t, i) = Open(t, i - 1) + Opens(t[i])
         /\ depth(t, p, q) = 0
  <1>0. p \in Nat /\ q \in Nat /\ 1 <= p /\ p <= q /\ p - 1 \in Nat
    BY DEF Segment
  <1>1. ASSUME NEW i \in p - 1 .. q
        PROVE  /\ Open(t, i) \in Int /\ Open(t, p - 1) \in Int
               /\ depth(t, p, i) = Open(t, i) - Open(t, p - 1)
    <2>1. i \in Nat /\ i >= p - 1
      BY <1>0
    <2>. QED BY <1>0, <2>1, DepthFrom
  <1>2. ASSUME NEW i \in p - 1 .. q PROVE Open(t, i) >= Open(t, p - 1)
    <2>1. i = p - 1 \/ i \in p .. q
      BY <1>0
    <2>. QED BY <1>1, <2>1 DEF Segment
  <1>3. ASSUME NEW i \in p .. q PROVE Open(t, i) = Open(t, i - 1) + Opens(t[i])
    <2>1. i \in Int /\ 1 \in Int /\ 1 <= i
      BY <1>0
    <2>. QED BY <2>1, DepthStep DEF Open
  <1>4. depth(t, p, q) = 0
    <2>1. q \in p - 1 .. q
      BY <1>0
    <2>. QED BY <1>1, <2>1 DEF Segment
  <1>. QED BY <1>1, <1>2, <1>3, <1>4

LEMMA SegmentTokens ==
  ASSUME NEW t, NEW p, NEW q, Segment(t, p, q)
  PROVE  /\ p \in Nat /\ q \in Nat /\ 1 <= p /\ p <= q
         /\ t[p] \in Numbers \cup {"("} /\ t[q] \in Numbers \cup {")"}
         /\ \A i \in p .. q : t[i] \in Symbols
         /\ \A i \in p .. q : t[i] \in Binary \cup {"("} =>
                             i < q /\ i + 1 \in p .. q /\ t[i + 1] \in Numbers \cup {"("}
         /\ \A i \in p .. q : t[i] \in Numbers \cup {")"} /\ i < q =>
                             i + 1 \in p .. q /\ t[i + 1] \in Binary \cup {")"}
         /\ \A i \in p .. q : t[i] \in Binary \cup {")"} =>
                             i > p /\ i - 1 \in p .. q /\ t[i - 1] \in Numbers \cup {")"}
         /\ \A i \in p .. q : t[i] \in Numbers \cup {"("} /\ i > p =>
                             i - 1 \in p .. q /\ t[i - 1] \in Binary \cup {"("}
  <1>1. /\ p \in Nat /\ q \in Nat /\ 1 <= p /\ p <= q
        /\ t[q] \in Numbers \cup {")"}
        /\ \A i \in p .. q :
             t[i] \in IF Expects(t, p, i) THEN Numbers \cup {"("} ELSE Binary \cup {")"}
    BY DEF Segment
  <1>2. p \in p .. q /\ Expects(t, p, p)
    BY <1>1 DEF Expects
  <1>3. ASSUME NEW i \in p .. q PROVE t[i] \in Symbols
    BY <1>1 DEF Symbols
  <1>4. ASSUME NEW i \in p .. q, i < q
        PROVE  /\ i + 1 \in p .. q
               /\ Expects(t, p, i + 1) <=> t[i] \in Binary \cup {"("}
    <2>1. i + 1 \in p .. q /\ i + 1 # p /\ (i + 1) - 1 = i
      BY <1>1, <1>4
    <2>. QED BY <2>1 DEF Expects
  <1>5. ASSUME NEW i \in p .. q, i > p
        PROVE  /\ i - 1 \in p .. q
               /\ Expects(t, p, i) <=> t[i - 1] \in Binary \cup {"("}
    <2>1. i - 1 \in p .. q /\ i # p
      BY <1>1, <1>5
    <2>. QED BY <2>1 DEF Expects
  <1>6. ASSUME NEW i \in p .. q, t[i] \in Binary \cup {"("}
        PROVE  i < q /\ i + 1 \in p .. q /\ t[i + 1] \in Numbers \cup {"("}
    <2>1. i < q
      BY <1>1, <1>6, KindsDiffer
    <2>. QED BY <1>1, <1>4, <1>6, <2>1
  <1>7. ASSUME NEW i \in p .. q, t[i] \in Numbers \cup {")"}, i < q
        PROVE  i + 1 \in p .. q /\ t[i + 1] \in Binary \cup {")"}
    <2>1. ~(t[i] \in Binary \cup {"("})
      BY <1>7, KindsDiffer
    <2>. QED BY <1>1, <1>4, <1>7, <2>1
  <1>8. ASSUME NEW i \in p .. q, t[i] \in Binary \cup {")"}
        PROVE  i > p /\ i - 1 \in p .. q /\ t[i - 1] \in Numbers \cup {")"}
    <2>1. ~(t[i] \in Numbers \cup {"("})
      BY <1>8, KindsDiffer
    <2>2. i > p
      BY <1>1, <1>2, <2>1
    <2>3. i - 1 \in p .. q /\ ~(t[i - 1] \in Binary \cup {"("})
      BY <1>1, <1>5, <2>1, <2>2
    <2>. QED BY <1>3, <2>2, <2>3 DEF Symbols
  <1>9. ASSUME NEW i \in p .. q, t[i] \in Numbers \cup {"("}, i > p
        PROVE  i - 1 \in p .. q /\ t[i - 1] \in Binary \cup {"("}
    <2>1. ~(t[i] \in Binary \cup {")"})
      BY <1>9, KindsDiffer
    <2>. QED BY <1>1, <1>5, <1>9, <2>1
  <1>. QED BY <1>1, <1>2, <1>3, <1>6, <1>7, <1>8, <1>9

LEMMA SegmentBalanced ==
  ASSUME NEW t, NEW p, NEW q, Segment(t, p, q)
  PROVE  ~unbalanced(t, p, q)
  <1>1. ASSUME NEW i \in p .. q PROVE ~(depth(t, p, i) < 0)
    <2>1. p \in Nat /\ q \in Nat /\ p <= q
      BY DEF Segment
    <2>2. i \in p - 1 .. q /\ p - 1 \in p - 1 .. q
      BY <2>1
    <2>3. /\ Open(t, i) \in Int /\ Open(t, p - 1) \in Int
          /\ depth(t, p, i) = Open(t, i) - Open(t, p - 1) /\ Open(t, i) >= Open(t, p - 1)
      BY <2>2, SegmentDepth
    <2>. QED BY <2>3
  <1>. QED BY <1>1, SegmentDepth DEF unbalanced

\* The operators outside all parentheses.
Outer(t, p, q) == {i \in p .. q : t[i] \in Binary /\ depth(t, p, i) = 0}

LEMMA SurroundedHasNone ==
  ASSUME NEW t, NEW p, NEW q, Segment(t, p, q), surrounded(t, p, q)
  PROVE  Outer(t, p, q) = {}
  <1> SUFFICES ASSUME NEW i \in p .. q, t[i] \in Binary, depth(t, p, i) = 0 PROVE FALSE
    BY DEF Outer
  <1>1. i < q /\ p \in Nat /\ q \in Nat
    BY SegmentTokens
  <1>2. i \in p .. q - 1
    BY <1>1
  <1>. QED BY <1>2 DEF surrounded

LEMMA OthersHaveOne ==
  ASSUME NEW t, NEW p, NEW q, Segment(t, p, q), p < q, ~surrounded(t, p, q)
  PROVE  Outer(t, p, q) # {}
  <1>0. p \in Nat /\ q \in Nat /\ 1 <= p
    BY SegmentTokens
  <1>1. ASSUME NEW i \in p .. q
        PROVE  /\ depth(t, p, i) \in Int /\ depth(t, p, i) >= 0
               /\ i > p => depth(t, p, i) = depth(t, p, i - 1) + Opens(t[i])
               /\ i = p => depth(t, p, i) = Opens(t[i])
    <2>1. i \in p - 1 .. q /\ i - 1 \in p - 1 .. q /\ p - 1 \in p - 1 .. q
      BY <1>0
    <2>2. Opens(t[i]) \in Int
      BY DEF Opens
    <2>3. /\ Open(t, i) \in Int /\ Open(t, p - 1) \in Int /\ Open(t, i - 1) \in Int
          /\ depth(t, p, i) = Open(t, i) - Open(t, p - 1) /\ Open(t, i) >= Open(t, p - 1)
          /\ depth(t, p, i - 1) = Open(t, i - 1) - Open(t, p - 1)
          /\ Open(t, i) = Open(t, i - 1) + Opens(t[i])
      BY <2>1, SegmentDepth
    <2>. QED BY <2>2, <2>3
  <1>2. SUFFICES ASSUME NEW i \in p .. q, i < q, depth(t, p, i) = 0
                 PROVE  \E k \in p .. q : t[k] \in Binary /\ depth(t, p, k) = 0
    <2>1. CASE t[q] = ")"
      <3>1. CASE t[p] = "("
        <4>1. PICK i \in p .. q - 1 : ~(depth(t, p, i) > 0)
          BY <2>1, <3>1, SegmentDepth DEF surrounded, bracketed
        <4>2. i \in p .. q /\ i < q
          BY <1>0
        <4>3. depth(t, p, i) = 0
          BY <1>1, <4>1, <4>2
        <4>. QED BY <1>2, <4>2, <4>3 DEF Outer
      <3>2. CASE t[p] # "("
        <4>1. t[p] \in Numbers /\ p \in p .. q
          BY <1>0, <3>2, SegmentTokens
        <4>2. depth(t, p, p) = 0
          BY <1>1, <4>1, KindsDiffer DEF Opens
        <4>. QED BY <1>2, <4>1, <4>2 DEF Outer
      <3>. QED BY <3>1, <3>2
    <2>2. CASE t[q] # ")"
      <3>1. t[q] \in Numbers /\ q \in p .. q
        BY <1>0, <2>2, SegmentTokens
      <3>2. q - 1 \in p .. q /\ q - 1 < q
        BY <1>0
      <3>3. depth(t, p, q - 1) = 0
        <4>1. depth(t, p, q) = 0 /\ Opens(t[q]) = 0
          BY <3>1, SegmentDepth, KindsDiffer DEF Opens
        <4>2. depth(t, p, q - 1) \in Int /\ depth(t, p, q) = depth(t, p, q - 1) + Opens(t[q])
          BY <1>1, <3>1, <3>2
        <4>. QED BY <4>1, <4>2
      <3>. QED BY <1>2, <3>2, <3>3 DEF Outer
    <2>. QED BY <2>1, <2>2
  <1>3. CASE t[i] \in Binary
    BY <1>2, <1>3
  <1>4. CASE t[i] = "("
    <2>1. Opens(t[i]) = 1
      BY <1>4 DEF Opens
    <2>2. CASE i = p
      BY <1>1, <1>2, <2>1, <2>2
    <2>3. CASE i > p
      <3>1. i - 1 \in p .. q
        BY <1>0, <2>3
      <3>2. depth(t, p, i - 1) \in Int /\ depth(t, p, i - 1) >= 0
        BY <1>1, <3>1
      <3>3. depth(t, p, i) = depth(t, p, i - 1) + 1
        BY <1>1, <2>1, <2>3
      <3>. QED BY <1>2, <3>2, <3>3
    <2>. QED BY <1>0, <2>2, <2>3
  <1>5. CASE t[i] \in Numbers \cup {")"}
    <2>1. i + 1 \in p .. q /\ t[i + 1] \in Binary \cup {")"}
      BY <1>2, <1>5, SegmentTokens
    <2>2. i + 1 > p /\ (i + 1) - 1 = i
      BY <1>0
    <2>3. depth(t, p, i + 1) = Opens(t[i + 1]) /\ depth(t, p, i + 1) >= 0
      <3>1. Opens(t[i + 1]) \in Int
        BY DEF Opens
      <3>. QED BY <1>1, <1>2, <2>1, <2>2, <3>1
    <2>4. t[i + 1] # ")"
      BY <2>3 DEF Opens
    <2>5. t[i + 1] \in Binary /\ Opens(t[i + 1]) = 0
      BY <2>1, <2>4, KindsDiffer DEF Opens
    <2>. QED BY <2>1, <2>3, <2>5
  <1>6. t[i] \in Symbols
    BY SegmentTokens
  <1>. QED BY <1>3, <1>4, <1>5, <1>6 DEF Symbols

\* Trying the pairs of parentheses around an operator counts the open ones.
LEMMA EnclosedIs ==
  ASSUME NEW t, NEW p, NEW q, Segment(t, p, q), NEW i \in p .. q, t[i] \in Binary
  PROVE  enclosed(t, p, q, i) <=> depth(t, p, i) > 0
  <1>0. p \in Nat /\ q \in Nat /\ 1 <= p /\ p <= q /\ i \in Nat /\ p < i /\ i < q
    BY SegmentTokens
  <1>1. \A x \in p - 1 .. q : Open(t, x) \in Int /\ Open(t, x) >= Open(t, p - 1)
    BY SegmentDepth
  <1>2. /\ p - 1 \in p - 1 .. q /\ i \in p - 1 .. q /\ q \in p - 1 .. q
        /\ depth(t, p, i) = Open(t, i) - Open(t, p - 1)
        /\ Open(t, q) = Open(t, p - 1)
    <2>1. p - 1 \in p - 1 .. q /\ i \in p - 1 .. q /\ q \in p - 1 .. q
      BY <1>0
    <2>. QED BY <2>1, SegmentDepth DEF Segment
  <1>3. ASSUME NEW j \in p .. q, NEW x \in j .. q
        PROVE  /\ depth(t, j, x) = Open(t, x) - Open(t, j - 1)
               /\ x \in p - 1 .. q /\ j - 1 \in p - 1 .. q
    <2>1. j \in Nat /\ j >= 1 /\ x \in Nat /\ x >= j - 1
      BY <1>0
    <2>. QED BY <1>0, <2>1, DepthFrom
  <1>4. ASSUME enclosed(t, p, q, i) PROVE depth(t, p, i) > 0
    <2>1. PICK j \in p .. i - 1, k \in i + 1 .. q : surrounded(t, j, k)
      BY <1>4 DEF enclosed, opens, closes
    <2>2. j \in p .. q /\ i \in j .. q /\ i \in j .. k - 1
      BY <1>0
    <2>3. depth(t, j, i) > 0
      BY <2>1, <2>2 DEF surrounded
    <2>4. /\ depth(t, j, i) = Open(t, i) - Open(t, j - 1) /\ j - 1 \in p - 1 .. q
      BY <1>3, <2>2
    <2>5. /\ Open(t, i) \in Int /\ Open(t, j - 1) \in Int /\ Open(t, p - 1) \in Int
          /\ Open(t, j - 1) >= Open(t, p - 1)
      BY <1>1, <1>2, <2>4
    <2>. QED BY <1>2, <2>3, <2>4, <2>5
  <1>5. ASSUME depth(t, p, i) > 0 PROVE enclosed(t, p, q, i)
    <2>0. Open(t, i) > Open(t, p - 1) /\ Open(t, i) \in Int
      BY <1>1, <1>2, <1>5
    <2> DEFINE before == {x \in p - 1 .. i - 1 : Open(t, x) < Open(t, i)}
               after  == {x \in i + 1 .. q : Open(t, x) < Open(t, i)}
    <2>1. PICK j0 \in before : \A x \in before : j0 >= x
      <3>1. before \in SUBSET (0 .. q)
        BY <1>0
      <3>2. p - 1 \in before
        BY <1>0, <1>1, <1>2, <2>0
      <3> HIDE DEF before
      <3>. QED BY <1>0, <3>1, <3>2, Extremes
    <2>2. PICK k \in after : \A x \in after : k <= x
      <3>1. after \in SUBSET (0 .. q)
        BY <1>0
      <3>2. q \in after
        BY <1>0, <1>1, <1>2, <2>0
      <3> HIDE DEF after
      <3>. QED BY <1>0, <3>1, <3>2, Extremes
    <2> DEFINE j == j0 + 1
    <2>3. /\ j0 \in p - 1 .. q /\ Open(t, j0) < Open(t, i) /\ Open(t, j0) \in Int
          /\ j \in p .. i /\ j \in p .. q /\ j - 1 = j0 /\ j \in p - 1 .. q
      BY <1>0, <1>1
    <2>4. /\ k \in i + 1 .. q /\ Open(t, k) < Open(t, i) /\ Open(t, k) \in Int
          /\ k \in p .. q /\ k - 1 \in i .. q
      BY <1>0, <1>1
    <2>5. ASSUME NEW x \in j .. k - 1 PROVE Open(t, x) >= Open(t, i) /\ Open(t, x) \in Int
      <3>1. x \in p - 1 .. q
        BY <1>0, <2>3, <2>4
      <3>2. Open(t, x) \in Int
        BY <1>1, <3>1
      <3>3. CASE x = i
        BY <3>2, <3>3
      <3>4. CASE x < i
        <4>1. x \in p - 1 .. i - 1 /\ ~(j0 >= x)
          BY <1>0, <2>3, <3>4
        <4>. QED BY <2>0, <2>1, <3>2, <4>1
      <3>5. CASE x > i
        <4>1. x \in i + 1 .. q /\ ~(k <= x)
          BY <1>0, <2>4, <3>5
        <4>. QED BY <2>0, <2>2, <3>2, <4>1
      <3>. QED BY <1>0, <2>3, <3>3, <3>4, <3>5
    <2>6. /\ Open(t, j) = Open(t, j - 1) + Opens(t[j])
          /\ Open(t, k) = Open(t, k - 1) + Opens(t[k])
      BY <2>3, <2>4, SegmentDepth
    <2>7. /\ j \in j .. k - 1 /\ i \in j .. k - 1 /\ k - 1 \in j .. k - 1
      BY <1>0, <2>3, <2>4
    <2>8. Opens(t[j]) = 1 /\ Open(t, j0) = Open(t, i) - 1
      <3>1. Opens(t[j]) > 0
        BY <2>0, <2>3, <2>5, <2>6, <2>7 DEF Opens
      <3>2. Opens(t[j]) = 1
        BY <3>1 DEF Opens
      <3>. QED BY <2>0, <2>3, <2>5, <2>6, <2>7, <3>2
    <2>9. Opens(t[k]) = -1 /\ Open(t, k) = Open(t, i) - 1
      <3>1. Open(t, k - 1) \in Int /\ Open(t, k - 1) >= Open(t, i)
        BY <2>5, <2>7
      <3>2. Opens(t[k]) < 0
        BY <2>0, <2>4, <2>6, <3>1 DEF Opens
      <3>3. Opens(t[k]) = -1
        BY <3>2 DEF Opens
      <3>. QED BY <2>0, <2>4, <2>6, <3>1, <3>3
    <2>10. t[j] = "(" /\ t[k] = ")"
      BY <2>8, <2>9 DEF Opens
    <2>11. j # i
      BY <2>10, KindsDiffer
    <2>12. j \in opens(t, p, i) /\ k \in closes(t, i, q)
      <3>1. j \in p .. i - 1
        BY <1>0, <2>3, <2>11
      <3>. QED BY <2>4, <2>10, <3>1 DEF opens, closes
    <2>13. depth(t, j, k) = 0
      <3>1. k \in j .. q
        BY <2>3, <2>4
      <3>. QED BY <1>3, <2>0, <2>3, <2>4, <2>8, <2>9, <3>1
    <2>14. ASSUME NEW x \in j .. k - 1 PROVE depth(t, j, x) > 0
      <3>1. x \in j .. q
        BY <1>0, <2>3, <2>4
      <3>2. depth(t, j, x) = Open(t, x) - Open(t, j - 1)
        BY <1>3, <2>3, <3>1
      <3>. QED BY <2>0, <2>3, <2>5, <2>8, <3>2
    <2>15. surrounded(t, j, k)
      BY <2>10, <2>13, <2>14 DEF surrounded, bracketed
    <2>. QED BY <2>12, <2>15 DEF enclosed
  <1>. QED BY <1>4, <1>5

-----------------------------------------------------------------------------
(* The parts of a segment are segments.                                      *)

LEMMA InnerSegment ==
  ASSUME NEW t, NEW p, NEW q, Segment(t, p, q), surrounded(t, p, q), p < q
  PROVE  Segment(t, p + 1, q - 1)
  <1>1. p \in Nat /\ q \in Nat /\ 1 <= p /\ p \in p .. q /\ q \in p .. q
    BY SegmentTokens
  <1>2. t[p] = "(" /\ t[q] = ")"
    BY DEF surrounded, bracketed
  <1>3. p + 1 \in p .. q /\ t[p + 1] \in Numbers \cup {"("} /\ p + 1 # q
    <2>1. p + 1 \in p .. q /\ t[p + 1] \in Numbers \cup {"("}
      BY <1>1, <1>2, SegmentTokens
    <2>. QED BY <1>2, <2>1, KindsDiffer
  <1>4. q - 1 \in p + 1 .. q /\ t[q - 1] \in Numbers \cup {")"}
    <2>1. t[q - 1] \in Numbers \cup {")"}
      BY <1>1, <1>2, SegmentTokens
    <2>. QED BY <1>1, <1>3, <2>1
  <1>5. ASSUME NEW i \in p + 1 .. q - 1
        PROVE  t[i] \in IF Expects(t, p + 1, i) THEN Numbers \cup {"("} ELSE Binary \cup {")"}
    <2>1. i \in p .. q /\ i # p
      BY <1>1
    <2>2. Expects(t, p + 1, i) <=> Expects(t, p, i)
      <3>1. i = p + 1 => t[i - 1] = "("
        BY <1>1, <1>2
      <3>. QED BY <2>1, <3>1 DEF Expects
    <2>. QED BY <2>1, <2>2 DEF Segment
  <1>6. /\ Open(t, p) = Open(t, p - 1) + 1 /\ Open(t, p - 1) \in Int
        /\ Open(t, q) = Open(t, q - 1) - 1 /\ Open(t, q - 1) \in Int
        /\ Open(t, q) = Open(t, p - 1)
    <2>1. Opens(t[p]) = 1 /\ Opens(t[q]) = -1
      BY <1>2 DEF Opens
    <2>2. p - 1 \in p - 1 .. q /\ q - 1 \in p - 1 .. q
      BY <1>1, <1>4
    <2>3. /\ Open(t, p) = Open(t, p - 1) + Opens(t[p]) /\ Open(t, p - 1) \in Int
          /\ Open(t, q) = Open(t, q - 1) + Opens(t[q]) /\ Open(t, q - 1) \in Int
      BY <1>1, <2>2, SegmentDepth
    <2>. QED BY <2>1, <2>3 DEF Segment
  <1>7. ASSUME NEW i \in p + 1 .. q - 1 PROVE Open(t, i) >= Open(t, p)
    <2>1. i \in p .. q - 1 /\ i \in p - 1 .. q
      BY <1>1
    <2>2. depth(t, p, i) > 0
      BY <2>1 DEF surrounded
    <2>3. Open(t, i) \in Int /\ depth(t, p, i) = Open(t, i) - Open(t, p - 1)
      BY <2>1, SegmentDepth
    <2>. QED BY <1>6, <2>2, <2>3
  <1>8. (p + 1) - 1 = p /\ p + 1 \in Nat /\ q - 1 \in Nat /\ 1 <= p + 1 /\ p + 1 <= q - 1
    BY <1>1, <1>3, <1>4
  <1>9. Open(t, q - 1) = Open(t, p)
    BY <1>6
  <1>. QED BY <1>4, <1>5, <1>7, <1>8, <1>9 DEF Segment

LEMMA OuterSegments ==
  ASSUME NEW t, NEW p, NEW q, Segment(t, p, q), NEW m \in Outer(t, p, q)
  PROVE  /\ p < m /\ m < q
         /\ Segment(t, p, m - 1) /\ Segment(t, m + 1, q)
  <1>1. p \in Nat /\ q \in Nat /\ 1 <= p /\ m \in p .. q /\ t[m] \in Binary
    BY SegmentTokens DEF Outer
  <1>2. /\ m < q /\ m + 1 \in p .. q /\ t[m + 1] \in Numbers \cup {"("}
        /\ m > p /\ m - 1 \in p .. q /\ t[m - 1] \in Numbers \cup {")"}
    BY <1>1, SegmentTokens
  <1>3. /\ Open(t, m) = Open(t, p - 1) /\ Open(t, m - 1) = Open(t, p - 1)
        /\ Open(t, p - 1) \in Int
    <2>1. m \in p - 1 .. q /\ m - 1 \in p - 1 .. q /\ p - 1 \in p - 1 .. q
      BY <1>1, <1>2
    <2>2. Opens(t[m]) = 0 /\ depth(t, p, m) = 0
      BY <1>1, KindsDiffer DEF Opens, Outer
    <2>3. /\ Open(t, m) \in Int /\ Open(t, m - 1) \in Int /\ Open(t, p - 1) \in Int
          /\ depth(t, p, m) = Open(t, m) - Open(t, p - 1)
          /\ Open(t, m) = Open(t, m - 1) + Opens(t[m])
      BY <1>1, <2>1, SegmentDepth
    <2>. QED BY <2>2, <2>3
  <1>4. Segment(t, p, m - 1)
    <2>1. \A i \in p .. m - 1 : i \in p .. q
      BY <1>1
    <2>2. m - 1 \in Nat /\ p <= m - 1
      BY <1>1, <1>2
    <2>. QED BY <1>1, <1>2, <1>3, <2>1, <2>2 DEF Segment
  <1>5. Segment(t, m + 1, q)
    <2>1. ASSUME NEW i \in m + 1 .. q
          PROVE  /\ t[i] \in IF Expects(t, m + 1, i) THEN Numbers \cup {"("}
                                                   ELSE Binary \cup {")"}
                 /\ Open(t, i) >= Open(t, m)
      <3>1. i \in p .. q /\ i # p
        BY <1>1
      <3>2. Expects(t, m + 1, i) <=> Expects(t, p, i)
        <4>1. i = m + 1 => t[i - 1] \in Binary
          BY <1>1
        <4>. QED BY <3>1, <4>1 DEF Expects
      <3>. QED BY <1>3, <3>1, <3>2 DEF Segment
    <2>2. (m + 1) - 1 = m /\ m + 1 \in Nat /\ 1 <= m + 1 /\ m + 1 <= q
      BY <1>1, <1>2
    <2>3. t[q] \in Numbers \cup {")"} /\ Open(t, q) = Open(t, m)
      BY <1>3 DEF Segment
    <2>. QED BY <1>1, <2>1, <2>2, <2>3 DEF Segment
  <1>. QED BY <1>2, <1>4, <1>5

-----------------------------------------------------------------------------
(* The main operator.                                                        *)

LEMMA MaxIs ==
  ASSUME NEW n \in Nat, NEW S \in SUBSET (0 .. n), S # {}
  PROVE  Max(S) \in S /\ \A x \in S : Max(S) >= x
  <1>1. \E x \in S : \A y \in S : x >= y
    BY Extremes
  <1>. QED BY <1>1 DEF Max

\* One step of the scan.
Scanned(t, p, q, i, m) ==
  IF /\ i \in operators(t, p, q) /\ ~enclosed(t, p, q, i)
     /\ m = 0 \/ replaces(t[m], t[i])
  THEN i ELSE m

Scan(f, t, p, q) ==
  /\ f \in [p - 1 .. q -> {0} \cup operators(t, p, q)]
  /\ f[p - 1] = 0
  /\ \A i \in p .. q : f[i] = Scanned(t, p, q, i, f[i - 1])

LEMMA ScanIs ==
  ASSUME NEW t, NEW p \in Nat, NEW q \in Nat, 1 <= p, p <= q
  PROVE  \E f : Scan(f, t, p, q) /\ main_op(t, p, q) = f[q]
  <1> DEFINE Body(g) == [i \in p - 1 .. q |->
               IF i < p THEN 0
               ELSE LET m == g[i - 1]
                    IN  IF /\ i \in operators(t, p, q) /\ ~enclosed(t, p, q, i)
                           /\ m = 0 \/ replaces(t[m], t[i])
                        THEN i ELSE m]
             n    == q - (p - 1)
             S    == {0} \cup operators(t, p, q)
             step == [k \in 1 .. n |-> [x \in S |-> Scanned(t, p, q, p - 1 + k, x)]]
  <1>1. n \in Nat /\ 0 \in S
    OBVIOUS
  <1>2. Steps(n, S, step)
    <2> SUFFICES ASSUME NEW k \in 1 .. n, NEW x \in S PROVE step[k][x] \in S
      BY DEF Steps
    <2>1. step[k][x] = Scanned(t, p, q, p - 1 + k, x)
      OBVIOUS
    <2>. QED BY <2>1 DEF Scanned
  <1>3. PICK it \in [0 .. n -> S] : Iterates(it, n, 0, step)
    <2> HIDE DEF S, n, step
    <2>. QED BY <1>1, <1>2, Iterate
  <1> DEFINE f == [i \in p - 1 .. q |-> it[i - (p - 1)]]
  <1>4. f \in [p - 1 .. q -> S]
    <2> SUFFICES ASSUME NEW i \in p - 1 .. q PROVE it[i - (p - 1)] \in S
      OBVIOUS
    <2>1. i - (p - 1) \in 0 .. n
      OBVIOUS
    <2> HIDE DEF S, n
    <2>. QED BY <2>1
  <1>5. f[p - 1] = 0
    <2>1. p - 1 \in p - 1 .. q /\ (p - 1) - (p - 1) = 0
      OBVIOUS
    <2>2. it[0] = 0
      BY <1>3 DEF Iterates
    <2>. QED BY <2>1, <2>2
  <1>6. ASSUME NEW i \in p .. q PROVE f[i] = Scanned(t, p, q, i, f[i - 1])
    <2> DEFINE k == i - (p - 1)
    <2>1. /\ k \in 1 .. n /\ k - 1 \in 0 .. n /\ p - 1 + k = i
          /\ i \in p - 1 .. q /\ i - 1 \in p - 1 .. q /\ (i - 1) - (p - 1) = k - 1
      OBVIOUS
    <2>2. it[k] = step[k][it[k - 1]] /\ it[k - 1] \in S
      BY <1>3, <2>1 DEF Iterates
    <2>3. step[k][it[k - 1]] = Scanned(t, p, q, i, it[k - 1])
      BY <2>1, <2>2
    <2>4. f[i] = it[k] /\ f[i - 1] = it[k - 1]
      BY <2>1
    <2>. QED BY <2>2, <2>3, <2>4
  <1> HIDE DEF f
  <1>7. f = Body(f)
    <2>1. ASSUME NEW i \in p - 1 .. q PROVE f[i] = Body(f)[i]
      <3>1. CASE i < p
        <4>1. i = p - 1
          BY <3>1
        <4>. QED BY <1>5, <3>1, <4>1
      <3>2. CASE ~(i < p)
        <4>1. i \in p .. q
          BY <3>2
        <4>. QED BY <1>6, <3>2, <4>1 DEF Scanned
      <3>. QED BY <3>1, <3>2
    <2>. QED BY <1>4, <2>1
  <1> DEFINE scan == CHOOSE g : g = Body(g)
  <1>8. scan = Body(scan)
    <2> HIDE DEF Body
    <2>. QED BY <1>7
  <1>9. main_op(t, p, q) = scan[q]
    BY DEF main_op
  <1> HIDE DEF scan
  <1> DEFINE K == {k \in 0 .. n : scan[p - 1 + k] = f[p - 1 + k]}
  <1>10. 0 \in K
    <2>1. p - 1 + 0 = p - 1 /\ p - 1 < p /\ p - 1 \in p - 1 .. q /\ 0 \in 0 .. n
      OBVIOUS
    <2>2. scan[p - 1] = 0
      BY <1>8, <2>1
    <2>. QED BY <1>5, <2>1, <2>2
  <1>11. ASSUME NEW k \in K, k < n PROVE k + 1 \in K
    <2> DEFINE i == p - 1 + (k + 1)
    <2>1. /\ k \in 0 .. n /\ k + 1 \in 0 .. n /\ i \in p .. q /\ i \in p - 1 .. q
          /\ i - 1 = p - 1 + k /\ ~(i < p)
      BY <1>11
    <2>2. scan[i - 1] = f[i - 1]
      BY <2>1
    <2>3. scan[i] = Scanned(t, p, q, i, scan[i - 1])
      BY <1>8, <2>1 DEF Scanned
    <2>4. scan[i] = f[i]
      BY <1>6, <2>1, <2>2, <2>3
    <2>. QED BY <2>1, <2>4
  <1>12. n \in K
    <2>1. K \in SUBSET (0 .. n) /\ n \in 0 .. n
      OBVIOUS
    <2> HIDE DEF K, n
    <2>2. K = 0 .. n
      BY <1>1, <1>10, <1>11, <2>1, Induct
    <2>. QED BY <2>1, <2>2
  <1>13. scan[q] = f[q]
    <2>1. p - 1 + n = q
      OBVIOUS
    <2>. QED BY <1>12, <2>1
  <1>14. Scan(f, t, p, q)
    BY <1>4, <1>5, <1>6 DEF Scan
  <1>. QED BY <1>9, <1>13, <1>14

LEMMA LevelIs ==
  ASSUME NEW c \in Binary
  PROVE  /\ Level[c] \in 1 .. 4
         /\ Level[c] = 1 <=> c = "&&"
         /\ Level[c] = 2 <=> c \in {"==", "!="}
         /\ Level[c] = 3 <=> c \in {"+", "-"}
         /\ Level[c] = 4 <=> c \in {"*", "/"}
  <1>1. \/ c = "&&" \/ c = "==" \/ c = "!=" \/ c = "+" \/ c = "-" \/ c = "*" \/ c = "/"
    BY DEF Binary
  <1>2. Level[c] = IF c = "&&" THEN 1 ELSE IF c \in {"==", "!="} THEN 2
                   ELSE IF c \in {"+", "-"} THEN 3 ELSE 4
    BY DEF Level
  <1>. QED BY <1>1, <1>2

\* An operator takes the place of another when it binds no tighter.
LEMMA ReplacesIs ==
  ASSUME NEW m \in Binary, NEW c \in Binary
  PROVE  replaces(m, c) <=> Level[c] <= Level[m]
  <1>1. /\ Level[m] \in 1 .. 4 /\ Level[c] \in 1 .. 4
        /\ Level[c] = 1 <=> c = "&&"
        /\ Level[c] = 2 <=> c \in {"==", "!="}
        /\ Level[c] = 4 <=> c \in {"*", "/"}
        /\ c # "deref"
    BY LevelIs, KindsDiffer
  <1>2. CASE Level[m] = 1
    <2>1. replaces(m, c) <=> c = "&&"
      BY <1>2, LevelIs DEF replaces
    <2>. QED BY <1>1, <1>2, <2>1
  <1>3. CASE Level[m] = 2
    <2>1. replaces(m, c) <=> c \in {"&&", "==", "!="}
      <3>1. m = "==" \/ m = "!="
        BY <1>3, LevelIs
      <3>. QED BY <3>1 DEF replaces
    <2>. QED BY <1>1, <1>3, <2>1
  <1>4. CASE Level[m] = 3
    <2>1. replaces(m, c) <=> c \notin {"*", "/", "deref"}
      <3>1. m = "+" \/ m = "-"
        BY <1>4, LevelIs
      <3>. QED BY <3>1 DEF replaces
    <2>. QED BY <1>1, <1>4, <2>1
  <1>5. CASE Level[m] = 4
    <2>1. replaces(m, c) <=> c # "deref"
      <3>1. m = "*" \/ m = "/"
        BY <1>5, LevelIs
      <3>. QED BY <3>1 DEF replaces
    <2>. QED BY <1>1, <1>5, <2>1
  <1>. QED BY <1>1, <1>2, <1>3, <1>4, <1>5

LEMMA OuterIs ==
  ASSUME NEW t, NEW p, NEW q, Segment(t, p, q), NEW i \in p .. q
  PROVE  i \in operators(t, p, q) /\ ~enclosed(t, p, q, i) <=> i \in Outer(t, p, q)
  <1>1. i \in operators(t, p, q) <=> t[i] \in Binary
    <2>1. t[i] \in Symbols
      BY SegmentTokens
    <2>. QED BY <2>1, KindsDiffer DEF operators, Symbols
  <1>2. ~(depth(t, p, i) > 0) <=> depth(t, p, i) = 0
    <2>1. p \in Nat /\ q \in Nat
      BY SegmentTokens
    <2>2. i \in p - 1 .. q /\ p - 1 \in p - 1 .. q
      BY <2>1
    <2>3. /\ Open(t, i) \in Int /\ Open(t, p - 1) \in Int
          /\ depth(t, p, i) = Open(t, i) - Open(t, p - 1) /\ Open(t, i) >= Open(t, p - 1)
      BY <2>2, SegmentDepth
    <2>. QED BY <2>3
  <1>. QED BY <1>1, <1>2, EnclosedIs DEF Outer

\* m is the rightmost of the loosest operators of S.
Loosest(t, S, m) == /\ m \in S
                    /\ \A x \in S : /\ Level[t[m]] <= Level[t[x]]
                                    /\ Level[t[m]] = Level[t[x]] => x <= m

LEMMA RootIs ==
  ASSUME NEW t, NEW p, NEW q, Segment(t, p, q)
  PROVE  /\ Outer(t, p, q) = {} => Root(t, p, q) = 0
         /\ \A m \in Outer(t, p, q) : Loosest(t, Outer(t, p, q), m) => Root(t, p, q) = m
  <1> DEFINE outer == Outer(t, p, q)
             loose == {i \in outer : \A j \in outer : Level[t[i]] <= Level[t[j]]}
  <1>1. Root(t, p, q) = IF outer = {} THEN 0 ELSE Max(loose)
    BY DEF Root, Outer
  <1>2. ASSUME NEW m \in outer, Loosest(t, outer, m) PROVE Max(loose) = m
    <2>1. p \in Nat /\ q \in Nat
      BY SegmentTokens
    <2>2. m \in loose /\ m \in Int
      BY <1>2, <2>1 DEF Loosest, Outer
    <2>3. loose \in SUBSET (0 .. q)
      BY <2>1 DEF Outer
    <2>4. Max(loose) \in loose /\ \A x \in loose : Max(loose) >= x
      <3> HIDE DEF loose
      <3>. QED BY <2>1, <2>2, <2>3, MaxIs
    <2>5. \A x \in loose : x <= m
      <3> SUFFICES ASSUME NEW x \in loose PROVE x <= m
        OBVIOUS
      <3>1. Level[t[x]] <= Level[t[m]] /\ Level[t[m]] <= Level[t[x]]
        BY <1>2, <2>2 DEF Loosest
      <3>2. Level[t[x]] \in 1 .. 4 /\ Level[t[m]] \in 1 .. 4
        BY <1>2, LevelIs DEF Outer
      <3>. QED BY <1>2, <3>1, <3>2 DEF Loosest
    <2>6. Max(loose) \in Int
      BY <2>1, <2>3, <2>4
    <2> HIDE DEF loose
    <2>. QED BY <2>2, <2>4, <2>5, <2>6
  <1> HIDE DEF loose
  <1>. QED BY <1>1, <1>2

\* The scan finds the operator that the grammar applies last.
LEMMA MainOpIs ==
  ASSUME NEW t, NEW p, NEW q, Segment(t, p, q)
  PROVE  /\ main_op(t, p, q) = Root(t, p, q)
         /\ Outer(t, p, q) = {} => Root(t, p, q) = 0
         /\ Outer(t, p, q) # {} => Root(t, p, q) \in Outer(t, p, q) /\ Root(t, p, q) # 0
  <1> DEFINE outer == Outer(t, p, q)
             upto(i) == {x \in outer : x <= i}
  <1>0. p \in Nat /\ q \in Nat /\ 1 <= p /\ p <= q
    BY SegmentTokens
  <1>1. PICK f : Scan(f, t, p, q) /\ main_op(t, p, q) = f[q]
    BY <1>0, ScanIs
  <1>2. \A x \in outer : x \in p .. q /\ t[x] \in Binary /\ x # 0
    BY <1>0 DEF Outer
  <1> DEFINE P(i) == /\ upto(i) = {} => f[i] = 0
                     /\ upto(i) # {} => Loosest(t, upto(i), f[i])
             n    == q - (p - 1)
             K    == {k \in 0 .. n : P(p - 1 + k)}
  <1>3. 0 \in K
    <2>1. upto(p - 1) = {} /\ p - 1 + 0 = p - 1 /\ 0 \in 0 .. n
      BY <1>0, <1>2
    <2> HIDE DEF upto
    <2>. QED BY <1>1, <2>1 DEF Scan
  <1>4. ASSUME NEW i \in p .. q, P(i - 1) PROVE P(i)
    <2>1. f[i] = Scanned(t, p, q, i, f[i - 1])
      BY <1>1 DEF Scan
    <2>2. i \in operators(t, p, q) /\ ~enclosed(t, p, q, i) <=> i \in outer
      BY OuterIs
    <2>3. CASE i \notin outer
      <3>1. upto(i) = upto(i - 1)
        BY <1>0, <1>2, <2>3
      <3>2. f[i] = f[i - 1]
        BY <2>1, <2>2, <2>3 DEF Scanned
      <3> HIDE DEF upto
      <3>. QED BY <1>4, <3>1, <3>2
    <2>4. CASE i \in outer
      <3>1. upto(i) = upto(i - 1) \cup {i} /\ t[i] \in Binary
        <4>1. i \in Int /\ t[i] \in Binary
          BY <1>0, <1>2, <2>4
        <4>2. \A x \in outer : x \in Int
          BY <1>0, <1>2
        <4> HIDE DEF outer
        <4>3. ASSUME NEW x PROVE x \in upto(i) <=> x \in upto(i - 1) \cup {i}
          <5>1. CASE x \in outer
            <6>1. x \in Int
              BY <4>2, <5>1
            <6>. QED BY <2>4, <4>1, <5>1, <6>1
          <5>2. CASE x \notin outer
            BY <2>4, <5>2
          <5>. QED BY <5>1, <5>2
        <4> HIDE DEF upto
        <4>. QED BY <4>1, <4>3
      <3>2. Level[t[i]] \in 1 .. 4
        BY <3>1, LevelIs
      <3>3. CASE upto(i - 1) = {}
        <4>1. f[i] = i /\ upto(i) = {i}
          BY <1>4, <2>1, <2>2, <2>4, <3>1, <3>3 DEF Scanned
        <4>. QED BY <3>2, <4>1 DEF Loosest
      <3>4. CASE upto(i - 1) # {}
        <4> DEFINE m == f[i - 1]
                   U == upto(i - 1)
        <4>0. upto(i) = U \cup {i}
          BY <3>1
        <4>1. Loosest(t, U, m) /\ m \in outer /\ m <= i - 1 /\ m \in Int
          BY <1>2, <1>4, <3>4 DEF Loosest
        <4>2. m # 0 /\ t[m] \in Binary /\ Level[t[m]] \in 1 .. 4
          BY <1>2, <4>1, LevelIs
        <4>3. \A x \in U : Level[t[x]] \in 1 .. 4 /\ x \in Int /\ x <= i - 1
          BY <1>0, <1>2, LevelIs
        <4>4. replaces(t[m], t[i]) <=> Level[t[i]] <= Level[t[m]]
          BY <3>1, <4>2, ReplacesIs
        <4>5. f[i] = IF Level[t[i]] <= Level[t[m]] THEN i ELSE m
          BY <2>1, <2>2, <2>4, <4>2, <4>4 DEF Scanned
        <4>6. \A x \in U : /\ Level[t[m]] <= Level[t[x]]
                           /\ Level[t[m]] = Level[t[x]] => x <= m
          BY <4>1 DEF Loosest
        <4>7. m \in U
          BY <4>1
        <4> HIDE DEF U, m
        <4>8. CASE Level[t[i]] <= Level[t[m]]
          <5>1. f[i] = i
            BY <4>5, <4>8
          <5>2. ASSUME NEW x \in U PROVE Level[t[i]] <= Level[t[x]] /\ x <= i
            <6>1. /\ Level[t[x]] \in 1 .. 4 /\ x \in Int /\ x <= i - 1
                  /\ Level[t[m]] <= Level[t[x]]
              BY <4>3, <4>6
            <6>. QED BY <1>0, <3>2, <4>2, <4>8, <6>1
          <5>. QED BY <3>2, <4>0, <5>1, <5>2 DEF Loosest
        <4>9. CASE ~(Level[t[i]] <= Level[t[m]])
          <5>1. f[i] = m
            BY <4>5, <4>9
          <5>2. Level[t[m]] < Level[t[i]]
            BY <3>2, <4>2, <4>9
          <5>3. Level[t[m]] <= Level[t[i]] /\ Level[t[m]] # Level[t[i]]
            BY <3>2, <4>2, <5>2
          <5>4. Loosest(t, U \cup {i}, m)
            <6> SUFFICES ASSUME NEW x \in U \cup {i}
                         PROVE  /\ Level[t[m]] <= Level[t[x]]
                                /\ Level[t[m]] = Level[t[x]] => x <= m
              BY <4>7 DEF Loosest
            <6>1. CASE x \in U
              BY <4>6, <6>1
            <6>2. CASE x = i
              BY <5>3, <6>2
            <6>. QED BY <6>1, <6>2
          <5>. QED BY <4>0, <5>1, <5>4
        <4>. QED BY <4>8, <4>9
      <3>. QED BY <3>3, <3>4
    <2>. QED BY <2>3, <2>4
  <1>5. ASSUME NEW k \in K, k < n PROVE k + 1 \in K
    <2>1. /\ k + 1 \in 0 .. n /\ p - 1 + (k + 1) \in p .. q
          /\ (p - 1 + (k + 1)) - 1 = p - 1 + k
      BY <1>0, <1>5
    <2>2. P((p - 1 + (k + 1)) - 1)
      BY <2>1
    <2>3. P(p - 1 + (k + 1))
      <3> HIDE DEF P
      <3>. QED BY <1>4, <2>1, <2>2
    <2> HIDE DEF P
    <2>. QED BY <2>1, <2>3
  <1>6. P(q)
    <2>1. n \in Nat /\ n \in 0 .. n /\ p - 1 + n = q /\ K \in SUBSET (0 .. n)
      BY <1>0
    <2>2. n \in K
      <3> HIDE DEF K, n
      <3>1. K = 0 .. n
        BY <1>3, <1>5, <2>1, Induct
      <3>. QED BY <2>1, <3>1
    <2>3. P(p - 1 + n)
      <3> HIDE DEF P, n
      <3>. QED BY <2>2
    <2>4. p - 1 + n = q
      BY <2>1
    <2> HIDE DEF P, n
    <2>. QED BY <2>3, <2>4
  <1>7. upto(q) = outer
    BY <1>0, <1>2
  <1> HIDE DEF outer
  <1>8. CASE outer = {}
    BY <1>1, <1>6, <1>7, <1>8, RootIs DEF outer
  <1>9. CASE outer # {}
    <2>1. Loosest(t, outer, f[q])
      BY <1>6, <1>7, <1>9
    <2>2. f[q] \in outer
      BY <2>1 DEF Loosest
    <2>. QED BY <1>1, <1>2, <1>9, <2>1, <2>2, RootIs DEF outer
  <1>. QED BY <1>8, <1>9 DEF outer

-----------------------------------------------------------------------------
(* The evaluator, a recursion on the length of the segment.                  *)

Words   == 0 .. Modulus - 1
Outcome == [val : Words, bad : BOOLEAN, dead : BOOLEAN]
Places(t) == (1 .. Len(t) + 1) \X (0 .. Len(t)) \X BOOLEAN
Length(p, q) == IF q >= p THEN q - p + 1 ELSE 0

\* What eval does with s, given by f for the shorter segments.
EvalStep(t, f, s) ==
  LET p == s[1]  q == s[2]  m == main_op(t, p, q)
  IN  IF p > q THEN Dead
      ELSE IF p = q THEN [val |-> literal(t[p]), bad |-> s[3], dead |-> FALSE]
      ELSE IF surrounded(t, p, q) THEN f[<<p + 1, q - 1, FALSE>>]
      ELSE IF unbalanced(t, p, q) \/ m = 0
      THEN [val |-> 0, bad |-> TRUE, dead |-> FALSE]
      ELSE LET left  == f[<<p, m - 1, scan_flag(t, p, q, FALSE)>>]
               right == f[<<m + 1, q, left.bad>>]
           IN  IF \/ t[m] = "deref" \/ left.dead \/ right.dead
                  \/ t[m] = "/" /\ right.val = 0
               THEN Dead
               ELSE [val |-> Apply(t[m], left.val, right.val),
                     bad |-> right.bad, dead |-> FALSE]

LEMMA ApplyType ==
  ASSUME NEW op \in Binary, NEW a \in Words, NEW b \in Words
  PROVE  Apply(op, a, b) \in Words
  <1>1. Modulus \in Nat /\ Modulus > 1 /\ a \in Int /\ b \in Int
    BY ExprAssumption DEF Words
  <1>2. \A x \in Int : Word(x) \in Words
    BY <1>1 DEF Word, Words
  <1>3. a + b \in Int /\ a - b \in Int /\ a * b \in Int
    BY <1>1
  <1>4. 0 \in Words /\ 1 \in Words
    BY <1>1 DEF Words
  <1>5. b # 0 => a \div b \in Words
    <2> SUFFICES ASSUME b # 0 PROVE a \div b \in Words
      OBVIOUS
    <2>1. a \in Nat /\ b \in Nat /\ b > 0 /\ a <= Modulus - 1
      BY <1>1 DEF Words
    <2>2. a \div b \in Nat /\ a \div b <= a
      BY <2>1
    <2>. QED BY <1>1, <2>1, <2>2 DEF Words
  <1>6. \/ op = "+" \/ op = "-" \/ op = "*" \/ op = "/" \/ op = "==" \/ op = "!="
        \/ op = "&&"
    BY DEF Binary
  <1>7. CASE op \in {"+", "-", "*"}
    <2>1. Apply(op, a, b) \in {Word(a + b), Word(a - b), Word(a * b)}
      BY <1>7 DEF Apply
    <2>. QED BY <1>2, <1>3, <2>1
  <1>8. CASE op = "/"
    BY <1>4, <1>5, <1>8 DEF Apply
  <1>9. CASE op \in {"==", "!=", "&&"}
    <2>1. Apply(op, a, b) \in {0, 1}
      BY <1>9 DEF Apply
    <2>. QED BY <1>4, <2>1
  <1>. QED BY <1>6, <1>7, <1>8, <1>9

LEMMA LiteralType ==
  ASSUME NEW c
  PROVE  literal(c) \in Words
  <1>1. 0 \in Words
    BY ExprAssumption DEF Words
  <1>2. c \in Numbers => Number[c] \in Words
    BY ExprAssumption DEF Words
  <1>. QED BY <1>1, <1>2 DEF literal

Expression == Seq(Typed \ {"?"})

LEMMA MainOpType ==
  ASSUME NEW t \in Expression, NEW p \in 1 .. Len(t), NEW q \in p .. Len(t)
  PROVE  LET m == main_op(t, p, q)
         IN  m # 0 => m \in p .. q /\ t[m] \in Binary \cup {"deref"}
  <1>1. Len(t) \in Nat /\ p \in Nat /\ q \in Nat /\ 1 <= p /\ p <= q
    BY DEF Expression
  <1>2. PICK f : Scan(f, t, p, q) /\ main_op(t, p, q) = f[q]
    BY <1>1, ScanIs
  <1>3. f[q] \in {0} \cup operators(t, p, q)
    <2>1. q \in p - 1 .. q
      BY <1>1
    <2>. QED BY <1>2, <2>1 DEF Scan
  <1>4. ASSUME NEW m \in operators(t, p, q)
        PROVE  m \in p .. q /\ t[m] \in Binary \cup {"deref"}
    <2>1. m \in p .. q /\ t[m] \notin Numbers \cup {"(", ")"}
      BY DEF operators
    <2>2. m \in 1 .. Len(t)
      BY <1>1, <2>1
    <2>3. t[m] \in Typed \ {"?"}
      <3> HIDE DEF Typed
      <3>. QED BY <2>2 DEF Expression
    <2>. QED BY <2>1, <2>3, ExprAssumption DEF Typed, Tokens
  <1>. QED BY <1>2, <1>3, <1>4

Below(t, s) == {e \in Places(t) : Length(e[1], e[2]) < Length(s[1], s[2])}

\* The segments eval goes on with.
LEMMA PlacesBelow ==
  ASSUME NEW t \in Expression, NEW s \in Places(t), s[1] < s[2], NEW b \in BOOLEAN
  PROVE  LET p == s[1]  q == s[2]  m == main_op(t, p, q)
         IN  /\ p \in 1 .. Len(t) /\ q \in p .. Len(t)
             /\ <<p + 1, q - 1, b>> \in Below(t, s)
             /\ m # 0 => <<p, m - 1, b>> \in Below(t, s) /\ <<m + 1, q, b>> \in Below(t, s)
  <1> DEFINE p == s[1]
             q == s[2]
             m == main_op(t, p, q)
  <1>1. Len(t) \in Nat /\ p \in 1 .. Len(t) + 1 /\ q \in 0 .. Len(t)
    BY DEF Expression, Places
  <1>2. p \in 1 .. Len(t) /\ q \in p .. Len(t) /\ p \in Nat /\ q \in Nat
    BY <1>1
  <1>3. m # 0 => m \in p .. q
    BY <1>2, MainOpType
  <1>4. ASSUME NEW a \in 1 .. Len(t) + 1, NEW z \in 0 .. Len(t), z - a < q - p
        PROVE  <<a, z, b>> \in Below(t, s)
    <2>1. <<a, z, b>> \in Places(t)
      BY DEF Places
    <2>2. Length(a, z) < Length(p, q)
      BY <1>1, <1>2, <1>4 DEF Length
    <2>. QED BY <2>1, <2>2 DEF Below
  <1>5. <<p + 1, q - 1, b>> \in Below(t, s)
    <2>1. p + 1 \in 1 .. Len(t) + 1 /\ q - 1 \in 0 .. Len(t) /\ (q - 1) - (p + 1) < q - p
      BY <1>1, <1>2
    <2>. QED BY <1>4, <2>1
  <1> HIDE DEF p, q, m
  <1>6. ASSUME m # 0 PROVE <<p, m - 1, b>> \in Below(t, s) /\ <<m + 1, q, b>> \in Below(t, s)
    <2>1. /\ m - 1 \in 0 .. Len(t) /\ (m - 1) - p < q - p
          /\ m + 1 \in 1 .. Len(t) + 1 /\ q - (m + 1) < q - p
      BY <1>1, <1>2, <1>3, <1>6
    <2>. QED BY <1>1, <1>4, <2>1
  <1>. QED BY <1>2, <1>5, <1>6 DEF p, q, m

LEMMA ScanFlagType ==
  ASSUME NEW t, NEW p, NEW q
  PROVE  scan_flag(t, p, q, FALSE) \in BOOLEAN
  BY DEF scan_flag

\* A step depends on the shorter segments only, and its result is an outcome.
LEMMA EvalStepIs ==
  ASSUME NEW t \in Expression, NEW f, NEW g, NEW s \in Places(t),
         \A e \in Below(t, s) : f[e] \in Outcome /\ g[e] = f[e]
  PROVE  EvalStep(t, f, s) \in Outcome /\ EvalStep(t, g, s) = EvalStep(t, f, s)
  <1> DEFINE p == s[1]
             q == s[2]
             m == main_op(t, p, q)
             flag == scan_flag(t, p, q, FALSE)
             left  == f[<<p, m - 1, flag>>]
             right == f[<<m + 1, q, left.bad>>]
  <1>0. /\ 0 \in Words /\ p \in Int /\ q \in Int /\ s[3] \in BOOLEAN /\ flag \in BOOLEAN
        /\ Dead \in Outcome
    <2>1. 0 \in Words /\ Dead \in Outcome
      BY ExprAssumption DEF Words, Dead, Outcome
    <2>2. Len(t) \in Nat
      BY DEF Expression
    <2>3. p \in 1 .. Len(t) + 1 /\ q \in 0 .. Len(t) /\ s[3] \in BOOLEAN
      BY DEF Places
    <2>4. flag \in BOOLEAN
      BY ScanFlagType
    <2> HIDE DEF p, q, flag
    <2>. QED BY <2>1, <2>2, <2>3, <2>4
  <1>1. CASE p > q
    BY <1>0, <1>1 DEF EvalStep
  <1>2. CASE p = q
    <2>1. /\ EvalStep(t, f, s) = [val |-> literal(t[p]), bad |-> s[3], dead |-> FALSE]
          /\ EvalStep(t, g, s) = [val |-> literal(t[p]), bad |-> s[3], dead |-> FALSE]
      BY <1>0, <1>2 DEF EvalStep
    <2>2. literal(t[p]) \in Words
      BY LiteralType
    <2>. QED BY <1>0, <2>1, <2>2 DEF Outcome
  <1>3. CASE p < q
    <2>1. ~(p > q) /\ p # q
      BY <1>0, <1>3
    <2>2. CASE surrounded(t, p, q)
      <3>1. <<p + 1, q - 1, FALSE>> \in Below(t, s)
        BY <1>3, PlacesBelow
      <3>2. /\ EvalStep(t, f, s) = f[<<p + 1, q - 1, FALSE>>]
            /\ EvalStep(t, g, s) = g[<<p + 1, q - 1, FALSE>>]
        BY <2>1, <2>2 DEF EvalStep
      <3>. QED BY <3>1, <3>2
    <2>3. CASE ~surrounded(t, p, q) /\ (unbalanced(t, p, q) \/ m = 0)
      <3>1. /\ EvalStep(t, f, s) = [val |-> 0, bad |-> TRUE, dead |-> FALSE]
            /\ EvalStep(t, g, s) = [val |-> 0, bad |-> TRUE, dead |-> FALSE]
        BY <2>1, <2>3 DEF EvalStep
      <3>. QED BY <1>0, <3>1 DEF Outcome
    <2>4. CASE ~surrounded(t, p, q) /\ ~unbalanced(t, p, q) /\ m # 0
      <3>1. left \in Outcome /\ g[<<p, m - 1, flag>>] = left
        <4>1. <<p, m - 1, flag>> \in Below(t, s)
          BY <1>0, <1>3, <2>4, PlacesBelow
        <4>. QED BY <4>1
      <3>2. right \in Outcome /\ g[<<m + 1, q, left.bad>>] = right
        <4>1. left.bad \in BOOLEAN
          BY <3>1 DEF Outcome
        <4>2. <<m + 1, q, left.bad>> \in Below(t, s)
          BY <1>3, <2>4, <4>1, PlacesBelow
        <4>. QED BY <4>2
      <3> DEFINE end(l, r) == IF \/ t[m] = "deref" \/ l.dead \/ r.dead
                                 \/ t[m] = "/" /\ r.val = 0
                              THEN Dead
                              ELSE [val |-> Apply(t[m], l.val, r.val),
                                    bad |-> r.bad, dead |-> FALSE]
      <3>3. EvalStep(t, f, s) = end(left, right)
        BY <2>1, <2>4 DEF EvalStep
      <3>4. EvalStep(t, g, s) = end(g[<<p, m - 1, flag>>],
                                    g[<<m + 1, q, g[<<p, m - 1, flag>>].bad>>])
        BY <2>1, <2>4 DEF EvalStep
      <3>5. m # 0 => t[m] \in Binary \cup {"deref"}
        <4>1. p \in 1 .. Len(t) /\ q \in p .. Len(t)
          BY <1>3, PlacesBelow
        <4>. QED BY <4>1, MainOpType
      <3> HIDE DEF left, right
      <3>6. t[m] # "deref" => Apply(t[m], left.val, right.val) \in Words
        BY <2>4, <3>1, <3>2, <3>5, ApplyType DEF Outcome
      <3>7. end(left, right) \in Outcome
        <4>1. CASE \/ t[m] = "deref" \/ left.dead \/ right.dead
                   \/ t[m] = "/" /\ right.val = 0
          BY <1>0, <4>1
        <4>2. CASE ~(\/ t[m] = "deref" \/ left.dead \/ right.dead
                     \/ t[m] = "/" /\ right.val = 0)
          <5>1. end(left, right) = [val |-> Apply(t[m], left.val, right.val),
                                    bad |-> right.bad, dead |-> FALSE]
            BY <4>2
          <5>2. right.bad \in BOOLEAN
            BY <3>2 DEF Outcome
          <5>. QED BY <3>6, <4>2, <5>1, <5>2 DEF Outcome
        <4>. QED BY <4>1, <4>2
      <3> HIDE DEF end
      <3>. QED BY <3>1, <3>2, <3>3, <3>4, <3>7
    <2>. QED BY <2>2, <2>3, <2>4
  <1>. QED BY <1>0, <1>1, <1>2, <1>3

LEMMA EvalIs ==
  ASSUME NEW t \in Expression
  PROVE  \A s \in Places(t) : /\ eval(t)[s] \in Outcome
                              /\ eval(t)[s] = EvalStep(t, eval(t), s)
  <1> DEFINE D    == Places(t)
             n    == Len(t)
             rank == [s \in D |-> Length(s[1], s[2])]
             Body(g) == [s \in D |-> EvalStep(t, g, s)]
             body == [g \in [D -> Outcome] |-> Body(g)]
             start == [s \in D |-> Dead]
             ev   == CHOOSE g : g = Body(g)
  <1>1. eval(t) = ev
    BY DEF eval, EvalStep, Places
  <1>2. n \in Nat /\ rank \in [D -> 0 .. n] /\ start \in [D -> Outcome]
    <2>1. n \in Nat
      BY DEF Expression
    <2>2. Dead \in Outcome
      BY ExprAssumption DEF Dead, Outcome, Words
    <2>3. ASSUME NEW s \in D PROVE Length(s[1], s[2]) \in 0 .. n
      <3>1. s[1] \in 1 .. n + 1 /\ s[2] \in 0 .. n
        BY DEF Places
      <3>. QED BY <2>1, <3>1 DEF Length
    <2>. QED BY <2>1, <2>2, <2>3
  <1>3. ASSUME NEW f, NEW g, NEW s \in D,
               \A e \in D : rank[e] < rank[s] => f[e] \in Outcome /\ g[e] = f[e]
        PROVE  EvalStep(t, f, s) \in Outcome /\ EvalStep(t, g, s) = EvalStep(t, f, s)
    <2>1. \A e \in Below(t, s) : f[e] \in Outcome /\ g[e] = f[e]
      BY <1>3 DEF Below
    <2>. QED BY <2>1, EvalStepIs
  <1>4. body \in [[D -> Outcome] -> [D -> Outcome]]
    <2> SUFFICES ASSUME NEW f \in [D -> Outcome], NEW s \in D
                 PROVE  EvalStep(t, f, s) \in Outcome
      OBVIOUS
    <2> HIDE DEF D, rank
    <2>. QED BY <1>3
  <1>5. Contracts(body, D, Outcome, rank)
    <2> SUFFICES ASSUME NEW f \in [D -> Outcome], NEW g \in [D -> Outcome], NEW s \in D,
                        \A e \in D : rank[e] < rank[s] => f[e] = g[e]
                 PROVE  body[f][s] = body[g][s]
      <3> HIDE DEF body, D
      <3>. QED BY <1>4 DEF Contracts
    <2>1. EvalStep(t, g, s) = EvalStep(t, f, s)
      <3> HIDE DEF D, rank
      <3>. QED BY <1>3
    <2>. QED BY <2>1
  <1>6. PICK f \in [D -> Outcome] : f = Body(f)
    <2>1. \E f \in [D -> Outcome] : f = body[f]
      <3> HIDE DEF D, n, rank, body, start
      <3>. QED BY <1>2, <1>5, Fixpoint
    <2>2. PICK f \in [D -> Outcome] : f = body[f]
      BY <2>1
    <2>3. body[f] = Body(f)
      OBVIOUS
    <2>. QED BY <2>2, <2>3
  <1>7. ev = Body(ev)
    <2> HIDE DEF Body
    <2>. QED BY <1>6
  <1> HIDE DEF ev
  <1> DEFINE B == {s \in D : ev[s] = f[s]}
  <1>8. B = D
    <2>1. ASSUME NEW s \in D, \A e \in D : rank[e] < rank[s] => e \in B
          PROVE  s \in B
      <3>1. \A e \in D : rank[e] < rank[s] => f[e] \in Outcome /\ ev[e] = f[e]
        BY <2>1
      <3>2. EvalStep(t, ev, s) = EvalStep(t, f, s)
        <4> HIDE DEF D, rank, B
        <4>. QED BY <1>3, <3>1
      <3>3. ev[s] = EvalStep(t, ev, s) /\ f[s] = EvalStep(t, f, s)
        <4> HIDE DEF D
        <4>. QED BY <1>6, <1>7
      <3>. QED BY <3>2, <3>3
    <2>2. B \in SUBSET D
      OBVIOUS
    <2> HIDE DEF B, D, n, rank
    <2>. QED BY <1>2, <2>1, <2>2, RankInduct
  <1>9. \A s \in D : ev[s] \in Outcome /\ ev[s] = EvalStep(t, ev, s)
    <2> SUFFICES ASSUME NEW s \in D PROVE ev[s] \in Outcome /\ ev[s] = EvalStep(t, ev, s)
      OBVIOUS
    <2>1. ev[s] = f[s]
      BY <1>8
    <2>2. ev[s] = EvalStep(t, ev, s)
      <3> HIDE DEF D
      <3>. QED BY <1>7
    <2> HIDE DEF D
    <2>. QED BY <2>1, <2>2
  <1>. QED BY <1>1, <1>9

-----------------------------------------------------------------------------
(* The reference is the same kind of recursion.                              *)

Value == [val : Words, defined : BOOLEAN]
Spans(t) == (1 .. Len(t) + 1) \X (0 .. Len(t))
Shorter(t, s) == {e \in Spans(t) : Length(e[1], e[2]) < Length(s[1], s[2])}

MeanStep(t, f, s) ==
  LET p == s[1]  q == s[2]  m == Root(t, p, q)
      left  == f[<<p, m - 1>>]
      right == f[<<m + 1, q>>]
  IN  IF p >= q THEN [val |-> literal(t[p]), defined |-> TRUE]
      ELSE IF m = 0 THEN f[<<p + 1, q - 1>>]
      ELSE [val |-> Apply(t[m], left.val, right.val),
            defined |-> /\ left.defined /\ right.defined
                        /\ t[m] = "/" => right.val # 0]

LEMMA RootType ==
  ASSUME NEW t, NEW p \in Nat, NEW q \in Nat
  PROVE  LET m == Root(t, p, q) IN m # 0 => m \in p .. q /\ t[m] \in Binary
  <1> DEFINE outer == Outer(t, p, q)
             loose == {i \in outer : \A j \in outer : Level[t[i]] <= Level[t[j]]}
             levels == {Level[t[i]] : i \in outer}
  <1>1. Root(t, p, q) = IF outer = {} THEN 0 ELSE Max(loose)
    BY DEF Root, Outer
  <1>2. ASSUME outer # {} PROVE loose # {}
    <2>1. \A i \in outer : Level[t[i]] \in 1 .. 4
      BY LevelIs DEF Outer
    <2>2. levels \in SUBSET (0 .. 4) /\ levels # {}
      <3> HIDE DEF outer
      <3>. QED BY <1>2, <2>1
    <2>3. PICK x \in levels : \A y \in levels : x <= y
      <3> HIDE DEF levels
      <3>1. 4 \in Nat
        OBVIOUS
      <3>. QED BY <2>2, <3>1, Extremes
    <2>4. PICK i \in outer : x = Level[t[i]]
      OBVIOUS
    <2>5. \A j \in outer : Level[t[i]] <= Level[t[j]]
      <3> HIDE DEF outer
      <3>. QED BY <2>3, <2>4
    <2>. QED BY <2>5
  <1>3. loose \in SUBSET (0 .. q) /\ outer \subseteq p .. q
    BY DEF Outer
  <1>4. outer # {} => Max(loose) \in loose
    <2> HIDE DEF loose, outer
    <2>. QED BY <1>2, <1>3, MaxIs
  <1>5. \A i \in loose : i \in p .. q /\ t[i] \in Binary
    BY DEF Outer
  <1> HIDE DEF loose, outer
  <1>. QED BY <1>1, <1>4, <1>5

LEMMA SpansShorter ==
  ASSUME NEW t, Len(t) \in Nat, NEW s \in Spans(t), s[1] < s[2]
  PROVE  LET p == s[1]  q == s[2]  m == Root(t, p, q)
         IN  /\ <<p + 1, q - 1>> \in Shorter(t, s)
             /\ m # 0 => <<p, m - 1>> \in Shorter(t, s) /\ <<m + 1, q>> \in Shorter(t, s)
  <1> DEFINE p == s[1]
             q == s[2]
             m == Root(t, p, q)
  <1>1. p \in 1 .. Len(t) + 1 /\ q \in 0 .. Len(t)
    BY DEF Spans
  <1>2. p \in 1 .. Len(t) /\ q \in p .. Len(t) /\ p \in Nat /\ q \in Nat
    BY <1>1
  <1>3. m # 0 => m \in p .. q
    BY <1>2, RootType
  <1>4. ASSUME NEW a \in 1 .. Len(t) + 1, NEW z \in 0 .. Len(t), z - a < q - p
        PROVE  <<a, z>> \in Shorter(t, s)
    <2>1. <<a, z>> \in Spans(t)
      BY DEF Spans
    <2>2. Length(a, z) < Length(p, q)
      BY <1>1, <1>2, <1>4 DEF Length
    <2>. QED BY <2>1, <2>2 DEF Shorter
  <1>5. <<p + 1, q - 1>> \in Shorter(t, s)
    <2>1. p + 1 \in 1 .. Len(t) + 1 /\ q - 1 \in 0 .. Len(t) /\ (q - 1) - (p + 1) < q - p
      BY <1>1, <1>2
    <2>. QED BY <1>4, <2>1
  <1> HIDE DEF p, q, m
  <1>6. ASSUME m # 0 PROVE <<p, m - 1>> \in Shorter(t, s) /\ <<m + 1, q>> \in Shorter(t, s)
    <2>1. /\ m - 1 \in 0 .. Len(t) /\ (m - 1) - p < q - p
          /\ m + 1 \in 1 .. Len(t) + 1 /\ q - (m + 1) < q - p
      BY <1>1, <1>2, <1>3, <1>6
    <2>. QED BY <1>1, <1>4, <2>1
  <1>. QED BY <1>5, <1>6 DEF p, q, m

LEMMA MeanStepIs ==
  ASSUME NEW t, Len(t) \in Nat, NEW f, NEW g, NEW s \in Spans(t),
         \A e \in Shorter(t, s) : f[e] \in Value /\ g[e] = f[e]
  PROVE  MeanStep(t, f, s) \in Value /\ MeanStep(t, g, s) = MeanStep(t, f, s)
  <1> DEFINE p == s[1]
             q == s[2]
             m == Root(t, p, q)
             left  == f[<<p, m - 1>>]
             right == f[<<m + 1, q>>]
  <1>0. p \in Int /\ q \in Int /\ p \in Nat /\ q \in Nat
    <2>1. p \in 1 .. Len(t) + 1 /\ q \in 0 .. Len(t)
      BY DEF Spans
    <2>. QED BY <2>1
  <1>1. CASE p >= q
    <2>1. /\ MeanStep(t, f, s) = [val |-> literal(t[p]), defined |-> TRUE]
          /\ MeanStep(t, g, s) = [val |-> literal(t[p]), defined |-> TRUE]
      BY <1>1 DEF MeanStep
    <2>2. literal(t[p]) \in Words
      BY LiteralType
    <2>. QED BY <2>1, <2>2 DEF Value
  <1>2. CASE p < q /\ m = 0
    <2>1. ~(p >= q)
      BY <1>0, <1>2
    <2>2. <<p + 1, q - 1>> \in Shorter(t, s)
      BY <1>2, SpansShorter
    <2>3. /\ MeanStep(t, f, s) = f[<<p + 1, q - 1>>]
          /\ MeanStep(t, g, s) = g[<<p + 1, q - 1>>]
      BY <1>2, <2>1 DEF MeanStep
    <2>. QED BY <2>2, <2>3
  <1>3. CASE p < q /\ m # 0
    <2>1. ~(p >= q)
      BY <1>0, <1>3
    <2>2. <<p, m - 1>> \in Shorter(t, s) /\ <<m + 1, q>> \in Shorter(t, s)
      BY <1>3, SpansShorter
    <2>3. /\ left \in Value /\ g[<<p, m - 1>>] = left
          /\ right \in Value /\ g[<<m + 1, q>>] = right
      BY <2>2
    <2> DEFINE end(l, r) == [val |-> Apply(t[m], l.val, r.val),
                             defined |-> /\ l.defined /\ r.defined
                                         /\ t[m] = "/" => r.val # 0]
    <2>4. /\ MeanStep(t, f, s) = end(left, right)
          /\ MeanStep(t, g, s) = end(g[<<p, m - 1>>], g[<<m + 1, q>>])
      BY <1>3, <2>1 DEF MeanStep
    <2>5. t[m] \in Binary
      BY <1>0, <1>3, RootType
    <2> HIDE DEF left, right
    <2>6. end(left, right) \in Value
      <3>1. Apply(t[m], left.val, right.val) \in Words
        BY <2>3, <2>5, ApplyType DEF Value
      <3>. QED BY <3>1 DEF Value
    <2> HIDE DEF end
    <2>. QED BY <2>3, <2>4, <2>6
  <1>. QED BY <1>0, <1>1, <1>2, <1>3

LEMMA MeaningIs ==
  ASSUME NEW t, Len(t) \in Nat
  PROVE  \A s \in Spans(t) : /\ Meaning(t)[s] \in Value
                             /\ Meaning(t)[s] = MeanStep(t, Meaning(t), s)
  <1> DEFINE D    == Spans(t)
             n    == Len(t)
             rank == [s \in D |-> Length(s[1], s[2])]
             Body(g) == [s \in D |-> MeanStep(t, g, s)]
             body == [g \in [D -> Value] |-> Body(g)]
             start == [s \in D |-> [val |-> 0, defined |-> TRUE]]
             mean == CHOOSE g : g = Body(g)
  <1>1. Meaning(t) = mean
    BY DEF Meaning, MeanStep, Spans
  <1>2. n \in Nat /\ rank \in [D -> 0 .. n] /\ start \in [D -> Value]
    <2>1. [val |-> 0, defined |-> TRUE] \in Value
      BY ExprAssumption DEF Value, Words
    <2>2. ASSUME NEW s \in D PROVE Length(s[1], s[2]) \in 0 .. n
      <3>1. s[1] \in 1 .. n + 1 /\ s[2] \in 0 .. n
        BY DEF Spans
      <3>. QED BY <3>1 DEF Length
    <2>. QED BY <2>1, <2>2
  <1>3. ASSUME NEW f, NEW g, NEW s \in D,
               \A e \in D : rank[e] < rank[s] => f[e] \in Value /\ g[e] = f[e]
        PROVE  MeanStep(t, f, s) \in Value /\ MeanStep(t, g, s) = MeanStep(t, f, s)
    <2>1. \A e \in Shorter(t, s) : f[e] \in Value /\ g[e] = f[e]
      BY <1>3 DEF Shorter
    <2>. QED BY <2>1, MeanStepIs
  <1>4. body \in [[D -> Value] -> [D -> Value]]
    <2> SUFFICES ASSUME NEW f \in [D -> Value], NEW s \in D
                 PROVE  MeanStep(t, f, s) \in Value
      OBVIOUS
    <2> HIDE DEF D, rank
    <2>. QED BY <1>3
  <1>5. Contracts(body, D, Value, rank)
    <2> SUFFICES ASSUME NEW f \in [D -> Value], NEW g \in [D -> Value], NEW s \in D,
                        \A e \in D : rank[e] < rank[s] => f[e] = g[e]
                 PROVE  body[f][s] = body[g][s]
      <3> HIDE DEF body, D
      <3>. QED BY <1>4 DEF Contracts
    <2>1. MeanStep(t, g, s) = MeanStep(t, f, s)
      <3> HIDE DEF D, rank
      <3>. QED BY <1>3
    <2>. QED BY <2>1
  <1>6. PICK f \in [D -> Value] : f = Body(f)
    <2>1. \E f \in [D -> Value] : f = body[f]
      <3> HIDE DEF D, n, rank, body, start
      <3>. QED BY <1>2, <1>5, Fixpoint
    <2>2. PICK f \in [D -> Value] : f = body[f]
      BY <2>1
    <2>3. body[f] = Body(f)
      OBVIOUS
    <2>. QED BY <2>2, <2>3
  <1>7. mean = Body(mean)
    <2> HIDE DEF Body
    <2>. QED BY <1>6
  <1> HIDE DEF mean
  <1> DEFINE B == {s \in D : mean[s] = f[s]}
  <1>8. B = D
    <2>1. ASSUME NEW s \in D, \A e \in D : rank[e] < rank[s] => e \in B
          PROVE  s \in B
      <3>1. \A e \in D : rank[e] < rank[s] => f[e] \in Value /\ mean[e] = f[e]
        BY <2>1
      <3>2. MeanStep(t, mean, s) = MeanStep(t, f, s)
        <4> HIDE DEF D, rank, B
        <4>. QED BY <1>3, <3>1
      <3>3. mean[s] = MeanStep(t, mean, s) /\ f[s] = MeanStep(t, f, s)
        <4> HIDE DEF D
        <4>. QED BY <1>6, <1>7
      <3>. QED BY <3>2, <3>3
    <2>2. B \in SUBSET D
      OBVIOUS
    <2> HIDE DEF B, D, n, rank
    <2>. QED BY <1>2, <2>1, <2>2, RankInduct
  <1>9. \A s \in D : mean[s] \in Value /\ mean[s] = MeanStep(t, mean, s)
    <2> SUFFICES ASSUME NEW s \in D PROVE mean[s] \in Value /\ mean[s] = MeanStep(t, mean, s)
      OBVIOUS
    <2>1. mean[s] = f[s]
      BY <1>8
    <2>2. mean[s] = MeanStep(t, mean, s)
      <3> HIDE DEF D
      <3>. QED BY <1>7
    <2> HIDE DEF D
    <2>. QED BY <2>1, <2>2
  <1>. QED BY <1>1, <1>9

-----------------------------------------------------------------------------
(* The evaluator computes what the grammar means.                            *)

\* A flag that was set survives a single token only: several tokens come out
\* with the flag clear.
Expected(t, s) ==
  LET v == Meaning(t)[<<s[1], s[2]>>]
  IN  IF v.defined
      THEN [val |-> v.val, bad |-> s[1] = s[2] /\ s[3], dead |-> FALSE]
      ELSE Dead

\* The scan around an operator between two single tokens meets no parentheses.
LEMMA ScanFlagFalse ==
  ASSUME NEW t, NEW p \in Nat, NEW q \in Nat, t[p] # "(", t[p + 1] # "(", q = p + 2
  PROVE  scan_flag(t, p, q, FALSE) = FALSE
  <1>1. \A i \in p .. q : opens(t, p, i) = {}
    <2> SUFFICES ASSUME NEW i \in p .. q, NEW j \in p .. i - 1 PROVE t[j] # "("
      BY DEF opens
    <2>1. j = p \/ j = p + 1
      OBVIOUS
    <2>. QED BY <2>1
  <1>2. operators(t, p, q) \subseteq p .. q
    BY DEF operators
  <1>3. {i \in operators(t, p, q) : opens(t, p, i) # {} /\ closes(t, i, q) # {}} = {}
    BY <1>1, <1>2
  <1>. QED BY <1>3 DEF scan_flag

LEMMA EvalSingle ==
  ASSUME NEW t \in Expression, NEW s \in Places(t), s[1] = s[2]
  PROVE  eval(t)[s] = Expected(t, s)
  <1> DEFINE p == s[1]
  <1>1. p \in 1 .. Len(t) + 1 /\ s[2] \in 0 .. Len(t) /\ Len(t) \in Nat
    BY DEF Places, Expression
  <1>2. ~(s[1] > s[2]) /\ s[1] >= s[2]
    BY <1>1
  <1>3. eval(t)[s] = [val |-> literal(t[p]), bad |-> s[3], dead |-> FALSE]
    <2>1. eval(t)[s] = EvalStep(t, eval(t), s)
      BY EvalIs
    <2>. QED BY <2>1, <1>2 DEF EvalStep
  <1>4. <<p, s[2]>> \in Spans(t)
    BY <1>1 DEF Spans
  <1>5. Meaning(t)[<<p, s[2]>>] = [val |-> literal(t[p]), defined |-> TRUE]
    <2>1. Meaning(t)[<<p, s[2]>>] = MeanStep(t, Meaning(t), <<p, s[2]>>)
      BY <1>1, <1>4, MeaningIs
    <2>. QED BY <2>1, <1>2 DEF MeanStep
  <1>6. s[3] \in BOOLEAN
    BY DEF Places
  <1> DEFINE v == Meaning(t)[<<s[1], s[2]>>]
  <1>7. v.defined /\ v.val = literal(t[p])
    BY <1>5
  <1>8. Expected(t, s) = [val |-> v.val, bad |-> s[1] = s[2] /\ s[3], dead |-> FALSE]
    <2>1. Expected(t, s) = IF v.defined
                           THEN [val |-> v.val, bad |-> s[1] = s[2] /\ s[3], dead |-> FALSE]
                           ELSE Dead
      BY DEF Expected
    <2> HIDE DEF v
    <2>. QED BY <1>7, <2>1
  <1>9. (s[1] = s[2] /\ s[3]) = s[3]
    BY <1>6
  <1> HIDE DEF v, p
  <1>. QED BY <1>3, <1>7, <1>8, <1>9

LEMMA EvalSurrounded ==
  ASSUME NEW t \in Expression, NEW s \in Places(t), s[1] < s[2],
         Segment(t, s[1], s[2]), surrounded(t, s[1], s[2]),
         eval(t)[<<s[1] + 1, s[2] - 1, FALSE>>]
           = Expected(t, <<s[1] + 1, s[2] - 1, FALSE>>)
  PROVE  eval(t)[s] = Expected(t, s)
  <1> DEFINE p == s[1]
             q == s[2]
             e == <<p + 1, q - 1, FALSE>>
             v == Meaning(t)[<<p + 1, q - 1>>]
  <1>1. p \in 1 .. Len(t) + 1 /\ q \in 0 .. Len(t) /\ Len(t) \in Nat
    BY DEF Places, Expression
  <1>2. ~(p > q) /\ p # q /\ ~(p >= q)
    BY <1>1
  <1>3. eval(t)[s] = eval(t)[e]
    <2>1. eval(t)[s] = EvalStep(t, eval(t), s)
      BY EvalIs
    <2>. QED BY <2>1, <1>2 DEF EvalStep
  <1>4. Root(t, p, q) = 0
    BY SurroundedHasNone, MainOpIs
  <1>5. <<p, q>> \in Spans(t)
    BY <1>1 DEF Spans
  <1>6. Meaning(t)[<<p, q>>] = v
    <2>1. Meaning(t)[<<p, q>>] = MeanStep(t, Meaning(t), <<p, q>>)
      BY <1>1, <1>5, MeaningIs
    <2>. QED BY <2>1, <1>2, <1>4 DEF MeanStep
  <1>7. Expected(t, e)
          = IF v.defined THEN [val |-> v.val, bad |-> FALSE, dead |-> FALSE] ELSE Dead
    BY DEF Expected
  <1>8. Expected(t, s)
          = IF v.defined THEN [val |-> v.val, bad |-> FALSE, dead |-> FALSE] ELSE Dead
    BY <1>2, <1>6 DEF Expected
  <1>. QED BY <1>3, <1>7, <1>8

LEMMA EvalApplied ==
  ASSUME NEW t \in Expression, NEW s \in Places(t), s[1] < s[2],
         Segment(t, s[1], s[2]), ~surrounded(t, s[1], s[2]),
         \A e \in Below(t, s) : Segment(t, e[1], e[2]) => eval(t)[e] = Expected(t, e)
  PROVE  eval(t)[s] = Expected(t, s)
  <1> DEFINE p == s[1]
             q == s[2]
             m == Root(t, p, q)
             flag  == scan_flag(t, p, q, FALSE)
             left  == eval(t)[<<p, m - 1, flag>>]
             right == eval(t)[<<m + 1, q, left.bad>>]
             lv == Meaning(t)[<<p, m - 1>>]
             rv == Meaning(t)[<<m + 1, q>>]
  <1>1. p \in 1 .. Len(t) + 1 /\ q \in 0 .. Len(t) /\ Len(t) \in Nat
    BY DEF Places, Expression
  <1>2. ~(p > q) /\ p # q /\ ~(p >= q) /\ p \in Nat /\ q \in Nat
    BY <1>1
  <1>3. main_op(t, p, q) = m /\ m # 0 /\ m \in Outer(t, p, q)
    BY OthersHaveOne, MainOpIs
  <1>4. m \in Nat /\ t[m] \in Binary /\ t[m] # "deref" /\ m \in p .. q
    BY <1>2, <1>3, KindsDiffer DEF Outer
  <1>5. /\ p < m /\ m < q
        /\ Segment(t, p, m - 1) /\ Segment(t, m + 1, q)
    BY <1>3, OuterSegments
  <1>6. eval(t)[s] = IF left.dead \/ right.dead \/ (t[m] = "/" /\ right.val = 0)
                     THEN Dead
                     ELSE [val |-> Apply(t[m], left.val, right.val),
                           bad |-> right.bad, dead |-> FALSE]
    <2>1. eval(t)[s] = EvalStep(t, eval(t), s)
      BY EvalIs
    <2>2. ~unbalanced(t, p, q)
      BY SegmentBalanced
    <2>. QED BY <2>1, <2>2, <1>2, <1>3, <1>4 DEF EvalStep
  <1>7. Meaning(t)[<<p, q>>]
          = [val |-> Apply(t[m], lv.val, rv.val),
             defined |-> lv.defined /\ rv.defined /\ (t[m] = "/" => rv.val # 0)]
    <2>1. <<p, q>> \in Spans(t)
      BY <1>1 DEF Spans
    <2>2. Meaning(t)[<<p, q>>] = MeanStep(t, Meaning(t), <<p, q>>)
      BY <1>1, <2>1, MeaningIs
    <2>. QED BY <2>2, <1>2, <1>3 DEF MeanStep
  <1>8. flag \in BOOLEAN
    BY ScanFlagType
  <1>9. left = IF lv.defined
               THEN [val |-> lv.val, bad |-> p = m - 1 /\ flag, dead |-> FALSE]
               ELSE Dead
    <2>1. <<p, m - 1, flag>> \in Below(t, s)
      BY <1>3, <1>8, PlacesBelow
    <2>2. left = Expected(t, <<p, m - 1, flag>>)
      BY <1>5, <2>1
    <2>. QED BY <2>2 DEF Expected
  <1>10. left.bad = (lv.defined /\ p = m - 1 /\ flag) /\ left.dead = ~lv.defined
    <2>1. lv \in Value
      <3>1. <<p, m - 1>> \in Spans(t)
        BY <1>1, <1>4, <1>5 DEF Spans
      <3>. QED BY <1>1, <3>1, MeaningIs
    <2>2. lv.defined \in BOOLEAN
      BY <2>1 DEF Value
    <2> HIDE DEF lv, left, m, flag
    <2>. QED BY <1>8, <1>9, <2>2 DEF Dead
  <1>11. right = IF rv.defined
                 THEN [val |-> rv.val, bad |-> m + 1 = q /\ left.bad, dead |-> FALSE]
                 ELSE Dead
    <2>1. left.bad \in BOOLEAN
      BY <1>10
    <2>2. <<m + 1, q, left.bad>> \in Below(t, s)
      BY <1>3, <2>1, PlacesBelow
    <2>3. right = Expected(t, <<m + 1, q, left.bad>>)
      BY <1>5, <2>2
    <2>. QED BY <2>3 DEF Expected
  <1>12. rv.defined \in BOOLEAN
    <2>1. <<m + 1, q>> \in Spans(t)
      BY <1>1, <1>4, <1>5 DEF Spans
    <2>2. rv \in Value
      BY <1>1, <2>1, MeaningIs
    <2>. QED BY <2>2 DEF Value
  <1>13. ASSUME p = m - 1, m + 1 = q PROVE ~flag
    <2>1. t[p] # "("
      <3>1. t[m - 1] \in Numbers \cup {")"}
        BY <1>5 DEF Segment
      <3>. QED BY <1>13, <3>1, KindsDiffer
    <2>2. p + 1 = m /\ q = p + 2
      BY <1>2, <1>4, <1>13
    <2>3. t[p + 1] # "("
      BY <1>4, <2>2, KindsDiffer
    <2>. QED BY <1>2, <2>1, <2>2, <2>3, ScanFlagFalse
  <1>14. Expected(t, s)
           = IF lv.defined /\ rv.defined /\ (t[m] = "/" => rv.val # 0)
             THEN [val |-> Apply(t[m], lv.val, rv.val), bad |-> FALSE, dead |-> FALSE]
             ELSE Dead
    <2> DEFINE v == Meaning(t)[<<s[1], s[2]>>]
               defined == lv.defined /\ rv.defined /\ (t[m] = "/" => rv.val # 0)
    <2>1. v.defined = defined /\ v.val = Apply(t[m], lv.val, rv.val)
      <3>1. v = [val |-> Apply(t[m], lv.val, rv.val), defined |-> defined]
        <4> HIDE DEF m, lv, rv
        <4>. QED BY <1>7
      <3> HIDE DEF m, lv, rv, v, defined
      <3>. QED BY <3>1
    <2>3. Expected(t, s) = IF v.defined
                           THEN [val |-> v.val, bad |-> s[1] = s[2] /\ s[3], dead |-> FALSE]
                           ELSE Dead
      BY DEF Expected
    <2> DEFINE bad == s[1] = s[2] /\ s[3]
    <2>4. bad = FALSE
      BY <1>2
    <2> HIDE DEF v, defined, lv, rv, m, bad
    <2>5. CASE defined
      <3>1. Expected(t, s) = [val |-> v.val, bad |-> bad, dead |-> FALSE]
        BY <2>1, <2>3, <2>5 DEF bad
      <3>. QED BY <2>1, <2>4, <2>5, <3>1 DEF defined
    <2>6. CASE ~defined
      <3>1. Expected(t, s) = Dead
        BY <2>1, <2>3, <2>6
      <3>. QED BY <2>6, <3>1 DEF defined
    <2>. QED BY <2>5, <2>6
  <1> HIDE DEF p, q, m, flag, left, right, lv, rv
  <1>15. CASE lv.defined /\ rv.defined
    <2>1. left.val = lv.val /\ right.val = rv.val /\ ~left.dead /\ ~right.dead
      BY <1>9, <1>11, <1>15
    <2>2. right.bad = FALSE
      BY <1>8, <1>10, <1>11, <1>13, <1>15
    <2>. QED BY <1>6, <1>14, <1>15, <2>1, <2>2
  <1>16. CASE ~(lv.defined /\ rv.defined)
    <2>1. left.dead \/ right.dead
      BY <1>9, <1>11, <1>16 DEF Dead
    <2>. QED BY <1>6, <1>14, <1>16, <2>1
  <1>. QED BY <1>15, <1>16

LEMMA EvalCorrect ==
  ASSUME NEW t \in Expression
  PROVE  \A s \in Places(t) : Segment(t, s[1], s[2]) => eval(t)[s] = Expected(t, s)
  <1> DEFINE D    == Places(t)
             n    == Len(t)
             rank == [s \in D |-> Length(s[1], s[2])]
             B    == {s \in D : Segment(t, s[1], s[2]) => eval(t)[s] = Expected(t, s)}
  <1>1. n \in Nat /\ rank \in [D -> 0 .. n]
    <2>1. n \in Nat
      BY DEF Expression
    <2>2. ASSUME NEW s \in D PROVE Length(s[1], s[2]) \in 0 .. n
      <3>1. s[1] \in 1 .. n + 1 /\ s[2] \in 0 .. n
        BY DEF Places
      <3>. QED BY <2>1, <3>1 DEF Length
    <2>. QED BY <2>1, <2>2
  <1>2. ASSUME NEW s \in D, Segment(t, s[1], s[2]),
               \A e \in Below(t, s) : Segment(t, e[1], e[2]) => eval(t)[e] = Expected(t, e)
        PROVE  eval(t)[s] = Expected(t, s)
    <2>1. s[1] \in Nat /\ s[2] \in Nat /\ s[1] <= s[2]
      BY <1>2 DEF Segment
    <2>2. CASE s[1] = s[2]
      BY <2>2, EvalSingle
    <2>3. CASE s[1] < s[2] /\ surrounded(t, s[1], s[2])
      <3>1. <<s[1] + 1, s[2] - 1, FALSE>> \in Below(t, s)
        BY <2>3, PlacesBelow
      <3>2. Segment(t, s[1] + 1, s[2] - 1)
        BY <1>2, <2>3, InnerSegment
      <3>3. eval(t)[<<s[1] + 1, s[2] - 1, FALSE>>]
              = Expected(t, <<s[1] + 1, s[2] - 1, FALSE>>)
        BY <1>2, <3>1, <3>2
      <3>. QED BY <1>2, <2>3, <3>3, EvalSurrounded
    <2>4. CASE s[1] < s[2] /\ ~surrounded(t, s[1], s[2])
      BY <1>2, <2>4, EvalApplied
    <2>. QED BY <2>1, <2>2, <2>3, <2>4
  <1>3. \A s \in D : (\A e \in D : rank[e] < rank[s] => e \in B) => s \in B
    <2> SUFFICES ASSUME NEW s \in D, \A e \in D : rank[e] < rank[s] => e \in B
                 PROVE  s \in B
      OBVIOUS
    <2>1. \A e \in Below(t, s) : Segment(t, e[1], e[2]) => eval(t)[e] = Expected(t, e)
      BY DEF Below
    <2>. QED BY <1>2, <2>1
  <1>4. B \in SUBSET D
    OBVIOUS
  <1>5. B = D
    <2> HIDE DEF B, D, n, rank
    <2>. QED BY <1>1, <1>3, <1>4, RankInduct
  <1>. QED BY <1>5

-----------------------------------------------------------------------------
(* Whole expressions.                                                        *)

LEMMA WellFormedSegment ==
  ASSUME NEW t \in Seq(Tokens), WellFormed(t)
  PROVE  Segment(t, 1, Len(t))
  <1>1. Len(t) \in Nat /\ Len(t) >= 1 /\ DOMAIN t = 1 .. Len(t)
    BY DEF WellFormed, Ends
  <1>2. Open(t, 0) = 0
    <2>1. count(t, 1, 0, "(") = 0 /\ count(t, 1, 0, ")") = 0
      BY CountEmpty
    <2>. QED BY <2>1 DEF Open, depth
  <1>3. \A i \in 1 .. Len(t) :
          t[i] \in IF Expects(t, 1, i) THEN Numbers \cup {"("} ELSE Binary \cup {")"}
    BY <1>1 DEF WellFormed, Starts, Expects
  <1>4. \A i \in 1 .. Len(t) : Open(t, i) >= 0
    BY <1>1 DEF WellFormed, Starts, Open
  <1>5. Open(t, Len(t)) = 0 /\ t[Len(t)] \in Numbers \cup {")"}
    BY DEF WellFormed, Ends, Open
  <1>6. 1 - 1 = 0
    OBVIOUS
  <1>. QED BY <1>1, <1>2, <1>3, <1>4, <1>5, <1>6 DEF Segment

\* No star of a well-formed expression stands where an operand is expected, and
\* no character of it is unknown.
LEMMA WellFormedTokens ==
  ASSUME NEW t \in Seq(Tokens), WellFormed(t)
  PROVE  /\ dereferences(t) = t
         /\ \A i \in DOMAIN t : t[i] # "?"
  <1>1. \A i \in DOMAIN t :
          /\ t[i] \in Numbers \cup Binary \cup {"(", ")"}
          /\ i = 1 \/ t[i - 1] \in Binary \cup {"("} => t[i] \in Numbers \cup {"("}
    BY DEF WellFormed, Starts
  <1>2. "?" \notin Numbers \cup Binary \cup {"(", ")"} /\ "*" \notin Numbers \cup {"("}
    BY ExprAssumption DEF Binary
  <1>3. t = [i \in DOMAIN t |-> t[i]]
    OBVIOUS
  <1>4. ASSUME NEW i \in DOMAIN t, converted(t, i)
        PROVE  FALSE
    <2>1. i \in Nat /\ i >= 1
      OBVIOUS
    <2>2. PICK j \in 1 .. i :
            /\ \A k \in j .. i : t[k] = "*"
            /\ (i - j) % 2 = IF j = 1 \/ t[j - 1] \in Binary \cup {"("} THEN 0 ELSE 1
      BY <1>4, Zenon DEF converted
    <2>3. t[i] = "*" /\ ~(i = 1 \/ t[i - 1] \in Binary \cup {"("})
      BY <1>1, <1>2, <2>1, <2>2
    <2>4. CASE i = j
      <3>1. (i - j) % 2 = 0
        BY <2>1, <2>4
      <3>. QED BY <2>2, <2>3, <2>4, <3>1
    <2>5. CASE i # j
      <3>1. i - 1 \in j .. i
        BY <2>1, <2>2, <2>5
      <3>2. t[i - 1] = "*"
        BY <2>2, <3>1
      <3>. QED BY <2>3, <3>2 DEF Binary
    <2>. QED BY <2>4, <2>5
  <1>5. dereferences(t) = t
    BY <1>3, <1>4 DEF dereferences
  <1>. QED BY <1>1, <1>2, <1>5

\* What eval is given: an expression, as long as what was typed.
LEMMA DereferencesType ==
  ASSUME NEW t \in Seq(Tokens), \A i \in DOMAIN t : t[i] # "?"
  PROVE  dereferences(t) \in Expression /\ Len(dereferences(t)) = Len(t)
  <1> DEFINE d == dereferences(t)
  <1>1. Len(t) \in Nat /\ DOMAIN t = 1 .. Len(t)
    OBVIOUS
  <1>2. \A i \in 1 .. Len(t) : t[i] \in Typed \ {"?"}
    BY <1>1 DEF Typed
  <1>3. "deref" \in Typed \ {"?"}
    BY DEF Typed
  <1>4. d \in [1 .. Len(t) -> Typed \ {"?"}]
    BY <1>1, <1>2, <1>3 DEF dereferences
  <1> HIDE DEF d
  <1>5. d \in Seq(Typed \ {"?"}) /\ Len(d) = Len(t)
    BY <1>1, <1>4
  <1>. QED BY <1>5 DEF Expression, d

LEMMA EvalWellFormed ==
  ASSUME NEW t \in Seq(Tokens), WellFormed(t), Len(t) > 1, NEW b \in BOOLEAN
  PROVE  LET v == Meaning(t)[<<1, Len(t)>>]
         IN  eval(dereferences(t))[<<1, Len(t), b>>]
               = IF v.defined THEN [val |-> v.val, bad |-> FALSE, dead |-> FALSE] ELSE Dead
  <1> DEFINE s == <<1, Len(t), b>>
  <1>1. dereferences(t) = t /\ \A i \in DOMAIN t : t[i] # "?"
    BY WellFormedTokens
  <1>2. t \in Expression
    BY <1>1, DereferencesType
  <1>3. Segment(t, 1, Len(t))
    BY WellFormedSegment
  <1>4. s \in Places(t) /\ s[1] = 1 /\ s[2] = Len(t) /\ 1 # Len(t)
    <2>1. Len(t) \in Nat /\ 1 # Len(t)
      OBVIOUS
    <2>2. 1 \in 1 .. Len(t) + 1 /\ Len(t) \in 0 .. Len(t)
      BY <2>1
    <2>3. s \in Places(t)
      BY <2>2 DEF Places
    <2>. QED BY <2>1, <2>3
  <1>5. eval(t)[s] = Expected(t, s)
    <2>1. Segment(t, s[1], s[2])
      BY <1>3, <1>4
    <2> HIDE DEF s
    <2>. QED BY <1>2, <1>4, <2>1, EvalCorrect
  <1>. QED BY <1>1, <1>4, <1>5 DEF Expected

-----------------------------------------------------------------------------
(* The invariant. *)

ExprType == tokens \in Seq(Tokens) /\ bad_expr \in BOOLEAN

LEMMA TypeStep ==
  ASSUME ExprType, [Next]_vars
  PROVE  ExprType'
  <1>1. CASE expr
    <2>1. CASE \E i \in DOMAIN tokens : tokens[i] = "?"
      BY <1>1, <2>1 DEF expr, ExprType
    <2>2. CASE ~ \E i \in DOMAIN tokens : tokens[i] = "?"
      <3> DEFINE d == dereferences(tokens)
                 r == eval(d)[<<1, Len(tokens), bad_expr>>]
      <3>1. d \in Expression /\ Len(d) = Len(tokens) /\ Len(tokens) \in Nat
        BY <2>2, DereferencesType DEF ExprType
      <3>2. <<1, Len(tokens), bad_expr>> \in Places(d)
        BY <3>1 DEF ExprType, Places
      <3>3. r \in Outcome
        BY <3>1, <3>2, EvalIs
      <3>4. bad_expr' = r.bad /\ tokens' = tokens
        BY <1>1, <2>2 DEF expr
      <3> HIDE DEF r
      <3>. QED BY <3>3, <3>4 DEF ExprType, Outcome
    <2>. QED BY <2>1, <2>2
  <1>2. CASE Again
    BY <1>2 DEF Again, ExprType
  <1>3. ASSUME NEW c \in Tokens, Type(c) PROVE ExprType'
    BY <1>3 DEF Type, ExprType
  <1>4. CASE UNCHANGED vars
    BY <1>4 DEF vars, ExprType
  <1>. QED BY <1>1, <1>2, <1>3, <1>4 DEF Next

LEMMA ValuesStep ==
  ASSUME ExprType, ValuesAgree, [Next]_vars
  PROVE  ValuesAgree'
  <1>1. CASE expr
    <2> SUFFICES ASSUME WellFormed(tokens), Len(tokens) > 1
                 PROVE  result' = IF Reference.defined
                                  THEN [end |-> "ok", val |-> Reference.val]
                                  ELSE [end |-> "dead", val |-> 0]
      <3>1. tokens' = tokens
        BY <1>1 DEF expr
      <3>. QED BY <3>1 DEF ValuesAgree, Reference
    <2> DEFINE r == eval(dereferences(tokens))[<<1, Len(tokens), bad_expr>>]
    <2>1. ~ \E i \in DOMAIN tokens : tokens[i] = "?"
      BY WellFormedTokens DEF ExprType
    <2>2. result' = IF r.dead THEN [end |-> "dead", val |-> 0]
                    ELSE IF r.bad THEN [end |-> "fail", val |-> 0]
                    ELSE [end |-> "ok", val |-> r.val]
      BY <1>1, <2>1 DEF expr
    <2>3. r = IF Reference.defined
              THEN [val |-> Reference.val, bad |-> FALSE, dead |-> FALSE] ELSE Dead
      BY EvalWellFormed DEF ExprType, Reference
    <2> HIDE DEF r
    <2>. QED BY <2>2, <2>3 DEF Dead
  <1>2. CASE Again
    BY <1>2 DEF Again, Typing, ValuesAgree
  <1>3. ASSUME NEW c \in Tokens, Type(c) PROVE ValuesAgree'
    <2>1. result'.end = "none"
      BY <1>3 DEF Type
    <2>. QED BY <2>1 DEF ValuesAgree
  <1>4. CASE UNCHANGED vars
    <2>1. tokens' = tokens /\ result' = result
      BY <1>4 DEF vars
    <2>. QED BY <2>1 DEF ValuesAgree, Reference
  <1>. QED BY <1>1, <1>2, <1>3, <1>4 DEF Next

\* Whatever the numbers are, however long an expression may be and whatever was
\* typed before it (a failure stays in the flag bad_expr): expr accepts every
\* well-formed expression of several tokens, with the value that the grammar
\* and the binding of C give it, or kills the process when it divides by 0.
THEOREM ValuesAgreeCorrect == Spec => []ValuesAgree
  <1>1. Init => ExprType /\ ValuesAgree
    <2> SUFFICES ASSUME Init PROVE ExprType /\ ValuesAgree
      OBVIOUS
    <2>1. result.end = "none"
      BY DEF Init, Typing
    <2>2. tokens \in Seq(Tokens)
      <3>1. tokens = <<>>
        BY DEF Init
      <3>. QED BY <3>1
    <2>3. bad_expr \in BOOLEAN
      BY DEF Init
    <2>. QED BY <2>1, <2>2, <2>3 DEF ValuesAgree, ExprType
  <1>2. ExprType /\ ValuesAgree /\ [Next]_vars => ExprType' /\ ValuesAgree'
    BY TypeStep, ValuesStep
  <1>. QED BY <1>1, <1>2, PTL DEF Spec
=============================================================================
