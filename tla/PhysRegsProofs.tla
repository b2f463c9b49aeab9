--------------------------- MODULE PhysRegsProofs ---------------------------
(***************************************************************************)
(* Proofs about PhysRegs, for every number of architectural and physical   *)
(* registers and every width of renaming and retirement: the physical      *)
(* registers are neither lost nor owned twice, each architectural register *)
(* is held by one, renaming goes on from the retired state, the mirror is  *)
(* exact, and a flush does not overtake results.                           *)
(***************************************************************************)
EXTENDS PhysRegs, Induction, SequenceTheorems

\* The front end is empty while a mispredicted jump or a flush of the back end
\* waits; what was dispatched is dropped when a flush begins.
Phase ==
    /\ stall \/ flush \in {"IS", "IS_BE", "WF_EMPTY", "BE"} => is = <<>>
    /\ flush # "IDLE" => rob = <<>>

\* The mirror names the retired preg of each register.
Mirror == \A a \in Arch : Mapped(a) = {table[a]} /\ arch[a] = table[a]

\* An instruction releases what held its register before it, a part of a split
\* instruction its own preg.
Chain ==
    flush = "IDLE" =>
        \A j \in 1..Len(InFlight) :
            /\ InFlight[j].dst = Temp => InFlight[j].rel = InFlight[j].preg
            /\ \A a \in Arch : InFlight[j].dst = a => Holder(a, j) = {InFlight[j].rel}
RtLast ==
    ~Flushing =>
        \A a \in Arch, k \in Nat : k = Len(InFlight) + 1 => Holder(a, k) = {rt[a]}

\* A preg with its result owes none, nor does a free one.
Wrote == \A p \in Pregs : wb[p] \/ life[p] \in {"DEALLOC", "WF_ALLOC"} => owed[p] = 0

\* What is in flight has a destination and something to release.
Typed == TypeOK /\ \A j \in 1..Len(rob) : /\ info[rob[j]].dst \in 1..Temp
                                          /\ info[rob[j]].rel \in Pregs

Inv == /\ Typed /\ Phase /\ OneOwner /\ Mirror /\ Chain /\ RtLast /\ Wrote
       /\ FlushAfterWriteBack /\ WaitsForResult
-----------------------------------------------------------------------------
(* Least and greatest elements.                                            *)

LEMMA GreatestIs ==
    ASSUME NEW n \in Nat, NEW S \in SUBSET (0..n)
    PROVE  IF S = {} THEN Greatest(S) = None
           ELSE Greatest(S) \in S /\ \A q \in S : Greatest(S) >= q
    BY Extremes DEF Greatest

LEMMA LeastIs ==
    ASSUME NEW n \in Nat, NEW S \in SUBSET (0..n)
    PROVE  IF S = {} THEN Least(S) = None
           ELSE Least(S) \in S /\ \A q \in S : Least(S) <= q
    BY Extremes DEF Least

-----------------------------------------------------------------------------
(* The last writer of a register in a sequence F of instructions, before   *)
(* the j-th of them; M when none writes it.                                *)

Last(F, M, a, j) ==
    LET writers == {k \in 1 .. j - 1 : F[k].dst = a}
    IN IF writers = {} THEN M ELSE {F[Greatest(writers)].preg}

LEMMA HolderIsLast ==
    \A a, j : Holder(a, j) = Last(InFlight, Mapped(a), a, j)
    BY DEF Holder, Last

LEMMA LastIs ==
    ASSUME NEW F, NEW M, NEW a, NEW j \in Nat \ {0}
    PROVE  /\ (\A k \in 1 .. j - 1 : F[k].dst # a) => Last(F, M, a, j) = M
           /\ \A k \in 1 .. j - 1 :
                F[k].dst = a /\ (\A m \in k + 1 .. j - 1 : F[m].dst # a)
                  => Last(F, M, a, j) = {F[k].preg}
           /\ \/ \A k \in 1 .. j - 1 : F[k].dst # a
              \/ \E k \in 1 .. j - 1 : /\ F[k].dst = a
                                       /\ \A m \in k + 1 .. j - 1 : F[m].dst # a
    <1> DEFINE W == {k \in 1 .. j - 1 : F[k].dst = a}
    <1>1. W \in SUBSET (0 .. j - 1) /\ j - 1 \in Nat
      OBVIOUS
    <1>2. Last(F, M, a, j) = IF W = {} THEN M ELSE {F[Greatest(W)].preg}
      BY DEF Last
    <1>3. IF W = {} THEN TRUE ELSE Greatest(W) \in W /\ \A q \in W : Greatest(W) >= q
      <2> HIDE DEF W
      <2>. QED BY <1>1, GreatestIs
    <1>4. (\A k \in 1 .. j - 1 : F[k].dst # a) => Last(F, M, a, j) = M
      BY <1>2
    <1>5. ASSUME NEW k \in 1 .. j - 1, F[k].dst = a,
                 \A m \in k + 1 .. j - 1 : F[m].dst # a
          PROVE  Last(F, M, a, j) = {F[k].preg}
      <2>1. k \in W /\ \A q \in W : q <= k
        BY <1>5
      <2>2. Greatest(W) = k
        BY <1>3, <2>1
      <2>. QED BY <1>2, <2>1, <2>2
    <1>6. \/ \A k \in 1 .. j - 1 : F[k].dst # a
          \/ \E k \in 1 .. j - 1 : /\ F[k].dst = a
                                   /\ \A m \in k + 1 .. j - 1 : F[m].dst # a
      <2>1. CASE W = {}
        BY <2>1
      <2>2. CASE W # {}
        <3>1. PICK g : g \in W /\ \A q \in W : g >= q
          BY <1>3, <2>2
        <3>. QED BY <3>1
      <2>. QED BY <2>1, <2>2
    <1>. QED BY <1>4, <1>5, <1>6

\* One instruction more.
LEMMA LastNext ==
    ASSUME NEW F, NEW M, NEW a, NEW j \in Nat \ {0}
    PROVE  /\ Last(F, M, a, 1) = M
           /\ Last(F, M, a, j + 1) = IF F[j].dst = a THEN {F[j].preg} ELSE Last(F, M, a, j)
    <1>1. Last(F, M, a, 1) = M
      BY LastIs
    <1>2. CASE F[j].dst = a
      BY <1>2, LastIs
    <1>3. CASE F[j].dst # a
      <2> DEFINE W == {k \in 1 .. j - 1 : F[k].dst = a}
                 V == {k \in 1 .. (j + 1) - 1 : F[k].dst = a}
      <2>1. V = W
        BY <1>3
      <2>2. Last(F, M, a, j) = IF W = {} THEN M ELSE {F[Greatest(W)].preg}
        BY DEF Last
      <2>3. Last(F, M, a, j + 1) = IF V = {} THEN M ELSE {F[Greatest(V)].preg}
        BY DEF Last
      <2> HIDE DEF W, V
      <2>. QED BY <1>1, <1>3, <2>1, <2>2, <2>3
    <1>. QED BY <1>1, <1>2, <1>3

LEMMA HolderNext ==
    /\ \A a : Holder(a, 1) = Mapped(a)
    /\ \A a : \A j \in Nat \ {0} :
          Holder(a, j + 1) = IF InFlight[j].dst = a THEN {InFlight[j].preg} ELSE Holder(a, j)
    <1>1. ASSUME NEW a, NEW j \in Nat \ {0}
          PROVE  /\ Holder(a, 1) = Mapped(a)
                 /\ Holder(a, j + 1) = IF InFlight[j].dst = a THEN {InFlight[j].preg}
                                       ELSE Holder(a, j)
      <2> DEFINE F == InFlight
                 M == Mapped(a)
      <2> HIDE DEF F, M
      <2>1. Last(F, M, a, 1) = M
        BY LastNext, 1 \in Nat \ {0}
      <2>2. Last(F, M, a, j + 1) = IF F[j].dst = a THEN {F[j].preg} ELSE Last(F, M, a, j)
        BY LastNext
      <2>. QED BY <2>1, <2>2, HolderIsLast DEF F, M
    <1>2. 1 \in Nat \ {0}
      OBVIOUS
    <1>. QED BY <1>1, <1>2

\* The first l instructions of R follow on the first m of F.
Follows(F, m, R, l) == \A k \in 1..l : F[m + k] = R[k]

LEMMA LastConcat ==
    ASSUME NEW F, NEW M, NEW a, NEW R, NEW m \in Nat, NEW j \in Nat \ {0},
           Follows(F, m, R, j - 1)
    PROVE  Last(F, M, a, m + j) = Last(R, Last(F, M, a, m + 1), a, j)
    <1>0. \A k \in 1 .. j - 1 : F[m + k] = R[k]
      BY DEF Follows
    <1> DEFINE N == Last(F, M, a, m + 1)
    <1>1. CASE \E k \in 1 .. j - 1 : /\ R[k].dst = a
                                     /\ \A i \in k + 1 .. j - 1 : R[i].dst # a
      <2>1. PICK k \in 1 .. j - 1 : /\ R[k].dst = a
                                    /\ \A i \in k + 1 .. j - 1 : R[i].dst # a
        BY <1>1
      <2>2. Last(R, N, a, j) = {R[k].preg}
        BY <2>1, LastIs
      <2>3. m + k \in 1 .. (m + j) - 1 /\ F[m + k].dst = a
            /\ \A i \in m + k + 1 .. (m + j) - 1 : F[i].dst # a
        <3>1. ASSUME NEW i \in m + k + 1 .. (m + j) - 1 PROVE F[i].dst # a
          <4>1. i - m \in k + 1 .. j - 1 /\ i = m + (i - m)
            OBVIOUS
          <4>2. F[m + (i - m)] = R[i - m]
            BY <1>0, <4>1
          <4>. QED BY <2>1, <4>1, <4>2
        <3>. QED BY <1>0, <2>1, <3>1
      <2>4. Last(F, M, a, m + j) = {F[m + k].preg}
        BY <2>3, LastIs
      <2>. QED BY <1>0, <2>1, <2>2, <2>4
    <1>2. CASE \A k \in 1 .. j - 1 : R[k].dst # a
      <2>1. Last(R, N, a, j) = N
        BY <1>2, LastIs
      <2> DEFINE W == {k \in 1 .. (m + j) - 1 : F[k].dst = a}
                 V == {k \in 1 .. (m + 1) - 1 : F[k].dst = a}
      <2>2. W = V
        <3>1. ASSUME NEW k \in W PROVE k \in V
          <4>1. CASE k > m
            <5>1. k - m \in 1 .. j - 1 /\ k = m + (k - m)
              BY <4>1
            <5>. QED BY <1>0, <1>2, <5>1
          <4>. QED BY <4>1
        <3>. QED BY <3>1
      <2>. QED BY <2>1, <2>2 DEF Last
    <1>. QED BY <1>1, <1>2, LastIs

-----------------------------------------------------------------------------
(* The slots of a packet in program order.                                 *)

Increasing(s) == \A i, j \in DOMAIN s : i < j => s[i] < s[j]
Onto(s, S)    == \A x \in S : \E k \in DOMAIN s : s[k] = x
Enumerable(S) == \E m \in Nat : \E s \in [1..m -> S] : Increasing(s) /\ Onto(s, S)

LEMMA EnumerateMore ==
    ASSUME NEW S, NEW k \in Nat, S \subseteq 0 .. k - 1, Enumerable(S)
    PROVE  Enumerable(S \cup {k})
    <1>1. PICK m \in Nat : \E s \in [1..m -> S] : Increasing(s) /\ Onto(s, S)
      BY DEF Enumerable
    <1>2. PICK s \in [1..m -> S] : Increasing(s) /\ Onto(s, S)
      BY <1>1
    <1> DEFINE t == [i \in 1 .. m + 1 |-> IF i <= m THEN s[i] ELSE k]
    <1>3. t \in [1 .. m + 1 -> S \cup {k}] /\ m + 1 \in Nat
      OBVIOUS
    <1>4. Increasing(t)
      <2>1. ASSUME NEW i \in 1..m PROVE s[i] < k
        <3>1. s[i] \in 0 .. k - 1
          OBVIOUS
        <3>. QED BY <3>1
      <2>. QED BY <1>2, <2>1 DEF Increasing
    <1>5. Onto(t, S \cup {k})
      <2>1. t[m + 1] = k /\ m + 1 \in DOMAIN t
        OBVIOUS
      <2>2. \A i \in 1..m : t[i] = s[i] /\ i \in DOMAIN t
        OBVIOUS
      <2>. QED BY <1>2, <2>1, <2>2 DEF Onto
    <1>. QED BY <1>3, <1>4, <1>5 DEF Enumerable

LEMMA InOrderIs ==
    ASSUME NEW S \in SUBSET Slots
    PROVE  /\ Cardinality(S) \in Nat /\ (Cardinality(S) = 0 <=> S = {})
           /\ InOrder(S) \in [1..Cardinality(S) -> S]
           /\ Increasing(InOrder(S)) /\ Onto(InOrder(S), S)
           /\ Len(InOrder(S)) = Cardinality(S)
    <1>0. S \in SUBSET (0..3)
      BY DEF Slots
    <1>1. IsFiniteSet(S) /\ Cardinality(S) \in Nat /\ (Cardinality(S) = 0 <=> S = {})
      <2>1. IsFiniteSet(0..3)
        BY FS_Interval, 0 \in Int, 3 \in Int
      <2>. QED BY <1>0, <2>1, FS_Subset, FS_CardinalityType, FS_EmptySet
    <1>2. Enumerable(S)
      <2> DEFINE upto(k) == S \cap (0 .. k - 1)
      <2>1. Enumerable(upto(0))
        <3>1. upto(0) = {} /\ <<>> \in [1..0 -> {}] /\ Increasing(<<>>) /\ Onto(<<>>, {})
          BY DEF Increasing, Onto
        <3>. QED BY <3>1, 0 \in Nat DEF Enumerable
      <2>2. ASSUME NEW k \in Nat, Enumerable(upto(k)) PROVE Enumerable(upto(k + 1))
        <3>1. CASE k \in S
          <4>1. upto(k + 1) = upto(k) \cup {k} /\ upto(k) \subseteq 0 .. k - 1
            BY <3>1
          <4> HIDE DEF upto
          <4>. QED BY <2>2, <4>1, EnumerateMore
        <3>2. CASE k \notin S
          <4>1. upto(k + 1) = upto(k)
            BY <3>2
          <4> HIDE DEF upto
          <4>. QED BY <2>2, <4>1
        <3>. QED BY <3>1, <3>2
      <2>3. S = upto(4)
        <3>1. \A x \in S : x \in 0 .. 4 - 1
          BY <1>0
        <3>. QED BY <3>1
      <2> HIDE DEF upto
      <2>4. Enumerable(upto(1))
        <3>1. Enumerable(upto(0 + 1))
          BY <2>1, <2>2
        <3>. QED BY <3>1
      <2>5. Enumerable(upto(2))
        <3>1. Enumerable(upto(1 + 1))
          BY <2>4, <2>2
        <3>. QED BY <3>1
      <2>6. Enumerable(upto(3))
        <3>1. Enumerable(upto(2 + 1))
          BY <2>5, <2>2
        <3>. QED BY <3>1
      <2>7. Enumerable(upto(4))
        <3>1. Enumerable(upto(3 + 1))
          BY <2>6, <2>2
        <3>. QED BY <3>1
      <2>. QED BY <2>3, <2>7
    <1>3. PICK m \in Nat : \E s \in [1..m -> S] : Increasing(s) /\ Onto(s, S)
      BY <1>2 DEF Enumerable
    <1>4. PICK s \in [1..m -> S] : Increasing(s) /\ Onto(s, S)
      BY <1>3
    <1>5. m = Cardinality(S)
      <2>1. s \in Bijection(1..m, S)
        <3>1. \A i, j \in 1..m : i # j => s[i] # s[j]
          <4>1. \A i, j \in 1..m : i < j => s[i] < s[j]
            BY <1>4 DEF Increasing
          <4>2. \A i \in 1..m : s[i] \in 0..3
            BY <1>0
          <4>. QED BY <4>1, <4>2
        <3>. QED BY <3>1, <1>4 DEF Onto, Bijection, Injection, Surjection, IsInjective
      <2>2. IsFiniteSet(1..m) /\ Cardinality(1..m) = m
        BY FS_Interval
      <2>. QED BY <2>1, <2>2, FS_Bijection DEF ExistsBijection
    <1>6. \E f \in [1..Cardinality(S) -> S] : \A i, j \in DOMAIN f : i < j => f[i] < f[j]
      BY <1>4, <1>5 DEF Increasing
    <1>7. InOrder(S) \in [1..Cardinality(S) -> S] /\ Increasing(InOrder(S))
      BY <1>6 DEF InOrder, Increasing
    <1>8. Onto(InOrder(S), S)
      <2> DEFINE f == InOrder(S)
      <2>1. f \in Injection(1..Cardinality(S), S)
        <3>1. \A i, j \in 1..Cardinality(S) : i # j => f[i] # f[j]
          <4>1. \A i, j \in 1..Cardinality(S) : i < j => f[i] < f[j]
            BY <1>7 DEF Increasing
          <4>2. \A i \in 1..Cardinality(S) : f[i] \in 0..3
            BY <1>7, <1>0
          <4>. QED BY <4>1, <4>2, <1>1
        <3>. QED BY <3>1, <1>7 DEF Injection, IsInjective
      <2>2. Cardinality(1..Cardinality(S)) = Cardinality(S)
        BY <1>1, FS_Interval
      <2>3. f \in Surjection(1..Cardinality(S), S)
        <3> HIDE DEF f
        <3>. QED BY <2>1, <2>2, <1>1, FS_Injection
      <2>. QED BY <2>3 DEF Surjection, Onto
    <1>9. Len(InOrder(S)) = Cardinality(S)
      BY <1>1, <1>7
    <1>. QED BY <1>1, <1>7, <1>8, <1>9

\* The results R of the slots S with destinations d, and the writers of a
\* register among the first k - 1 of them.
Results_of(R, S, d) == \A l \in 1..Cardinality(S) : /\ R[l].dst = d[InOrder(S)[l]]
                                                   /\ R[l].preg = alloc[InOrder(S)[l]]
First(S, d, a, k) == {j \in S : d[j] = a /\ \E l \in 1 .. k - 1 : InOrder(S)[l] = j}

LEMMA LastSlot ==
    ASSUME NEW S \in SUBSET Slots, NEW d, NEW M, NEW a, NEW R,
           NEW k \in 1 .. Cardinality(S) + 1, Results_of(R, S, d)
    PROVE  Last(R, M, a, k) = IF First(S, d, a, k) = {} THEN M
                              ELSE {alloc[Greatest(First(S, d, a, k))]}
    <1> DEFINE slot == InOrder(S)
               c == Cardinality(S)
               E == First(S, d, a, k)
    <1>1. /\ c \in Nat /\ slot \in [1..c -> S]
          /\ \A l \in 1..c : R[l].dst = d[slot[l]] /\ R[l].preg = alloc[slot[l]]
          /\ \A i, j \in 1..c : i < j => slot[i] < slot[j]
      BY InOrderIs DEF Increasing, Results_of
    <1>2. S \in SUBSET (0..3) /\ k \in Nat \ {0}
      BY <1>1 DEF Slots
    <1>0. /\ E \in SUBSET S
          /\ \A j \in S : j \in E <=> d[j] = a /\ \E l \in 1 .. k - 1 : slot[l] = j
      BY DEF First
    <1> HIDE DEF slot, c, E
    <1>3. CASE \A l \in 1 .. k - 1 : R[l].dst # a
      <2>1. E = {}
        <3>1. \A l \in 1 .. k - 1 : l \in 1..c /\ R[l].dst = d[slot[l]]
          BY <1>1 DEF c
        <3>. QED BY <1>0, <1>3, <3>1
      <2>. QED BY <1>2, <1>3, <2>1, LastIs DEF E
    <1>4. CASE \E l \in 1 .. k - 1 : /\ R[l].dst = a
                                     /\ \A m \in l + 1 .. k - 1 : R[m].dst # a
      <2>1. PICK l \in 1 .. k - 1 : /\ R[l].dst = a
                                    /\ \A m \in l + 1 .. k - 1 : R[m].dst # a
        BY <1>4
      <2>2. l \in 1..c /\ 1 .. k - 1 \subseteq 1..c
        BY <1>1 DEF c
      <2>3. slot[l] \in E
        BY <1>0, <1>1, <2>1, <2>2
      <2>4. ASSUME NEW j \in E PROVE slot[l] >= j
        <3>1. PICK m \in 1 .. k - 1 : slot[m] = j /\ d[j] = a
          BY <1>0
        <3>2. m \in 1..c /\ R[m].dst = a
          BY <1>1, <2>2, <3>1
        <3>3. m <= l
          BY <2>1, <3>2
        <3>4. slot[l] \in 0..3 /\ slot[m] \in 0..3
          BY <1>1, <1>2, <2>2
        <3>. QED BY <1>1, <2>2, <3>1, <3>2, <3>3, <3>4
      <2>5. Greatest(E) = slot[l]
        <3>1. E \in SUBSET (0..3)
          BY <1>0, <1>2
        <3>2. Greatest(E) \in E /\ \A q \in E : Greatest(E) >= q
          BY <2>3, <3>1, GreatestIs
        <3>3. Greatest(E) \in 0..3 /\ slot[l] \in 0..3
          BY <2>3, <3>1, <3>2
        <3>. QED BY <2>3, <2>4, <3>2, <3>3
      <2>6. Last(R, M, a, k) = {R[l].preg}
        BY <1>2, <2>1, LastIs
      <2>7. R[l].preg = alloc[slot[l]]
        BY <1>1, <2>2
      <2>8. E # {}
        BY <2>3
      <2>. QED BY <2>5, <2>6, <2>7, <2>8 DEF E
    <1>. QED BY <1>2, <1>3, <1>4, LastIs

\* A renamed packet releases what held its registers, and the table names what
\* holds them after it.
LEMMA RenamedIs ==
    ASSUME NEW S \in SUBSET Slots, NEW d \in [S -> 1..Temp],
           alloc \in [Slots -> Pregs \cup {None}], rt \in [Arch -> Pregs],
           \A i \in S : alloc[i] # None
    PROVE  LET R == Renamed(S, d)
           IN /\ R \in Seq(Results) /\ Len(R) = Cardinality(S)
              /\ \A k \in 1..Len(R) : /\ InOrder(S)[k] \in S
                                      /\ R[k].preg = alloc[InOrder(S)[k]]
                                      /\ R[k].dst = d[InOrder(S)[k]]
              /\ \A k \in 1..Len(R) :
                    IF R[k].dst = Temp THEN R[k].rel = R[k].preg
                    ELSE Last(R, {rt[R[k].dst]}, R[k].dst, k) = {R[k].rel}
              /\ ~yy_xx_flush =>
                    \A a \in Arch : Last(R, {rt[a]}, a, Len(R) + 1) = {RenameTable(S, d)[a]}
    <1> DEFINE slot == InOrder(S)
               c == Cardinality(S)
               R == Renamed(S, d)
               before(k) == {j \in S : j < slot[k] /\ d[j] = d[slot[k]]}
    <1>1. /\ c \in Nat /\ slot \in [1..c -> S] /\ Len(slot) = c /\ Onto(slot, S)
          /\ \A i, j \in 1..c : i < j => slot[i] < slot[j]
      BY InOrderIs DEF Increasing
    <1>2. S \in SUBSET (0..3)
      BY DEF Slots
    <1>3. R = [k \in 1..c |->
                 [preg |-> alloc[slot[k]], dst |-> d[slot[k]],
                  rel |-> IF d[slot[k]] = Temp THEN alloc[slot[k]]
                          ELSE IF before(k) = {} THEN rt[d[slot[k]]]
                          ELSE alloc[Greatest(before(k))]]]
      BY <1>1 DEF Renamed
    <1>4. \A i \in S : alloc[i] \in Pregs
      BY DEF Pregs, None
    <1>5. ASSUME NEW k \in 1..c
          PROVE  /\ slot[k] \in S /\ R[k].preg = alloc[slot[k]] /\ R[k].dst = d[slot[k]]
                 /\ R[k].rel = IF d[slot[k]] = Temp THEN alloc[slot[k]]
                               ELSE IF before(k) = {} THEN rt[d[slot[k]]]
                               ELSE alloc[Greatest(before(k))]
                 /\ R[k] \in Results
      <2>1. slot[k] \in S
        BY <1>1
      <2>2. d[slot[k]] \in 1..Temp /\ (d[slot[k]] # Temp => d[slot[k]] \in Arch)
        BY <2>1, PregsAssumption DEF Arch, Temp
      <2>3. before(k) # {} => Greatest(before(k)) \in before(k)
        <3>1. before(k) \in SUBSET (0..3)
          BY <1>2
        <3> HIDE DEF before
        <3>. QED BY <3>1, GreatestIs
      <2>4. before(k) # {} => alloc[Greatest(before(k))] \in Pregs
        BY <1>4, <2>3
      <2> HIDE DEF before, slot, R, c
      <2>. QED BY <1>3, <1>4, <2>1, <2>2, <2>4 DEF Results
    <1>6. R \in Seq(Results) /\ Len(R) = c
      <2>1. R \in [1..c -> Results]
        <3> HIDE DEF before, slot, c
        <3>. QED BY <1>3, <1>5
      <2> HIDE DEF R, c
      <2>. QED BY <1>1, <2>1
    <1>7. Results_of(R, S, d)
      BY <1>5 DEF Results_of
    <1>8. ASSUME NEW k \in 1..c, d[slot[k]] # Temp
          PROVE  Last(R, {rt[d[slot[k]]]}, d[slot[k]], k) = {R[k].rel}
      <2> DEFINE E == First(S, d, d[slot[k]], k)
      <2>1. E = before(k)
        <3>1. ASSUME NEW l \in 1 .. k - 1 PROVE slot[l] < slot[k]
          BY <1>1
        <3>2. ASSUME NEW j \in S, j < slot[k] PROVE \E l \in 1 .. k - 1 : slot[l] = j
          <4>1. PICK l \in 1..c : slot[l] = j
            BY <1>1 DEF Onto
          <4>2. slot[k] \in 0..3 /\ slot[l] \in 0..3
            BY <1>1, <1>2
          <4>3. l < k
            <5>1. k < l => slot[k] < slot[l]
              BY <1>1
            <5> HIDE DEF slot, c
            <5>. QED BY <1>1, <3>2, <4>1, <4>2, <5>1
          <4>. QED BY <4>1, <4>3
        <3>. QED BY <3>1, <3>2 DEF First
      <2>2. Last(R, {rt[d[slot[k]]]}, d[slot[k]], k)
              = IF E = {} THEN {rt[d[slot[k]]]} ELSE {alloc[Greatest(E)]}
        <3>1. k \in 1 .. Cardinality(S) + 1
          BY <1>1
        <3> HIDE DEF R
        <3>2. \A M, a : Last(R, M, a, k) = IF First(S, d, a, k) = {} THEN M
                                         ELSE {alloc[Greatest(First(S, d, a, k))]}
          BY <1>7, <3>1, LastSlot
        <3>. QED BY <3>2
      <2> HIDE DEF E, before, R, slot, c
      <2>. QED BY <1>5, <1>8, <2>1, <2>2
    <1>9. ASSUME ~yy_xx_flush, NEW a \in Arch
          PROVE  Last(R, {rt[a]}, a, c + 1) = {RenameTable(S, d)[a]}
      <2> DEFINE E == First(S, d, a, c + 1)
                 W == {i \in S : d[i] = a}
      <2>1. E = W
        <3>1. (c + 1) - 1 = c
          BY <1>1
        <3>. QED BY <1>1, <3>1 DEF Onto, First
      <2>2. Last(R, {rt[a]}, a, c + 1) = IF E = {} THEN {rt[a]} ELSE {alloc[Greatest(E)]}
        <3>1. c + 1 \in 1 .. c + 1
          BY <1>1
        <3> HIDE DEF R
        <3>. QED BY <1>7, <3>1, LastSlot
      <2>3. RenameTable(S, d)[a] = IF W = {} THEN rt[a] ELSE alloc[Greatest(W)]
        BY <1>9 DEF RenameTable
      <2> HIDE DEF E, W, R, c
      <2>. QED BY <2>1, <2>2, <2>3
    <1> HIDE DEF R, slot, before
    <1>10. \A k \in 1..c : IF R[k].dst = Temp THEN R[k].rel = R[k].preg
                           ELSE Last(R, {rt[R[k].dst]}, R[k].dst, k) = {R[k].rel}
      BY <1>5, <1>8
    <1>. QED BY <1>5, <1>6, <1>9, <1>10 DEF R, slot

-----------------------------------------------------------------------------
(* The allocator gives every register that asks a free preg of its own.    *)

LEMMA Searches ==
    /\ Free \in SUBSET Pregs
    /\ IF Free = {} THEN d0 = None /\ d1 = None /\ d2 = None
       ELSE /\ d0 \in Free /\ d1 \in Free
            /\ d0 = d1 <=> Free \ {d0} = {}
            /\ d2 = None <=> Free \ {d0} = {}
            /\ d2 # None => d2 \in Free /\ d2 # d0
            /\ d2 \in {d1, None} <=> Free \ {d0, d1} = {}
    <1>1. Free \in SUBSET Pregs /\ Free \in SUBSET (0..NP) /\ Free \ {d0} \in SUBSET (0..NP)
          /\ NP \in Nat /\ None \notin Free /\ None \notin Free \ {d0}
      BY PregsAssumption DEF Free, Pregs, None
    <1>2. IF Free = {} THEN d0 = None ELSE d0 \in Free /\ \A q \in Free : d0 <= q
      BY <1>1, LeastIs DEF d0
    <1>3. IF Free = {} THEN d1 = None ELSE d1 \in Free /\ \A q \in Free : d1 >= q
      BY <1>1, GreatestIs DEF d1
    <1>4. IF Free \ {d0} = {} THEN d2 = None
          ELSE d2 \in Free \ {d0} /\ \A q \in Free \ {d0} : d2 <= q
      <2> DEFINE T == Free \ {d0}
      <2>1. T \in SUBSET (0..NP) /\ NP \in Nat /\ d2 = Least(T)
        BY <1>1 DEF d2
      <2> HIDE DEF T
      <2>2. IF T = {} THEN d2 = None ELSE d2 \in T /\ \A q \in T : d2 <= q
        BY <2>1, LeastIs
      <2>. QED BY <2>2 DEF T
    <1>5. \A q \in Free : q \in Int
      BY <1>1
    <1>6. CASE Free = {}
      BY <1>1, <1>2, <1>3, <1>4, <1>6
    <1>7. CASE Free # {}
      <2>1. d0 \in Free /\ d1 \in Free
        BY <1>2, <1>3, <1>7
      <2>2. d0 = d1 <=> Free \ {d0} = {}
        <3>1. ASSUME d0 = d1, NEW q \in Free PROVE q = d0
          BY <1>2, <1>3, <1>5, <2>1, <3>1
        <3>. QED BY <2>1, <3>1
      <2>3. d2 = None <=> Free \ {d0} = {}
        BY <1>1, <1>4
      <2>4. d2 # None => d2 \in Free /\ d2 # d0
        BY <1>4
      <2>5. d2 \in {d1, None} <=> Free \ {d0, d1} = {}
        <3>1. ASSUME d2 = d1, d2 # None, NEW q \in Free, q # d0 PROVE q = d1
          BY <1>3, <1>4, <1>5, <2>1, <3>1
        <3>2. ASSUME Free \ {d0, d1} = {}, d2 # None PROVE d2 = d1
          BY <2>4, <3>2
        <3>. QED BY <2>3, <3>1, <3>2
      <2>. QED BY <1>1, <1>7, <2>1, <2>2, <2>3, <2>4, <2>5
    <1>. QED BY <1>6, <1>7

LEMMA AllocatorIs ==
    ASSUME NEW invalid \in SUBSET Slots
    PROVE  /\ \A i \in invalid : dealloc_preg(i, invalid) \in Free \cup {None}
           /\ \A i, j \in invalid : i # j /\ dealloc_preg(i, invalid) # None
                 => dealloc_preg(i, invalid) # dealloc_preg(j, invalid)
           /\ \A p : p \in dealloc_vld(invalid)
                 <=> p # None /\ \E i \in invalid : p = dealloc_preg(i, invalid)
    <1>1. invalid \in SUBSET (0..3) /\ None \notin Free
      BY DEF Slots, Free, Pregs, None
    <1>2. /\ 0 \in invalid => dealloc_preg(0, invalid) = d0
          /\ 1 \in invalid => dealloc_preg(1, invalid) = IF Free \ {d0} = {} THEN None ELSE d1
          /\ 2 \in invalid => dealloc_preg(2, invalid)
                                = IF Free \ {d0, d1} = {} THEN None ELSE d2
          /\ 3 \in invalid => dealloc_preg(3, invalid)
                                = IF 0 \notin invalid THEN d0
                                  ELSE IF 1 \notin invalid
                                       THEN IF Free \ {d0} = {} THEN None ELSE d1
                                       ELSE None
      BY DEF dealloc_preg
    <1>3. \A i \in invalid : i = 0 \/ i = 1 \/ i = 2 \/ i = 3
      BY <1>1
    <1>4. \A i \in invalid : dealloc_preg(i, invalid) \in Free \cup {None}
      BY <1>2, <1>3, Searches
    <1>5. \A i, j \in invalid : i # j /\ dealloc_preg(i, invalid) # None
             => dealloc_preg(i, invalid) # dealloc_preg(j, invalid)
      BY <1>1, <1>2, <1>3, Searches
    <1>6. ASSUME NEW p
          PROVE  p \in dealloc_vld(invalid)
                   <=> p # None /\ \E i \in invalid : p = dealloc_preg(i, invalid)
      <2>1. p \in dealloc_vld(invalid) <=>
              \/ 0 \in invalid /\ p = d0 /\ p # None
              \/ 1 \in invalid /\ p = d1 /\ p # d0
              \/ 2 \in invalid /\ p = d2 /\ p \notin {d1, None}
              \/ 3 \in invalid /\ 0 \notin invalid /\ p = d0 /\ p # None
              \/ 3 \in invalid /\ 0 \in invalid /\ 1 \notin invalid /\ p = d1 /\ p # d0
        BY DEF dealloc_vld, vec0, vec1, vec2
      <2>. QED BY <1>1, <1>2, <1>3, <2>1, Searches
    <1>. QED BY <1>4, <1>5, <1>6

-----------------------------------------------------------------------------
(* One clock edge.                                                         *)

Edge(packet, dispatch, n, event, written, masked) ==
    /\ packet \in Packets /\ dispatch \in BOOLEAN /\ (is = <<>> => ~dispatch)
    /\ packet # <<>> => CanRename(DOMAIN packet, dispatch)
    /\ Rename(DOMAIN packet, packet)
    /\ n \in Retirable /\ event \in Events(n)
    /\ written \in SUBSET {p \in Pregs : owed[p] > 0} /\ masked \in SUBSET Pregs
    /\ Clock(packet, dispatch, n, event, written, masked)

LEMMA NextIsEdge ==
    ASSUME Next
    PROVE  \E packet, dispatch, n, event, written, masked :
              Edge(packet, dispatch, n, event, written, masked)
    <1>1. PICK packet \in Packets, dispatch \in (IF is = <<>> THEN {FALSE} ELSE BOOLEAN) :
            /\ packet # <<>> => CanRename(DOMAIN packet, dispatch)
            /\ Rename(DOMAIN packet, packet)
            /\ \E n \in Retirable :
                 \E event \in Events(n), written \in SUBSET {p \in Pregs : owed[p] > 0},
                    masked \in SUBSET {p \in Pregs : wb[p] /\ (p \in releasing(n) \/ life[p] = "RELEASE")} :
                     Clock(packet, dispatch, n, event, written, masked)
      BY DEF Next
    <1>2. PICK n \in Retirable :
            \E event \in Events(n), written \in SUBSET {p \in Pregs : owed[p] > 0},
               masked \in SUBSET {p \in Pregs : wb[p] /\ (p \in releasing(n) \/ life[p] = "RELEASE")} :
                Clock(packet, dispatch, n, event, written, masked)
      BY <1>1
    <1>4. PICK event \in Events(n), written \in SUBSET {p \in Pregs : owed[p] > 0},
               masked \in SUBSET {p \in Pregs : wb[p] /\ (p \in releasing(n) \/ life[p] = "RELEASE")} :
            Clock(packet, dispatch, n, event, written, masked)
      BY <1>2
    <1>3. masked \in SUBSET Pregs /\ dispatch \in BOOLEAN /\ (is = <<>> => ~dispatch)
      OBVIOUS
    <1>5. Edge(packet, dispatch, n, event, written, masked)
      BY <1>1, <1>3, <1>4 DEF Edge
    <1>. QED BY <1>5

LEMMA EdgeInputs ==
    ASSUME Inv, NEW packet, NEW dispatch, NEW n, NEW event, NEW written, NEW masked,
           Edge(packet, dispatch, n, event, written, masked)
    PROVE  /\ DOMAIN packet \in SUBSET Slots /\ packet \in [DOMAIN packet -> 1..Temp]
           /\ dispatch \in BOOLEAN /\ (is = <<>> => ~dispatch)
           /\ n \in Nat /\ n <= Len(rob) /\ (flush # "IDLE" => n = 0)
           /\ DOMAIN packet # {} => /\ \A i \in DOMAIN packet : alloc[i] # None
                                    /\ flush = "IDLE" /\ ~stall /\ (is = <<>> \/ dispatch)
           /\ event \in {"none", "async", "expt", "mispred", "cancel"}
           /\ event \in {"expt", "mispred", "cancel"} => flush = "IDLE"
           /\ event = "mispred" => stall
    <1>1. DOMAIN packet \in SUBSET Slots /\ packet \in [DOMAIN packet -> 1..Temp]
      <2>1. CASE packet = <<>>
        BY <2>1
      <2>2. CASE packet # <<>>
        <3>1. PICK S \in SUBSET Slots : packet \in [S -> 1..Temp]
          BY <2>2 DEF Edge, Packets
        <3>. QED BY <3>1
      <2>. QED BY <2>1, <2>2
    <1>2. n \in Nat /\ n <= Len(rob) /\ (flush # "IDLE" => n = 0)
      <2>1. Len(rob) \in Nat
        BY DEF Inv, Typed, TypeOK
      <2>. QED BY <2>1 DEF Edge, Retirable
    <1>3. DOMAIN packet # {} => /\ \A i \in DOMAIN packet : alloc[i] # None
                                /\ flush = "IDLE" /\ ~stall /\ (is = <<>> \/ dispatch)
      BY DEF Edge, CanRename
    <1>4. /\ event \in {"none", "async", "expt", "mispred", "cancel"}
          /\ event \in {"expt", "mispred", "cancel"} => flush = "IDLE"
          /\ event = "mispred" => stall
      BY DEF Edge, Events
    <1>. QED BY <1>1, <1>2, <1>3, <1>4 DEF Edge

\* Who holds register a before the j-th instruction of the reorder buffer.
LEMMA HolderInRob ==
    ASSUME Inv, NEW n \in Nat, n <= Len(rob), NEW j \in 1 .. n + 1, NEW a
    PROVE  /\ (\A k \in 1 .. j - 1 : info[rob[k]].dst # a) => Holder(a, j) = Mapped(a)
           /\ \A k \in 1 .. j - 1 :
                info[rob[k]].dst = a /\ (\A m \in k + 1 .. j - 1 : info[rob[m]].dst # a)
                  => Holder(a, j) = {rob[k]}
           /\ \/ \A k \in 1 .. j - 1 : info[rob[k]].dst # a
              \/ \E k \in 1 .. j - 1 : /\ info[rob[k]].dst = a
                                       /\ \A m \in k + 1 .. j - 1 : info[rob[m]].dst # a
    <1> DEFINE F == InFlight
               M == Mapped(a)
    <1>1. \A k \in 1 .. j - 1 : F[k].dst = info[rob[k]].dst /\ F[k].preg = rob[k]
      <2>1. Len(rob) \in Nat /\ Len(is) \in Nat
        BY DEF Inv, Typed, TypeOK
      <2>2. \A k \in 1 .. j - 1 : k \in 1 .. Len(rob) + Len(is) /\ ~(k > Len(rob))
        BY <2>1
      <2>. QED BY <2>2 DEF InFlight
    <1>2. Holder(a, j) = Last(F, M, a, j)
      BY HolderIsLast
    <1> HIDE DEF F, M
    <1>3. j \in Nat \ {0}
      OBVIOUS
    <1>4. /\ (\A k \in 1 .. j - 1 : F[k].dst # a) => Last(F, M, a, j) = M
          /\ \A k \in 1 .. j - 1 :
               F[k].dst = a /\ (\A m \in k + 1 .. j - 1 : F[m].dst # a)
                 => Last(F, M, a, j) = {F[k].preg}
          /\ \/ \A k \in 1 .. j - 1 : F[k].dst # a
             \/ \E k \in 1 .. j - 1 : /\ F[k].dst = a
                                      /\ \A m \in k + 1 .. j - 1 : F[m].dst # a
      <2> DEFINE Is(G, N, b, i) ==
              /\ (\A k \in 1 .. i - 1 : G[k].dst # b) => Last(G, N, b, i) = N
              /\ \A k \in 1 .. i - 1 :
                   G[k].dst = b /\ (\A m \in k + 1 .. i - 1 : G[m].dst # b)
                     => Last(G, N, b, i) = {G[k].preg}
              /\ \/ \A k \in 1 .. i - 1 : G[k].dst # b
                 \/ \E k \in 1 .. i - 1 : /\ G[k].dst = b
                                          /\ \A m \in k + 1 .. i - 1 : G[m].dst # b
      <2>1. \A G, N, b : \A i \in Nat \ {0} : Is(G, N, b, i)
        BY LastIs, Zenon
      <2>2. Is(F, M, a, j)
        <3> HIDE DEF Is
        <3>. QED BY <1>3, <2>1
      <2>. QED BY <2>2
    <1>5. \A k \in 1 .. j - 1 : \A m \in k + 1 .. j - 1 : m \in 1 .. j - 1
      OBVIOUS
    <1>6. (\A k \in 1 .. j - 1 : info[rob[k]].dst # a) => Holder(a, j) = Mapped(a)
      BY <1>1, <1>2, <1>4 DEF M
    <1>7. ASSUME NEW k \in 1 .. j - 1, info[rob[k]].dst = a,
                 \A m \in k + 1 .. j - 1 : info[rob[m]].dst # a
          PROVE  Holder(a, j) = {rob[k]}
      BY <1>1, <1>2, <1>4, <1>5, <1>7
    <1>8. \/ \A k \in 1 .. j - 1 : info[rob[k]].dst # a
          \/ \E k \in 1 .. j - 1 : /\ info[rob[k]].dst = a
                                   /\ \A m \in k + 1 .. j - 1 : info[rob[m]].dst # a
      <2>1. CASE \A k \in 1 .. j - 1 : F[k].dst # a
        BY <1>1, <2>1
      <2>2. CASE \E k \in 1 .. j - 1 : /\ F[k].dst = a
                                       /\ \A m \in k + 1 .. j - 1 : F[m].dst # a
        <3>1. PICK k \in 1 .. j - 1 : /\ F[k].dst = a
                                     /\ \A m \in k + 1 .. j - 1 : F[m].dst # a
          BY <2>2
        <3>2. \A m \in k + 1 .. j - 1 : info[rob[m]].dst # a
          BY <1>1, <1>5, <3>1
        <3>3. info[rob[k]].dst = a
          BY <1>1, <3>1
        <3>. QED BY <3>2, <3>3
      <2>. QED BY <1>4, <2>1, <2>2
    <1>. QED BY <1>6, <1>7, <1>8

\* What retires releases its own preg, that of the writer of its register before
\* it in the same cycle, or the one its register is mapped to.
LEMMA Released ==
    ASSUME Inv, NEW n \in Nat, n <= Len(rob), flush # "IDLE" => n = 0,
           NEW i \in 1..n
    PROVE  LET d == info[rob[i]].dst
               p == info[rob[i]].rel
           IN /\ d \in 1..Temp /\ p \in Pregs /\ rob[i] \in Pregs /\ life[rob[i]] = "ALLOC"
              /\ IF d = Temp THEN p = rob[i]
                 ELSE \/ (\A k \in 1 .. i - 1 : info[rob[k]].dst # d) /\ Mapped(d) = {p}
                      \/ \E k \in 1 .. i - 1 :
                            /\ info[rob[k]].dst = d /\ p = rob[k]
                            /\ \A m \in k + 1 .. i - 1 : info[rob[m]].dst # d
    <1> DEFINE d == info[rob[i]].dst
               p == info[rob[i]].rel
    <1>1. /\ Len(rob) \in Nat /\ Len(is) \in Nat /\ i \in 1..Len(rob) /\ rob[i] \in Pregs
          /\ flush = "IDLE"
      BY DEF Inv, Typed, TypeOK
    <1>2. d \in 1..Temp /\ p \in Pregs /\ life[rob[i]] = "ALLOC"
      BY <1>1 DEF Inv, Typed, OneOwner, InRob
    <1>3. /\ i \in 1..Len(InFlight)
          /\ InFlight[i] = [preg |-> rob[i], dst |-> info[rob[i]].dst,
                            rel |-> info[rob[i]].rel]
      BY <1>1 DEF InFlight
    <1>4. IF d = Temp THEN p = rob[i] ELSE Holder(d, i) = {p}
      <2>1. /\ InFlight[i].dst = Temp => InFlight[i].rel = InFlight[i].preg
            /\ \A a \in Arch : InFlight[i].dst = a => Holder(a, i) = {InFlight[i].rel}
        BY <1>1, <1>3 DEF Inv, Chain
      <2>0. d # Temp => d \in Arch
        BY <1>2, PregsAssumption DEF Arch, Temp
      <2>2. InFlight[i].dst = d /\ InFlight[i].rel = p /\ InFlight[i].preg = rob[i]
        BY <1>3
      <2> HIDE DEF d, p
      <2>. QED BY <2>0, <2>1, <2>2
    <1> HIDE DEF d, p
    <1>5. i \in 1 .. n + 1
      OBVIOUS
    <1>6. CASE \A k \in 1 .. i - 1 : info[rob[k]].dst # d
      <2>1. Holder(d, i) = Mapped(d)
        BY <1>5, <1>6, HolderInRob
      <2>. QED BY <1>1, <1>2, <1>4, <1>6, <2>1 DEF d, p
    <1>7. CASE \E k \in 1 .. i - 1 : /\ info[rob[k]].dst = d
                                     /\ \A m \in k + 1 .. i - 1 : info[rob[m]].dst # d
      <2>1. PICK k \in 1 .. i - 1 : /\ info[rob[k]].dst = d
                                    /\ \A m \in k + 1 .. i - 1 : info[rob[m]].dst # d
        BY <1>7
      <2>2. Holder(d, i) = {rob[k]}
        <3>1. \A q \in 1 .. i - 1 :
                info[rob[q]].dst = d /\ (\A m \in q + 1 .. i - 1 : info[rob[m]].dst # d)
                  => Holder(d, i) = {rob[q]}
          BY <1>5, HolderInRob
        <3>. QED BY <2>1, <3>1
      <2>3. d = Temp \/ p = rob[k]
        BY <1>4, <2>2
      <2>. QED BY <1>1, <1>2, <1>4, <2>1, <2>3 DEF d, p
    <1>. QED BY <1>5, <1>6, <1>7, HolderInRob

\* What is granted is free, what is created waits, what retires or is released
\* is in the reorder buffer or retired.
LEMMA Lists ==
    ASSUME Inv, NEW packet, NEW dispatch, NEW n, NEW event, NEW written, NEW masked,
           Edge(packet, dispatch, n, event, written, masked)
    PROVE  /\ \A p \in granting(DOMAIN packet) : p \in Pregs /\ life[p] = "DEALLOC"
           /\ \A p \in creating(dispatch) : p \in Pregs /\ life[p] = "WF_ALLOC"
           /\ \A p \in retiring(n) : p \in Pregs /\ life[p] = "ALLOC" /\ flush = "IDLE"
           /\ \A p \in releasing(n) :
                 /\ p \in Pregs /\ flush = "IDLE"
                 /\ p \in retiring(n) \/ life[p] = "RETIRE"
    <1>1. /\ n \in Nat /\ n <= Len(rob) /\ (flush # "IDLE" => n = 0)
          /\ dispatch \in BOOLEAN /\ Len(rob) \in Nat /\ Len(is) \in Nat
      BY EdgeInputs DEF Inv, Typed, TypeOK
    <1>2. \A p \in granting(DOMAIN packet) : p \in Pregs /\ life[p] = "DEALLOC"
      <2> DEFINE invalid == {i \in Slots : alloc[i] = None \/ i \in DOMAIN packet}
      <2>1. invalid \in SUBSET Slots /\ granting(DOMAIN packet) = dealloc_vld(invalid)
        BY DEF granting
      <2> HIDE DEF invalid
      <2>2. \A p \in dealloc_vld(invalid) : p \in Free
        BY <2>1, AllocatorIs
      <2>. QED BY <2>1, <2>2 DEF Free
    <1>3. \A p \in creating(dispatch) : p \in Pregs /\ life[p] = "WF_ALLOC"
      <2>1. \A j \in 1..Len(is) : is[j].preg \in Pregs
        <3>1. \A j \in 1..Len(is) : is[j] \in Results
          BY <1>1 DEF Inv, Typed, TypeOK
        <3>. QED BY <3>1 DEF Results
      <2>2. \A j \in 1..Len(is) : is[j].preg \in InIs
        BY <2>1 DEF InIs
      <2>3. \A j \in 1..Len(is) : life[is[j].preg] = "WF_ALLOC"
        BY <2>2 DEF Inv, OneOwner
      <2>. QED BY <2>1, <2>3 DEF creating
    <1>4. ASSUME NEW i \in 1..n
          PROVE  /\ rob[i] \in Pregs /\ life[rob[i]] = "ALLOC" /\ flush = "IDLE"
                 /\ info[rob[i]].rel \in Pregs
                 /\ info[rob[i]].rel \in retiring(n) \/ life[info[rob[i]].rel] = "RETIRE"
      <2> DEFINE d == info[rob[i]].dst
                 p == info[rob[i]].rel
      <2>1. /\ p \in Pregs /\ rob[i] \in Pregs /\ life[rob[i]] = "ALLOC"
            /\ \/ p = rob[i]
               \/ \E k \in 1 .. i - 1 : p = rob[k]
               \/ Mapped(d) = {p}
        BY <1>1, Released
      <2>2. flush = "IDLE"
        BY <1>1
      <2>3. rob[i] \in retiring(n) /\ \A k \in 1 .. i - 1 : rob[k] \in retiring(n)
        BY <1>1 DEF retiring
      <2>4. Mapped(d) = {p} => life[p] = "RETIRE"
        BY DEF Mapped
      <2>. QED BY <2>1, <2>2, <2>3, <2>4
    <1>5. \A p \in retiring(n) : \E i \in 1..n : p = rob[i]
      BY DEF retiring
    <1>6. \A p \in releasing(n) : \E i \in 1..n : p = info[rob[i]].rel
      BY DEF releasing, retiring
    <1>. QED BY <1>2, <1>3, <1>4, <1>5, <1>6

\* What is retired after the edge.
LEMMA Survivors ==
    ASSUME Inv, NEW packet, NEW dispatch, NEW n, NEW event, NEW written, NEW masked,
           Edge(packet, dispatch, n, event, written, masked), NEW p \in Pregs
    PROVE  /\ life'[p] = "RETIRE" <=> /\ p \notin releasing(n)
                                      /\ p \in retiring(n) \/ life[p] = "RETIRE"
           /\ life'[p] = "RETIRE" => info'[p].dst = info[p].dst
    <1>1. life'[p] = LifeNext(p, granting(DOMAIN packet), creating(dispatch), retiring(n),
                              releasing(n), masked)
      BY DEF Edge, Clock, Entries
    <1>2. life[p] \in LifeStates /\ info[p] \in [dst : 0..Temp, rel : 0..NP]
      BY DEF Inv, Typed, TypeOK
    <1>3. p \in creating(dispatch) => life[p] = "WF_ALLOC"
      BY Lists
    <1>4. /\ p \in retiring(n) => life[p] = "ALLOC" /\ flush = "IDLE"
          /\ p \in releasing(n) => flush = "IDLE" /\ (p \in retiring(n) \/ life[p] = "RETIRE")
      BY Lists
    <1>5. life'[p] = "RETIRE" <=> /\ p \notin releasing(n)
                                  /\ p \in retiring(n) \/ life[p] = "RETIRE"
      BY <1>1, <1>2, <1>3, <1>4 DEF LifeNext, LifeStates, yy_xx_flush
    <1>6. ASSUME life'[p] = "RETIRE" PROVE info'[p].dst = info[p].dst
      <2>1. p \notin creating(dispatch)
        BY <1>3, <1>4, <1>5, <1>6
      <2>2. info'[p] = [info[p] EXCEPT !.rel = None]
        BY <1>6, <1>1, <2>1 DEF Edge, Clock, Entries
      <2>. QED BY <1>2, <2>2
    <1>. QED BY <1>5, <1>6

\* The registers are mapped to the last of the n writers that retire.
LEMMA MappedNext ==
    ASSUME Inv, NEW packet, NEW dispatch, NEW n, NEW event, NEW written, NEW masked,
           Edge(packet, dispatch, n, event, written, masked), NEW a \in Arch
    PROVE  Mapped(a)' = Holder(a, n + 1)
    <1>1. /\ n \in Nat /\ n <= Len(rob) /\ (flush # "IDLE" => n = 0)
          /\ Len(rob) \in Nat /\ Len(is) \in Nat
      BY EdgeInputs DEF Inv, Typed, TypeOK
    <1>2. \A p : p \in Mapped(a)' <=>
             /\ p \in Pregs /\ info[p].dst = a /\ p \notin releasing(n)
             /\ p \in retiring(n) \/ life[p] = "RETIRE"
      BY Survivors DEF Mapped
    <1>3. \A p : p \in Mapped(a) <=> p \in Pregs /\ info[p].dst = a /\ life[p] = "RETIRE"
      BY DEF Mapped
    <1>4. a # Temp
      BY PregsAssumption DEF Arch, Temp
    <1>5. \A p : p \in retiring(n) <=> \E i \in 1..n : p = rob[i]
      BY DEF retiring
    <1>6. \A p : p \in releasing(n) <=> \E i \in 1..n : p = info[rob[i]].rel
      BY DEF releasing, retiring
    <1>7. \A i \in 1..n : rob[i] \in Pregs /\ life[rob[i]] = "ALLOC"
      BY <1>1, Released
    <1>8. \A d : \A p : Mapped(d) = {p} => info[p].dst = d /\ life[p] = "RETIRE"
      BY DEF Mapped
    <1>9. \A i, j \in 1..n : rob[i] = rob[j] => i = j
      BY <1>1 DEF Inv, OneOwner
    <1>10. n + 1 \in 1 .. n + 1 /\ (n + 1) - 1 = n
      BY <1>1
    <1>11. CASE \A k \in 1..n : info[rob[k]].dst # a
      <2>1. Holder(a, n + 1) = Mapped(a)
        BY <1>1, <1>10, <1>11, HolderInRob
      <2>2. ASSUME NEW p \in Mapped(a), NEW i \in 1..n, p = info[rob[i]].rel PROVE FALSE
        <3>1. \/ p = rob[i]
              \/ Mapped(info[rob[i]].dst) = {p}
              \/ \E k \in 1 .. i - 1 : p = rob[k]
          BY <1>1, <2>2, Released
        <3>2. \A k \in 1 .. i - 1 : k \in 1..n
          BY <1>1
        <3>3. info[p].dst = a /\ life[p] = "RETIRE"
          BY <1>3, <2>2
        <3>4. ~(p = rob[i]) /\ ~(\E k \in 1 .. i - 1 : p = rob[k])
          BY <1>7, <3>2, <3>3
        <3>5. Mapped(info[rob[i]].dst) # {p}
          BY <1>8, <1>11, <3>3
        <3>. QED BY <3>1, <3>4, <3>5
      <2>3. \A p : p \in Mapped(a)' <=> p \in Mapped(a)
        BY <1>2, <1>3, <1>5, <1>6, <1>11, <2>2
      <2>. QED BY <2>1, <2>3
    <1>12. CASE \E k \in 1..n : /\ info[rob[k]].dst = a
                                /\ \A m \in k + 1 .. n : info[rob[m]].dst # a
      <2>1. PICK g \in 1..n : /\ info[rob[g]].dst = a
                              /\ \A m \in g + 1 .. n : info[rob[m]].dst # a
        BY <1>12
      <2>2. Holder(a, n + 1) = {rob[g]}
        BY <1>1, <1>10, <2>1, HolderInRob
      <2>3. ASSUME NEW i \in 1..n, rob[g] = info[rob[i]].rel PROVE FALSE
        <3>1. \/ info[rob[i]].dst = Temp /\ rob[g] = rob[i]
              \/ Mapped(info[rob[i]].dst) = {rob[g]}
              \/ \E k \in 1 .. i - 1 : info[rob[k]].dst = info[rob[i]].dst /\ rob[g] = rob[k]
          <4> DEFINE p == info[rob[i]].rel
          <4>1. \/ info[rob[i]].dst = Temp /\ p = rob[i]
                \/ Mapped(info[rob[i]].dst) = {p}
                \/ \E k \in 1 .. i - 1 : info[rob[k]].dst = info[rob[i]].dst /\ p = rob[k]
            BY <1>1, Released
          <4>2. p = rob[g]
            BY <2>3
          <4> HIDE DEF p
          <4>. QED BY <4>1, <4>2
        <3>2. ASSUME NEW k \in 1 .. i - 1, info[rob[k]].dst = info[rob[i]].dst, rob[g] = rob[k]
              PROVE  FALSE
          <4>1. k = g
            BY <1>1, <1>9, <3>2
          <4>2. i \in g + 1 .. n
            BY <1>1, <4>1
          <4>. QED BY <2>1, <3>2, <4>1, <4>2
        <3>. QED BY <1>4, <1>7, <1>8, <2>1, <3>1, <3>2
      <2>4. rob[g] \in Mapped(a)'
        BY <1>2, <1>5, <1>6, <1>7, <2>1, <2>3
      <2>5. ASSUME NEW i \in 1..n, info[rob[i]].dst = a, rob[i] # rob[g]
            PROVE  rob[i] \in releasing(n)
        <3> DEFINE W == {k \in i + 1 .. g : info[rob[k]].dst = a}
        <3>1. i < g
          <4>1. ~(i \in g + 1 .. n)
            BY <2>1, <2>5
          <4>. QED BY <1>1, <2>5, <4>1
        <3>2. g \in W /\ W \in SUBSET (0..n)
          BY <1>1, <2>1, <3>1
        <3>3. PICK h \in W : \A k \in W : h <= k
          <4> HIDE DEF W
          <4>. QED BY <1>1, <3>2, Extremes
        <3>4. h \in 1..n /\ i < h /\ info[rob[h]].dst = a
          BY <1>1
        <3>5. PICK k \in 1 .. h - 1 : /\ info[rob[k]].dst = a /\ info[rob[h]].rel = rob[k]
                                      /\ \A m \in k + 1 .. h - 1 : info[rob[m]].dst # a
          <4>1. \/ \A k \in 1 .. h - 1 : info[rob[k]].dst # a
                \/ \E k \in 1 .. h - 1 : /\ info[rob[k]].dst = a /\ info[rob[h]].rel = rob[k]
                                         /\ \A m \in k + 1 .. h - 1 : info[rob[m]].dst # a
            BY <1>1, <1>4, <3>4, Released
          <4>2. i \in 1 .. h - 1
            BY <3>4
          <4>. QED BY <2>5, <4>1, <4>2
        <3>6. ~(k > i)
          <4>1. k > i => k \in W
            BY <3>4, <3>5
          <4>. QED BY <3>3, <3>5, <4>1
        <3>7. ~(k < i)
          <4>1. k < i => i \in k + 1 .. h - 1
            BY <3>4
          <4>. QED BY <2>5, <3>5, <4>1
        <3>8. k = i
          BY <3>6, <3>7
        <3>. QED BY <1>6, <3>4, <3>5, <3>8
      <2>6. ASSUME NEW p \in Mapped(a) PROVE p \in releasing(n)
        <3> DEFINE W == {k \in 1..g : info[rob[k]].dst = a}
        <3>1. g \in W /\ W \in SUBSET (0..n)
          BY <1>1, <2>1
        <3>2. PICK f \in W : \A k \in W : f <= k
          <4> HIDE DEF W
          <4>. QED BY <1>1, <3>1, Extremes
        <3>3. f \in 1..n /\ info[rob[f]].dst = a
          BY <1>1
        <3>4. ASSUME NEW k \in 1 .. f - 1, info[rob[k]].dst = a PROVE FALSE
          <4>1. k \in W /\ k < f
            BY <3>4
          <4>. QED BY <3>2, <4>1
        <3>5. Mapped(a) = {info[rob[f]].rel}
          <4>1. \/ Mapped(a) = {info[rob[f]].rel}
                \/ \E k \in 1 .. f - 1 : info[rob[k]].dst = a
            BY <1>1, <1>4, <3>3, Released
          <4>. QED BY <3>4, <4>1
        <3>. QED BY <1>6, <2>6, <3>3, <3>5
      <2>7. ASSUME NEW p \in Mapped(a)' PROVE p = rob[g]
        <3>1. /\ p \in Pregs /\ info[p].dst = a /\ p \notin releasing(n)
              /\ p \in retiring(n) \/ life[p] = "RETIRE"
          BY <1>2
        <3>2. p \notin Mapped(a)
          BY <2>6, <3>1
        <3>3. PICK i \in 1..n : p = rob[i]
          BY <1>3, <1>5, <3>1, <3>2
        <3>. QED BY <2>5, <3>1, <3>3
      <2>8. \A p : p \in Mapped(a)' <=> p \in {rob[g]}
        BY <2>4, <2>7
      <2>. QED BY <2>2, <2>8
    <1>13. \/ \A k \in 1..n : info[rob[k]].dst # a
           \/ \E k \in 1..n : /\ info[rob[k]].dst = a
                              /\ \A m \in k + 1 .. n : info[rob[m]].dst # a
      <2>1. \/ \A k \in 1 .. (n + 1) - 1 : info[rob[k]].dst # a
            \/ \E k \in 1 .. (n + 1) - 1 : /\ info[rob[k]].dst = a
                                           /\ \A m \in k + 1 .. (n + 1) - 1 : info[rob[m]].dst # a
        BY <1>1, <1>10, HolderInRob
      <2>. QED BY <1>10, <2>1
    <1>. QED BY <1>11, <1>12, <1>13

LEMMA MirrorNext ==
    ASSUME Inv, NEW packet, NEW dispatch, NEW n, NEW event, NEW written, NEW masked,
           Edge(packet, dispatch, n, event, written, masked)
    PROVE  Mirror'
    <1>1. /\ n \in Nat /\ n <= Len(rob) /\ Len(rob) \in Nat /\ Len(is) \in Nat
      BY EdgeInputs DEF Inv, Typed, TypeOK
    <1>2. arch' = Retired(n) /\ table' = SyncTable(life')
      BY DEF Edge, Clock, Stages, Entries
    <1> SUFFICES ASSUME NEW a \in Arch
                 PROVE  Mapped(a)' = {table'[a]} /\ arch'[a] = table'[a]
      BY DEF Mirror
    <1>3. Mapped(a) = {table[a]} /\ arch[a] = table[a]
      BY DEF Inv, Mirror
    <1>4. Holder(a, n + 1) = {arch'[a]}
      <2> DEFINE W == {i \in 1..n : info[rob[i]].dst = a}
                 V == {k \in 1 .. (n + 1) - 1 : InFlight[k].dst = a}
      <2>1. \A k \in 1..n : InFlight[k].dst = info[rob[k]].dst /\ InFlight[k].preg = rob[k]
        BY <1>1 DEF InFlight
      <2>2. V = W
        <3>1. 1 .. (n + 1) - 1 = 1..n
          BY <1>1
        <3>. QED BY <2>1, <3>1
      <2>3. arch'[a] = IF W = {} THEN arch[a] ELSE rob[Greatest(W)]
        BY <1>2 DEF Retired
      <2>4. Holder(a, n + 1) = IF V = {} THEN Mapped(a) ELSE {InFlight[Greatest(V)].preg}
        BY DEF Holder
      <2>5. W # {} => Greatest(W) \in 1..n
        <3>1. W \in SUBSET (0..n)
          BY <1>1
        <3>2. W # {} => Greatest(W) \in W
          <4> HIDE DEF W
          <4>. QED BY <1>1, <3>1, GreatestIs
        <3>. QED BY <3>2
      <2> HIDE DEF W, V
      <2>. QED BY <1>3, <2>1, <2>2, <2>3, <2>4, <2>5
    <1>5. Mapped(a)' = {arch'[a]}
      BY <1>4, MappedNext
    <1> DEFINE entered == {p \in Pregs : /\ life'[p] = "RETIRE" /\ life[p] # "RETIRE"
                                         /\ info[p].dst = a}
    <1>6. table'[a] = IF entered = {} THEN table[a] ELSE CHOOSE p \in entered : TRUE
      BY <1>2 DEF SyncTable
    <1>7. \A p \in entered : p \in Mapped(a)'
      BY Survivors DEF Mapped
    <1>8. CASE entered = {}
      <2> DEFINE x == arch'[a]
      <2>1. x \in Mapped(a)'
        BY <1>5
      <2>2. x \in Pregs /\ life'[x] = "RETIRE" /\ info'[x].dst = a
        BY <2>1 DEF Mapped
      <2>3. info[x].dst = a
        BY <2>2, Survivors
      <2>4. x \in Mapped(a)
        BY <1>8, <2>2, <2>3 DEF Mapped
      <2>. QED BY <1>3, <1>5, <1>6, <1>8, <2>4
    <1>9. CASE entered # {}
      <2>1. table'[a] \in entered
        <3> HIDE DEF entered
        <3>. QED BY <1>6, <1>9
      <2>2. table'[a] \in Mapped(a)'
        BY <1>7, <2>1
      <2>. QED BY <1>5, <2>2
    <1>. QED BY <1>8, <1>9

\* The allocation registers after the edge.
LEMMA AllocNext ==
    ASSUME Inv, NEW packet, NEW dispatch, NEW n, NEW event, NEW written, NEW masked,
           Edge(packet, dispatch, n, event, written, masked)
    PROVE  /\ alloc' \in [Slots -> Pregs \cup {None}]
           /\ yy_xx_flush => \A i \in Slots : alloc'[i] = None
           /\ \A i \in Slots : \/ alloc'[i] = None
                               \/ alloc'[i] \in granting(DOMAIN packet)
                               \/ i \notin DOMAIN packet /\ alloc'[i] = alloc[i]
           /\ \A i, j \in Slots : i # j /\ alloc'[i] # None => alloc'[i] # alloc'[j]
           /\ ~yy_xx_flush =>
                 /\ \A i \in Slots \ DOMAIN packet : alloc[i] # None => alloc'[i] = alloc[i]
                 /\ \A p \in granting(DOMAIN packet) : \E i \in Slots : alloc'[i] = p
    <1> DEFINE invalid == {i \in Slots : alloc[i] = None \/ i \in DOMAIN packet}
    <1>1. invalid \in SUBSET Slots /\ granting(DOMAIN packet) = dealloc_vld(invalid)
      BY DEF granting
    <1>2. alloc' = [i \in Slots |-> IF yy_xx_flush THEN None
                                    ELSE IF i \in invalid THEN dealloc_preg(i, invalid)
                                    ELSE alloc[i]]
      BY DEF Edge, Clock, Rename, Alloc
    <1>3. \A i \in Slots : i \in invalid <=> alloc[i] = None \/ i \in DOMAIN packet
      OBVIOUS
    <1> HIDE DEF invalid
    <1>4. /\ \A i \in invalid : dealloc_preg(i, invalid) \in Free \cup {None}
          /\ \A i, j \in invalid : i # j /\ dealloc_preg(i, invalid) # None
                => dealloc_preg(i, invalid) # dealloc_preg(j, invalid)
          /\ \A p : p \in dealloc_vld(invalid)
                <=> p # None /\ \E i \in invalid : p = dealloc_preg(i, invalid)
      BY <1>1, AllocatorIs
    <1>5. alloc \in [Slots -> Pregs \cup {None}] /\ Free \subseteq Pregs
      BY DEF Inv, Typed, TypeOK, Free
    <1>6. \A i \in Slots : alloc[i] # None => alloc[i] \notin Free \cup {None}
      BY <1>5 DEF Inv, OneOwner, InAlloc, Free
    <1>7. alloc' \in [Slots -> Pregs \cup {None}]
      BY <1>2, <1>4, <1>5
    <1>8. yy_xx_flush => \A i \in Slots : alloc'[i] = None
      BY <1>2
    <1>9. \A i \in Slots : \/ alloc'[i] = None
                           \/ alloc'[i] \in granting(DOMAIN packet)
                           \/ i \notin DOMAIN packet /\ alloc'[i] = alloc[i]
      BY <1>1, <1>2, <1>3, <1>4
    <1>10. ASSUME NEW i \in Slots, NEW j \in Slots, i # j, alloc'[i] # None
           PROVE  alloc'[i] # alloc'[j]
      <2>1. ~yy_xx_flush
        BY <1>8, <1>10
      <2>2. alloc[i] # None => alloc[i] # alloc[j]
        BY <1>10 DEF Inv, OneOwner
      <2>. QED BY <1>2, <1>3, <1>4, <1>6, <1>10, <2>1, <2>2
    <1>11. ASSUME ~yy_xx_flush
           PROVE  /\ \A i \in Slots \ DOMAIN packet : alloc[i] # None => alloc'[i] = alloc[i]
                  /\ \A p \in granting(DOMAIN packet) : \E i \in Slots : alloc'[i] = p
      BY <1>1, <1>2, <1>3, <1>4, <1>11
    <1>. QED BY <1>7, <1>8, <1>9, <1>10, <1>11

\* The IS stage after the edge: empty, the renamed packet or what it was.
LEMMA IsNext ==
    ASSUME Inv, NEW packet, NEW dispatch, NEW n, NEW event, NEW written, NEW masked,
           Edge(packet, dispatch, n, event, written, masked)
    PROVE  LET S == DOMAIN packet
           IN /\ is' \in Seq(Results)
              /\ \/ is' = <<>>
                 \/ S # {} /\ is' = Renamed(S, packet)
                 \/ S = {} /\ ~dispatch /\ is' = is
              /\ event = "cancel" \/ flush_fe => is' = <<>>
              /\ event # "cancel" /\ flush = "IDLE" =>
                    /\ S # {} => is' = Renamed(S, packet)
                    /\ S = {} => is' = IF dispatch THEN <<>> ELSE is
              /\ S # {} => /\ Renamed(S, packet) \in Seq(Results)
                           /\ \A k \in 1..Len(Renamed(S, packet)) :
                                /\ InOrder(S)[k] \in S
                                /\ Renamed(S, packet)[k].preg = alloc[InOrder(S)[k]]
    <1>1. DOMAIN packet \in SUBSET Slots /\ packet \in [DOMAIN packet -> 1..Temp]
      BY EdgeInputs
    <1>2. DOMAIN packet # {} => /\ \A i \in DOMAIN packet : alloc[i] # None
                                /\ flush = "IDLE"
      BY EdgeInputs
    <1>3. is' = IF flush_fe \/ event = "cancel" THEN <<>>
                ELSE IF DOMAIN packet # {} THEN Renamed(DOMAIN packet, packet)
                ELSE IF dispatch THEN <<>> ELSE is
      BY DEF Edge, Clock, Stages
    <1>4. /\ alloc \in [Slots -> Pregs \cup {None}] /\ rt \in [Arch -> Pregs]
          /\ is \in Seq(Results) /\ <<>> \in Seq(Results)
      BY DEF Inv, Typed, TypeOK
    <1>5. DOMAIN packet # {} =>
             /\ Renamed(DOMAIN packet, packet) \in Seq(Results)
             /\ \A k \in 1..Len(Renamed(DOMAIN packet, packet)) :
                  /\ InOrder(DOMAIN packet)[k] \in DOMAIN packet
                  /\ Renamed(DOMAIN packet, packet)[k].preg = alloc[InOrder(DOMAIN packet)[k]]
      BY <1>1, <1>2, <1>4, RenamedIs
    <1>6. is' \in Seq(Results)
      BY <1>3, <1>4, <1>5
    <1>7. flush = "IDLE" => ~flush_fe
      BY DEF flush_fe
    <1>. QED BY <1>3, <1>5, <1>6, <1>7

\* The reorder buffer after the edge: empty when a flush begins or is under
\* way, else what has not retired followed by what is dispatched.
LEMMA RobNext ==
    ASSUME Inv, NEW packet, NEW dispatch, NEW n, NEW event, NEW written, NEW masked,
           Edge(packet, dispatch, n, event, written, masked)
    PROVE  LET m == Len(rob) - n
           IN /\ rob' \in Seq(Pregs)
              /\ event \notin {"none", "cancel"} \/ flush # "IDLE" => rob' = <<>>
              /\ event \in {"none", "cancel"} /\ flush = "IDLE" =>
                    /\ Len(rob') = m + IF dispatch THEN Len(is) ELSE 0
                    /\ \A j \in 1..m : rob'[j] = rob[j + n]
                    /\ dispatch => \A j \in 1..Len(is) : rob'[m + j] = is[j].preg
    <1> DEFINE m == Len(rob) - n
               old == SubSeq(rob, n + 1, Len(rob))
               new == IF dispatch THEN [j \in 1..Len(is) |-> is[j].preg] ELSE <<>>
    <1>1. /\ n \in Nat /\ n <= Len(rob) /\ (flush # "IDLE" => n = 0)
          /\ Len(rob) \in Nat /\ Len(is) \in Nat /\ rob \in Seq(Pregs) /\ dispatch \in BOOLEAN
          /\ (is = <<>> => ~dispatch)
          /\ event \in {"none", "async", "expt", "mispred", "cancel"}
      BY EdgeInputs DEF Inv, Typed, TypeOK
    <1>2. rob' = IF event \in {"expt", "mispred", "async"} \/ flush_is \/ flush_fe
                 THEN <<>> ELSE old \o new
      BY DEF Edge, Clock, Stages
    <1>3. \A j \in 1..Len(is) : is[j].preg \in Pregs
      <2>1. \A j \in 1..Len(is) : is[j] \in Results
        BY DEF Inv, Typed, TypeOK
      <2>. QED BY <2>1 DEF Results
    <1>4. /\ old \in Seq(Pregs) /\ Len(old) = m
          /\ \A j \in 1..m : old[j] = rob[j + n]
      <2>1. \A i \in n + 1 .. Len(rob) : rob[i] \in Pregs
        BY <1>1
      <2>2. n + 1 \in Int /\ Len(rob) \in Int
        BY <1>1
      <2>3. /\ old \in Seq(Pregs)
            /\ Len(old) = IF n + 1 <= Len(rob) THEN Len(rob) - (n + 1) + 1 ELSE 0
            /\ \A i \in 1 .. Len(rob) - (n + 1) + 1 : old[i] = rob[n + 1 + i - 1]
        BY <2>1, <2>2, SubSeqProperties
      <2> HIDE DEF old
      <2>4. Len(rob) - (n + 1) + 1 = m /\ m \in Nat /\ (n + 1 <= Len(rob) <=> m # 0)
        BY <1>1
      <2>5. \A j \in 1..m : n + 1 + j - 1 = j + n
        BY <1>1
      <2>. QED BY <2>3, <2>4, <2>5
    <1>5. /\ new \in Seq(Pregs) /\ Len(new) = IF dispatch THEN Len(is) ELSE 0
          /\ dispatch => \A j \in 1..Len(is) : new[j] = is[j].preg
      <2>1. CASE dispatch
        <3>1. new = [j \in 1..Len(is) |-> is[j].preg]
          BY <2>1
        <3> HIDE DEF new
        <3>2. new \in [1..Len(is) -> Pregs]
          BY <1>3, <3>1
        <3>. QED BY <1>1, <2>1, <3>1, <3>2
      <2>2. CASE ~dispatch
        BY <2>2
      <2>. QED BY <1>1, <2>1, <2>2
    <1>6. m \in Nat
      BY <1>1
    <1> HIDE DEF old, new, m
    <1>7. /\ old \o new \in Seq(Pregs)
          /\ Len(old \o new) = m + Len(new)
          /\ \A i \in 1 .. m + Len(new) : (old \o new)[i] = IF i <= m THEN old[i] ELSE new[i - m]
      BY <1>4, <1>5, ConcatProperties
    <1>8. rob' \in Seq(Pregs)
      BY <1>2, <1>7
    <1>9. ASSUME event \notin {"none", "cancel"} \/ flush # "IDLE" PROVE rob' = <<>>
      <2>1. CASE event \in {"expt", "mispred", "async"} \/ flush_is \/ flush_fe
        BY <1>2, <2>1
      <2>2. CASE ~(event \in {"expt", "mispred", "async"} \/ flush_is \/ flush_fe)
        <3>1. flush \in {"WF_EMPTY", "BE"}
          BY <1>1, <1>9, <2>2 DEF Inv, Typed, TypeOK, flush_is, flush_fe
        <3>2. rob = <<>> /\ is = <<>>
          BY <3>1 DEF Inv, Phase
        <3>3. Len(rob) = 0 /\ n = 0 /\ ~dispatch
          BY <1>1, <3>1, <3>2
        <3>4. Len(old \o new) = 0
          BY <1>4, <1>5, <1>7, <3>3 DEF m
        <3>. QED BY <1>2, <1>7, <2>2, <3>4
      <2>. QED BY <2>1, <2>2
    <1>10. ASSUME event \in {"none", "cancel"}, flush = "IDLE"
           PROVE  /\ Len(rob') = m + IF dispatch THEN Len(is) ELSE 0
                  /\ \A j \in 1..m : rob'[j] = rob[j + n]
                  /\ dispatch => \A j \in 1..Len(is) : rob'[m + j] = is[j].preg
      <2>1. rob' = old \o new
        BY <1>2, <1>10 DEF flush_is, flush_fe
      <2>2. \A j \in 1..m : rob'[j] = rob[j + n]
        BY <1>1, <1>4, <1>5, <1>6, <1>7, <2>1
      <2>3. ASSUME dispatch, NEW j \in 1..Len(is) PROVE rob'[m + j] = is[j].preg
        <3>1. m + j \in 1 .. m + Len(new) /\ ~(m + j <= m) /\ (m + j) - m = j
          BY <1>1, <1>5, <1>6, <2>3
        <3>. QED BY <1>5, <1>7, <2>1, <2>3, <3>1
      <2>. QED BY <1>5, <1>7, <2>1, <2>2, <2>3
    <1>. QED BY <1>8, <1>9, <1>10 DEF m

\* What waits for its instruction and what is allocated after the edge.
LEMMA LifeNextIs ==
    ASSUME Inv, NEW packet, NEW dispatch, NEW n, NEW event, NEW written, NEW masked,
           Edge(packet, dispatch, n, event, written, masked), NEW p \in Pregs
    PROVE  /\ life'[p] \in LifeStates
           /\ life'[p] = "WF_ALLOC" <=>
                 /\ ~yy_xx_flush
                 /\ \/ p \in granting(DOMAIN packet)
                    \/ life[p] = "WF_ALLOC" /\ p \notin creating(dispatch)
           /\ life'[p] = "ALLOC" <=>
                 /\ ~yy_xx_flush
                 /\ \/ p \in creating(dispatch)
                    \/ life[p] = "ALLOC" /\ p \notin releasing(n) /\ p \notin retiring(n)
    <1>1. life'[p] = LifeNext(p, granting(DOMAIN packet), creating(dispatch), retiring(n),
                              releasing(n), masked)
      BY DEF Edge, Clock, Entries
    <1>2. life[p] \in LifeStates
      BY DEF Inv, Typed, TypeOK
    <1>3. /\ p \in granting(DOMAIN packet) => life[p] = "DEALLOC"
          /\ p \in creating(dispatch) => life[p] = "WF_ALLOC"
          /\ p \in retiring(n) => life[p] = "ALLOC" /\ flush = "IDLE"
          /\ p \in releasing(n) => flush = "IDLE" /\ (p \in retiring(n) \/ life[p] = "RETIRE")
      BY Lists
    <1>. QED BY <1>1, <1>2, <1>3 DEF LifeNext, LifeStates, yy_xx_flush

LEMMA OneOwnerNext ==
    ASSUME Inv, NEW packet, NEW dispatch, NEW n, NEW event, NEW written, NEW masked,
           Edge(packet, dispatch, n, event, written, masked)
    PROVE  OneOwner'
    <1> DEFINE S == DOMAIN packet
               R == Renamed(S, packet)
               m == Len(rob) - n
    <1>1. /\ n \in Nat /\ n <= Len(rob) /\ Len(rob) \in Nat /\ Len(is) \in Nat
          /\ S \in SUBSET Slots /\ dispatch \in BOOLEAN /\ (is = <<>> => ~dispatch)
          /\ S # {} => /\ \A i \in S : alloc[i] # None
                       /\ flush = "IDLE" /\ ~stall /\ (is = <<>> \/ dispatch)
          /\ event \in {"none", "async", "expt", "mispred", "cancel"}
      BY EdgeInputs DEF Inv, Typed, TypeOK
    <1>2. /\ alloc \in [Slots -> Pregs \cup {None}] /\ is \in Seq(Results) /\ rob \in Seq(Pregs)
          /\ None \notin Pregs
      BY DEF Inv, Typed, TypeOK, Pregs, None
    <1>3. /\ \A i, j \in Slots : i # j /\ alloc[i] # None => alloc[i] # alloc[j]
          /\ \A i \in Slots : alloc[i] # None =>
                alloc[i] \in Pregs /\ life[alloc[i]] = "WF_ALLOC" /\ alloc[i] \notin InIs
          /\ \A j \in 1..Len(is) :
                /\ is[j].preg \in Pregs /\ life[is[j].preg] = "WF_ALLOC"
                /\ is[j].preg \notin InAlloc /\ is[j].preg \in InIs
          /\ \A i, j \in 1..Len(is) : i # j => is[i].preg # is[j].preg
          /\ \A i, j \in 1..Len(rob) : i # j => rob[i] # rob[j]
          /\ \A j \in 1..Len(rob) : rob[j] \in Pregs /\ life[rob[j]] = "ALLOC"
      <2>1. \A j \in 1..Len(is) : is[j].preg \in Pregs
        <3>1. \A j \in 1..Len(is) : is[j] \in Results
          BY <1>2
        <3>. QED BY <3>1 DEF Results
      <2>2. \A j \in 1..Len(is) : is[j].preg \in InIs
        BY <2>1 DEF InIs
      <2>3. \A i \in Slots : alloc[i] # None => alloc[i] \in InAlloc
        BY <1>2 DEF InAlloc
      <2>4. \A j \in 1..Len(rob) : rob[j] \in InRob /\ rob[j] \in Pregs
        BY <1>2 DEF InRob
      <2>. QED BY <1>2, <2>1, <2>2, <2>3, <2>4 DEF Inv, OneOwner
    <1>4. \A p : p \in creating(dispatch) <=> dispatch /\ \E j \in 1..Len(is) : p = is[j].preg
      BY DEF creating
    <1>5. \A p \in granting(S) : p \in Pregs /\ life[p] = "DEALLOC"
      BY Lists
    <1>6. /\ yy_xx_flush => \A i \in Slots : alloc'[i] = None
          /\ \A i \in Slots : \/ alloc'[i] = None
                              \/ alloc'[i] \in granting(S)
                              \/ i \notin S /\ alloc'[i] = alloc[i]
          /\ \A i, j \in Slots : i # j /\ alloc'[i] # None => alloc'[i] # alloc'[j]
          /\ ~yy_xx_flush =>
                /\ \A i \in Slots \ S : alloc[i] # None => alloc'[i] = alloc[i]
                /\ \A p \in granting(S) : \E i \in Slots : alloc'[i] = p
      BY AllocNext
    <1>7. /\ \/ is' = <<>>
             \/ S # {} /\ is' = R
             \/ S = {} /\ ~dispatch /\ is' = is
          /\ event = "cancel" \/ flush_fe => is' = <<>>
          /\ event # "cancel" /\ flush = "IDLE" =>
                /\ S # {} => is' = R
                /\ S = {} => is' = IF dispatch THEN <<>> ELSE is
      BY IsNext
    <1>8. S # {} => /\ Len(R) = Cardinality(S) /\ Cardinality(S) \in Nat
                    /\ \A k \in 1..Len(R) : InOrder(S)[k] \in S /\ R[k].preg = alloc[InOrder(S)[k]]
                    /\ \A k, l \in 1..Len(R) : k # l => InOrder(S)[k] # InOrder(S)[l]
                    /\ \A i \in S : \E k \in 1..Len(R) : R[k].preg = alloc[i]
      <2> SUFFICES ASSUME S # {}
                   PROVE  /\ Len(R) = Cardinality(S) /\ Cardinality(S) \in Nat
                          /\ \A k \in 1..Len(R) :
                                InOrder(S)[k] \in S /\ R[k].preg = alloc[InOrder(S)[k]]
                          /\ \A k, l \in 1..Len(R) : k # l => InOrder(S)[k] # InOrder(S)[l]
                          /\ \A i \in S : \E k \in 1..Len(R) : R[k].preg = alloc[i]
        OBVIOUS
      <2>1. packet \in [S -> 1..Temp] /\ rt \in [Arch -> Pregs]
        BY EdgeInputs DEF Inv, Typed, TypeOK
      <2>2. /\ Len(R) = Cardinality(S)
            /\ \A k \in 1..Len(R) : InOrder(S)[k] \in S /\ R[k].preg = alloc[InOrder(S)[k]]
        BY <1>1, <1>2, <2>1, RenamedIs
      <2>3. /\ Cardinality(S) \in Nat
            /\ InOrder(S) \in [1..Cardinality(S) -> S]
            /\ Increasing(InOrder(S)) /\ Onto(InOrder(S), S)
        BY <1>1, InOrderIs
      <2> HIDE DEF S, R
      <2>4. \A k, l \in 1..Len(R) : k < l => InOrder(S)[k] < InOrder(S)[l]
        BY <2>2, <2>3 DEF Increasing
      <2>5. \A k \in 1..Len(R) : InOrder(S)[k] \in 0..3
        <3>1. S \in SUBSET (0..3)
          BY <1>1 DEF Slots
        <3>. QED BY <2>2, <3>1
      <2>6. \A k, l \in 1..Len(R) : k # l => InOrder(S)[k] # InOrder(S)[l]
        BY <2>2, <2>3, <2>4, <2>5
      <2>7. \A i \in S : \E k \in 1..Len(R) : InOrder(S)[k] = i
        BY <2>2, <2>3 DEF Onto
      <2>. QED BY <2>2, <2>3, <2>6, <2>7
    <1>9. /\ event \notin {"none", "cancel"} \/ flush # "IDLE" => rob' = <<>>
          /\ event \in {"none", "cancel"} /\ flush = "IDLE" =>
                /\ Len(rob') = m + IF dispatch THEN Len(is) ELSE 0
                /\ \A j \in 1..m : rob'[j] = rob[j + n]
                /\ dispatch => \A j \in 1..Len(is) : rob'[m + j] = is[j].preg
      BY RobNext
    <1> HIDE DEF S, R, m
    <1>10. \A j \in 1..Len(is') :
              \/ /\ S # {} /\ is' = R
                 /\ InOrder(S)[j] \in S /\ is'[j].preg = alloc[InOrder(S)[j]]
              \/ S = {} /\ ~dispatch /\ is' = is
      <2>1. is' = <<>> => Len(is') = 0
        OBVIOUS
      <2>. QED BY <1>7, <1>8, <2>1
    \* The lists share no preg.
    <1>11. ASSUME NEW i \in Slots, NEW j \in 1..Len(is'), alloc'[i] = is'[j].preg,
                  alloc'[i] # None
           PROVE  FALSE
      <2>1. CASE S # {} /\ is' = R
        <3>1. InOrder(S)[j] \in S /\ is'[j].preg = alloc[InOrder(S)[j]]
          BY <1>10, <2>1
        <3>2. InOrder(S)[j] \in Slots /\ alloc[InOrder(S)[j]] # None
          BY <1>1, <3>1
        <3>. QED BY <1>3, <1>5, <1>6, <1>11, <3>1, <3>2
      <2>2. CASE S = {} /\ is' = is
        <3>1. life[is[j].preg] = "WF_ALLOC" /\ is[j].preg \in InIs
          BY <1>3, <2>2
        <3>. QED BY <1>3, <1>5, <1>6, <1>11, <2>2, <3>1
      <2>. QED BY <1>10, <2>1, <2>2
    <1>12. \A i, j \in 1..Len(is') : i # j => is'[i].preg # is'[j].preg
      <2>1. CASE S # {} /\ is' = R
        <3>1. \A j \in 1..Len(R) : InOrder(S)[j] \in Slots /\ alloc[InOrder(S)[j]] # None
          BY <1>1, <1>8, <2>1
        <3>. QED BY <1>3, <1>8, <2>1, <3>1
      <2>2. CASE is' = is
        BY <1>3, <2>2
      <2>3. CASE is' = <<>>
        BY <2>3
      <2>. QED BY <1>7, <2>1, <2>2, <2>3
    <1>13. m \in Nat /\ \A j \in 1..m : j + n \in 1..Len(rob) /\ j + n > n
      BY <1>1 DEF m
    <1>14. \A j \in 1..Len(rob') :
              /\ flush = "IDLE" /\ event \in {"none", "cancel"}
              /\ \/ j \in 1..m /\ rob'[j] = rob[j + n]
                 \/ /\ dispatch /\ j - m \in 1..Len(is) /\ j = m + (j - m)
                    /\ rob'[j] = is[j - m].preg
      <2> SUFFICES ASSUME NEW j \in 1..Len(rob')
                   PROVE  /\ flush = "IDLE" /\ event \in {"none", "cancel"}
                          /\ \/ j \in 1..m /\ rob'[j] = rob[j + n]
                             \/ /\ dispatch /\ j - m \in 1..Len(is) /\ j = m + (j - m)
                                /\ rob'[j] = is[j - m].preg
        OBVIOUS
      <2>1. rob' # <<>>
        OBVIOUS
      <2>2. flush = "IDLE" /\ event \in {"none", "cancel"}
        BY <1>9, <2>1
      <2>3. Len(rob') = m + IF dispatch THEN Len(is) ELSE 0
        BY <1>9, <2>2
      <2>4. CASE j <= m
        BY <1>9, <2>2, <2>4
      <2>5. CASE j > m
        <3>1. dispatch /\ j - m \in 1..Len(is) /\ j = m + (j - m)
          BY <1>1, <1>13, <2>3, <2>5
        <3>2. rob'[m + (j - m)] = is[j - m].preg
          BY <1>9, <2>2, <3>1
        <3>. QED BY <2>2, <3>1, <3>2
      <2>. QED BY <1>13, <2>4, <2>5
    <1>15. \A i, j \in 1..Len(rob') : i # j => rob'[i] # rob'[j]
      <2> SUFFICES ASSUME NEW i \in 1..Len(rob'), NEW j \in 1..Len(rob'), i # j
                   PROVE  rob'[i] # rob'[j]
        OBVIOUS
      <2>1. CASE i \in 1..m /\ j \in 1..m
        <3>1. i + n # j + n /\ i + n \in 1..Len(rob) /\ j + n \in 1..Len(rob)
          BY <1>1, <1>13, <2>1
        <3>2. rob'[i] = rob[i + n] /\ rob'[j] = rob[j + n]
          BY <1>9, <1>14, <2>1
        <3>. QED BY <1>3, <3>1, <3>2
      <2>2. CASE i \notin 1..m /\ j \notin 1..m
        <3>1. i - m # j - m
          BY <1>13
        <3>. QED BY <1>3, <1>14, <2>2, <3>1
      <2>3. CASE i \in 1..m /\ j \notin 1..m
        <3>1. life[rob'[i]] = "ALLOC"
          <4>1. rob'[i] = rob[i + n] /\ i + n \in 1..Len(rob)
            BY <1>9, <1>13, <1>14, <2>3
          <4>. QED BY <1>3, <4>1
        <3>. QED BY <1>3, <1>14, <2>3, <3>1
      <2>4. CASE i \notin 1..m /\ j \in 1..m
        <3>1. life[rob'[j]] = "ALLOC"
          <4>1. rob'[j] = rob[j + n] /\ j + n \in 1..Len(rob)
            BY <1>9, <1>13, <1>14, <2>4
          <4>. QED BY <1>3, <4>1
        <3>. QED BY <1>3, <1>14, <2>4, <3>1
      <2>. QED BY <2>1, <2>2, <2>3, <2>4
    \* Each list holds pregs of its life cycle state.
    <1>16. \A i \in Slots : alloc'[i] # None => life'[alloc'[i]] = "WF_ALLOC"
      <2> SUFFICES ASSUME NEW i \in Slots, alloc'[i] # None
                   PROVE  life'[alloc'[i]] = "WF_ALLOC"
        OBVIOUS
      <2>1. ~yy_xx_flush
        BY <1>6
      <2>2. CASE alloc'[i] \in granting(S)
        BY <1>5, <2>1, <2>2, LifeNextIs DEF S
      <2>3. CASE alloc'[i] = alloc[i]
        <3>1. alloc[i] \in Pregs /\ life[alloc[i]] = "WF_ALLOC" /\ alloc[i] \notin InIs
          BY <1>3, <2>3
        <3>2. alloc[i] \notin creating(dispatch)
          BY <1>3, <1>4, <3>1
        <3>. QED BY <2>1, <2>3, <3>1, <3>2, LifeNextIs
      <2>. QED BY <1>6, <2>2, <2>3
    <1>17. \A j \in 1..Len(is') : life'[is'[j].preg] = "WF_ALLOC" /\ is'[j].preg \in Pregs
      <2> SUFFICES ASSUME NEW j \in 1..Len(is')
                   PROVE  life'[is'[j].preg] = "WF_ALLOC" /\ is'[j].preg \in Pregs
        OBVIOUS
      <2>1. CASE S # {} /\ is' = R
        <3>1. flush = "IDLE" /\ InOrder(S)[j] \in Slots /\ alloc[InOrder(S)[j]] # None
              /\ is'[j].preg = alloc[InOrder(S)[j]]
          BY <1>1, <1>10, <2>1
        <3>2. /\ is'[j].preg \in Pregs /\ life[is'[j].preg] = "WF_ALLOC"
              /\ is'[j].preg \notin InIs
          BY <1>3, <3>1
        <3>3. is'[j].preg \notin creating(dispatch)
          BY <1>3, <1>4, <3>2
        <3>. QED BY <3>1, <3>2, <3>3, LifeNextIs DEF yy_xx_flush
      <2>2. CASE S = {} /\ ~dispatch /\ is' = is
        <3>1. ~yy_xx_flush
          <4>1. is' # <<>> /\ ~flush_fe
            <5>1. is' # <<>>
              OBVIOUS
            <5>. QED BY <1>7, <5>1
          <4>. QED BY <2>2, <4>1 DEF Inv, Phase, yy_xx_flush, flush_fe
        <3>2. is[j].preg \in Pregs /\ life[is[j].preg] = "WF_ALLOC"
          BY <1>3, <2>2
        <3>3. is[j].preg \notin creating(dispatch)
          BY <1>4, <2>2
        <3>. QED BY <2>2, <3>1, <3>2, <3>3, LifeNextIs
      <2>. QED BY <1>10, <2>1, <2>2
    <1>18. \A j \in 1..Len(rob') : life'[rob'[j]] = "ALLOC" /\ rob'[j] \in Pregs
      <2> SUFFICES ASSUME NEW j \in 1..Len(rob')
                   PROVE  life'[rob'[j]] = "ALLOC" /\ rob'[j] \in Pregs
        OBVIOUS
      <2>1. flush = "IDLE" /\ ~yy_xx_flush
        BY <1>14 DEF yy_xx_flush
      <2>2. CASE j \in 1..m /\ rob'[j] = rob[j + n]
        <3>1. j + n \in 1..Len(rob) /\ rob[j + n] \in Pregs /\ life[rob[j + n]] = "ALLOC"
          BY <1>3, <1>13, <2>2
        <3>2. rob[j + n] \notin retiring(n)
          <4>1. \A i \in 1..n : i \in 1..Len(rob) /\ i # j + n
            BY <1>1, <2>2
          <4>. QED BY <1>3, <3>1, <4>1 DEF retiring
        <3>3. rob[j + n] \notin releasing(n)
          BY <3>1, <3>2, Lists
        <3>. QED BY <2>1, <2>2, <3>1, <3>2, <3>3, LifeNextIs
      <2>3. CASE dispatch /\ j - m \in 1..Len(is) /\ rob'[j] = is[j - m].preg
        <3>1. rob'[j] \in creating(dispatch) /\ rob'[j] \in Pregs
          BY <1>3, <1>4, <2>3
        <3>. QED BY <2>1, <3>1, LifeNextIs
      <2>. QED BY <1>14, <2>2, <2>3
    \* No preg is lost.
    <1>19. ASSUME ~stall', flush' = "IDLE", NEW p \in Pregs
           PROVE  /\ life'[p] = "WF_ALLOC" => \/ \E i \in Slots : alloc'[i] = p
                                              \/ \E j \in 1..Len(is') : is'[j].preg = p
                  /\ life'[p] = "ALLOC" => \E j \in 1..Len(rob') : rob'[j] = p
      <2>1. CASE yy_xx_flush
        BY <2>1, LifeNextIs
      <2>2. CASE ~yy_xx_flush
        <3>1. flush = "IDLE" /\ event = "none" /\ ~stall
          <4>1. /\ flush' \in {FlushNext(event, retiring(n), committed) : committed \in BOOLEAN}
                /\ stall' = (~yy_xx_flush /\ (stall \/ event = "cancel"))
            BY DEF Edge, Clock, Flush
          <4>2. PICK committed \in BOOLEAN : FlushNext(event, retiring(n), committed) = "IDLE"
            BY <1>19, <4>1
          <4>3. ~stall /\ event # "cancel"
            BY <1>19, <2>2, <4>1
          <4>4. event = "mispred" => stall
            BY EdgeInputs
          <4>5. flush \in {"IDLE", "IS", "FE", "WF_EMPTY", "IS_BE", "FE_BE", "BE"}
            BY DEF Inv, Typed, TypeOK
          <4>. QED BY <1>1, <2>2, <4>2, <4>3, <4>4, <4>5 DEF FlushNext, yy_xx_flush
        <3>2. /\ life[p] = "WF_ALLOC" => \/ \E i \in Slots : alloc[i] = p
                                         \/ \E j \in 1..Len(is) : is[j].preg = p
              /\ life[p] = "ALLOC" => \E j \in 1..Len(rob) : rob[j] = p
          BY <3>1 DEF Inv, OneOwner, Flushing, InAlloc, InIs, InRob
        <3>3. /\ S # {} => is' = R
              /\ S = {} => is' = IF dispatch THEN <<>> ELSE is
          BY <1>7, <3>1
        <3>4. /\ Len(rob') = m + IF dispatch THEN Len(is) ELSE 0
              /\ \A j \in 1..m : rob'[j] = rob[j + n]
              /\ dispatch => \A j \in 1..Len(is) : rob'[m + j] = is[j].preg
          BY <1>9, <3>1
        <3>5. ASSUME life'[p] = "WF_ALLOC"
              PROVE  \/ \E i \in Slots : alloc'[i] = p
                     \/ \E j \in 1..Len(is') : is'[j].preg = p
          <4>1. \/ p \in granting(S)
                \/ life[p] = "WF_ALLOC" /\ p \notin creating(dispatch)
            BY <3>5, LifeNextIs DEF S
          <4>2. CASE p \in granting(S)
            BY <1>6, <2>2, <4>2
          <4>3. ASSUME NEW i \in Slots, alloc[i] = p
                PROVE  \/ \E k \in Slots : alloc'[k] = p
                       \/ \E j \in 1..Len(is') : is'[j].preg = p
            <5>1. CASE i \in S
              BY <1>8, <3>3, <4>3, <5>1
            <5>2. CASE i \notin S
              BY <1>2, <1>6, <2>2, <4>3, <5>2
            <5>. QED BY <5>1, <5>2
          <4>4. ASSUME NEW j \in 1..Len(is), is[j].preg = p, p \notin creating(dispatch)
                PROVE  \E k \in 1..Len(is') : is'[k].preg = p
            <5>1. ~dispatch /\ is # <<>>
              BY <1>4, <4>4
            <5>2. S = {}
              BY <1>1, <5>1
            <5>. QED BY <3>3, <4>4, <5>1, <5>2
          <4>. QED BY <3>2, <4>1, <4>2, <4>3, <4>4
        <3>6. ASSUME life'[p] = "ALLOC" PROVE \E j \in 1..Len(rob') : rob'[j] = p
          <4>1. CASE p \in creating(dispatch)
            <5>1. PICK j \in 1..Len(is) : p = is[j].preg
              BY <1>4, <4>1
            <5>2. m + j \in 1..Len(rob') /\ rob'[m + j] = p
              BY <1>1, <1>4, <1>13, <3>4, <4>1, <5>1
            <5>. QED BY <5>2
          <4>2. CASE life[p] = "ALLOC" /\ p \notin retiring(n)
            <5>1. PICK j \in 1..Len(rob) : rob[j] = p
              BY <3>2, <4>2
            <5>2. j \notin 1..n
              BY <4>2, <5>1 DEF retiring
            <5>3. j - n \in 1..m /\ (j - n) + n = j
              BY <1>1, <5>2 DEF m
            <5>4. rob'[j - n] = p /\ j - n \in 1..Len(rob')
              BY <1>1, <1>13, <3>4, <5>1, <5>3
            <5>. QED BY <5>4
          <4>. QED BY <3>6, <4>1, <4>2, LifeNextIs
        <3>. QED BY <3>5, <3>6
      <2>. QED BY <2>1, <2>2
    <1>20. \A p : p \in InAlloc' <=> p \in Pregs /\ \E i \in Slots : alloc'[i] = p
      BY DEF InAlloc
    <1>21. \A p : p \in InIs' <=> p \in Pregs /\ \E j \in 1..Len(is') : is'[j].preg = p
      BY DEF InIs
    <1>22. \A p : p \in InRob' <=> p \in Pregs /\ \E j \in 1..Len(rob') : rob'[j] = p
      BY DEF InRob
    <1>23. (InAlloc \cap InIs)' = {}
      BY <1>2, <1>11, <1>20, <1>21
    <1>24. \A p \in (InAlloc \cup InIs)' : life'[p] = "WF_ALLOC"
      BY <1>2, <1>16, <1>17, <1>20, <1>21
    <1>25. \A p \in InRob' : life'[p] = "ALLOC"
      BY <1>18, <1>22
    <1>26. Flushing' <=> stall' \/ flush' # "IDLE"
      BY DEF Flushing
    <1>27. ~Flushing' => /\ \A p \in Pregs : life'[p] = "WF_ALLOC" => p \in (InAlloc \cup InIs)'
                         /\ \A p \in Pregs : life'[p] = "ALLOC" => p \in InRob'
      BY <1>19, <1>20, <1>21, <1>22, <1>26
    <1>. QED BY <1>6, <1>12, <1>15, <1>23, <1>24, <1>25, <1>27 DEF OneOwner

LEMMA PhaseNext ==
    ASSUME Inv, NEW packet, NEW dispatch, NEW n, NEW event, NEW written, NEW masked,
           Edge(packet, dispatch, n, event, written, masked)
    PROVE  Phase'
    <1>1. /\ DOMAIN packet # {} => flush = "IDLE" /\ ~stall
          /\ (is = <<>> => ~dispatch)
          /\ event \in {"none", "async", "expt", "mispred", "cancel"}
          /\ event \in {"expt", "mispred", "cancel"} => flush = "IDLE"
          /\ event = "mispred" => stall
      BY EdgeInputs
    <1>2. /\ stall' = (~yy_xx_flush /\ (stall \/ event = "cancel"))
          /\ flush' \in {FlushNext(event, retiring(n), committed) : committed \in BOOLEAN}
      BY DEF Edge, Clock, Flush
    <1>3. PICK committed \in BOOLEAN : flush' = FlushNext(event, retiring(n), committed)
      BY <1>2
    <1>4. is' = IF flush_fe \/ event = "cancel" THEN <<>>
                ELSE IF DOMAIN packet # {} THEN Renamed(DOMAIN packet, packet)
                ELSE IF dispatch THEN <<>> ELSE is
      BY DEF Edge, Clock, Stages
    <1>5. stall \/ flush \in {"IS", "IS_BE", "WF_EMPTY", "BE"} => is = <<>>
      BY DEF Inv, Phase
    <1>6. flush \in {"IDLE", "IS", "FE", "WF_EMPTY", "IS_BE", "FE_BE", "BE"}
      BY DEF Inv, Typed, TypeOK
    <1>7. stall' \/ flush' \in {"IS", "IS_BE", "WF_EMPTY", "BE"} => is' = <<>>
      BY <1>1, <1>2, <1>3, <1>4, <1>5, <1>6 DEF FlushNext, flush_fe
    <1>8. flush' # "IDLE" => event \notin {"none", "cancel"} \/ flush # "IDLE"
      BY <1>3 DEF FlushNext
    <1>9. flush' # "IDLE" => rob' = <<>>
      BY <1>8, RobNext
    <1>. QED BY <1>7, <1>9 DEF Phase

\* Who owes a result: a created preg, until the result is written.
LEMMA OwedIs ==
    ASSUME Inv, NEW packet, NEW dispatch, NEW n, NEW event, NEW written, NEW masked,
           Edge(packet, dispatch, n, event, written, masked), NEW p \in Pregs
    PROVE  /\ owed'[p] \in 0..1
           /\ wb'[p] \/ life'[p] \in {"DEALLOC", "WF_ALLOC"} => owed'[p] = 0
           /\ life'[p] \in {"ALLOC", "RETIRE", "RELEASE"} /\ ~wb'[p] => owed'[p] = 1
    <1>1. life'[p] = LifeNext(p, granting(DOMAIN packet), creating(dispatch), retiring(n),
                              releasing(n), masked)
      BY DEF Edge, Clock, Entries
    <1>2. wb'[p] = WbNext(p, creating(dispatch), written)
      BY DEF Edge, Clock, Entries
    <1>3. owed'[p] = IF p \in Abandoned THEN 0
                     ELSE owed[p] + (IF p \in creating(dispatch) THEN 1 ELSE 0)
                                  - (IF p \in written THEN 1 ELSE 0)
      BY DEF Edge, Clock, Entries, WriteFile
    <1>4. /\ life[p] \in LifeStates /\ owed[p] \in 0..1 /\ wb[p] \in BOOLEAN
          /\ wb[p] \/ life[p] \in {"DEALLOC", "WF_ALLOC"} => owed[p] = 0
      BY DEF Inv, Typed, TypeOK, Wrote
    <1>5. p \in written => owed[p] > 0
      BY DEF Edge
    <1>6. /\ p \in creating(dispatch) => life[p] = "WF_ALLOC"
          /\ p \in releasing(n) => flush = "IDLE"
      BY Lists
    <1>7. p \in Abandoned <=> \/ yy_xx_flush /\ life[p] \notin {"RETIRE", "RELEASE"}
                           \/ async
      BY DEF Abandoned
    <1>8. owed'[p] \in 0..1
      BY <1>3, <1>4, <1>5, <1>6
    <1>9. ASSUME wb'[p] PROVE owed'[p] = 0
      <2>1. CASE async
        BY <1>3, <1>7, <2>1
      <2>2. CASE ~async
        <3>1. p \notin creating(dispatch)
          BY <1>2, <1>9, <2>2 DEF WbNext
        <3>2. wb[p] \/ p \in written
          BY <1>2, <1>4, <1>9, <2>2, <3>1 DEF WbNext
        <3>. QED BY <1>3, <1>4, <1>5, <3>1, <3>2
      <2>. QED BY <2>1, <2>2
    <1>10. ASSUME life'[p] \in {"DEALLOC", "WF_ALLOC"} PROVE owed'[p] = 0
      <2>1. CASE p \in Abandoned
        BY <1>3, <2>1
      <2>2. CASE p \notin Abandoned
        <3>1. p \notin creating(dispatch)
          BY <1>1, <1>6, <1>7, <1>10, <2>2 DEF LifeNext
        <3>2. wb[p] \/ life[p] \in {"DEALLOC", "WF_ALLOC"}
          BY <1>1, <1>4, <1>7, <1>10, <2>2 DEF LifeNext, LifeStates
        <3>. QED BY <1>3, <1>4, <1>5, <2>2, <3>1, <3>2
      <2>. QED BY <2>1, <2>2
    <1>11. ASSUME life'[p] \in {"ALLOC", "RETIRE", "RELEASE"}, ~wb'[p] PROVE owed'[p] = 1
      <2>1. ~async
        BY <1>2, <1>11 DEF WbNext
      <2>2. CASE p \in creating(dispatch)
        <3>1. life[p] = "WF_ALLOC" /\ ~yy_xx_flush
          BY <1>1, <1>6, <1>11, <2>2 DEF LifeNext
        <3>2. owed[p] = 0 /\ p \notin written
          BY <1>4, <1>5, <3>1
        <3>. QED BY <1>3, <1>7, <2>1, <2>2, <3>1, <3>2
      <2>3. CASE p \notin creating(dispatch)
        <3>1. /\ life[p] \in {"ALLOC", "RETIRE", "RELEASE"}
              /\ yy_xx_flush => life[p] \in {"RETIRE", "RELEASE"}
          BY <1>1, <1>4, <1>11, <2>3 DEF LifeNext, LifeStates
        <3>2. ~wb[p] /\ p \notin written
          BY <1>2, <1>11, <2>1, <2>3, <3>1 DEF WbNext
        <3>3. owed[p] = 1
          BY <3>1, <3>2 DEF Inv, WaitsForResult
        <3>. QED BY <1>3, <1>7, <2>1, <2>3, <3>1, <3>2, <3>3
      <2>. QED BY <2>2, <2>3
    <1>. QED BY <1>8, <1>9, <1>10, <1>11

\* The machine leaves its waiting states when every retired preg is written.
LEMMA FlushNextIs ==
    ASSUME Inv, NEW packet, NEW dispatch, NEW n, NEW event, NEW written, NEW masked,
           Edge(packet, dispatch, n, event, written, masked)
    PROVE  FlushAfterWriteBack'
    <1> SUFFICES ASSUME flush' \in {"BE", "IS_BE", "FE_BE"}, ~async', NEW p \in Pregs,
                        life'[p] \in {"RETIRE", "RELEASE"}
                 PROVE  wb'[p] /\ owed'[p] = 0
      BY DEF FlushAfterWriteBack, yy_xx_flush
    <1>1. PICK committed \in BOOLEAN : flush' = FlushNext(event, retiring(n), committed)
      BY DEF Edge, Clock, Flush
    <1>2. event # "async"
      BY DEF Edge, Clock, Flush
    <1>3. retired_reg_wb(retiring(n))
      BY <1>1, <1>2 DEF FlushNext
    <1>4. life[p] \in LifeStates
      BY DEF Inv, Typed, TypeOK
    <1>5. /\ p \in creating(dispatch) => life[p] = "WF_ALLOC"
          /\ p \in releasing(n) => p \in retiring(n) \/ life[p] = "RETIRE"
      BY Lists
    <1>6. p \in retiring(n) \/ life[p] \in {"RETIRE", "RELEASE"}
      <2>1. life'[p] = LifeNext(p, granting(DOMAIN packet), creating(dispatch), retiring(n),
                                releasing(n), masked)
        BY DEF Edge, Clock, Entries
      <2>. QED BY <1>4, <1>5, <2>1 DEF LifeNext, LifeStates
    <1>7. wb[p]
      BY <1>3, <1>6 DEF retired_reg_wb
    <1>8. life[p] \notin {"DEALLOC", "WF_ALLOC"}
      BY <1>6, Lists
    <1>9. wb'[p]
      <2>1. wb'[p] = WbNext(p, creating(dispatch), written)
        BY DEF Edge, Clock, Entries
      <2>2. p \notin creating(dispatch)
        BY <1>5, <1>8
      <2>. QED BY <1>7, <1>8, <2>1, <2>2 DEF WbNext
    <1>. QED BY <1>9, OwedIs

-----------------------------------------------------------------------------
(* The instructions in flight after the edge.                              *)

\* An instruction keeps its destination and what it releases until it retires.
LEMMA FlightKeeps ==
    ASSUME Inv, NEW packet, NEW dispatch, NEW n, NEW event, NEW written, NEW masked,
           Edge(packet, dispatch, n, event, written, masked), NEW j \in 1..Len(rob')
    PROVE  /\ j + n \in 1..Len(InFlight) /\ InFlight[j + n] \in Results
           /\ [preg |-> rob'[j], dst |-> info'[rob'[j]].dst, rel |-> info'[rob'[j]].rel]
                = InFlight[j + n]
    <1> DEFINE m == Len(rob) - n
    <1>1. /\ n \in Nat /\ n <= Len(rob) /\ Len(rob) \in Nat /\ Len(is) \in Nat
          /\ dispatch \in BOOLEAN /\ is \in Seq(Results) /\ rob \in Seq(Pregs)
          /\ info \in [Pregs -> [dst : 0..Temp, rel : 0..NP]]
      BY EdgeInputs DEF Inv, Typed, TypeOK
    <1>2. rob' # <<>>
      OBVIOUS
    <1>3. /\ flush = "IDLE"
          /\ Len(rob') = m + IF dispatch THEN Len(is) ELSE 0
          /\ \A k \in 1..m : rob'[k] = rob[k + n]
          /\ dispatch => \A k \in 1..Len(is) : rob'[m + k] = is[k].preg
          /\ rob' \in Seq(Pregs)
      <2>1. event \in {"none", "async", "expt", "mispred", "cancel"}
        BY EdgeInputs
      <2>. QED BY <1>2, <2>1, RobNext
    <1>4. life'[rob'[j]] = "ALLOC" /\ rob'[j] \in Pregs
      <2>1. rob'[j] \in Pregs
        BY <1>3
      <2>2. rob'[j] \in InRob'
        BY <2>1 DEF InRob
      <2>. QED BY <2>1, <2>2, OneOwnerNext DEF OneOwner
    <1>5. info'[rob'[j]] =
             IF rob'[j] \in creating(dispatch)
             THEN LET k == CHOOSE k \in 1..Len(is) : is[k].preg = rob'[j]
                  IN [dst |-> is[k].dst, rel |-> is[k].rel]
             ELSE info[rob'[j]]
      BY <1>4 DEF Edge, Clock, Entries
    <1>6. m \in Nat
      BY <1>1
    <1>7. \A k \in 1..Len(rob) + Len(is) :
             InFlight[k] = IF k > Len(rob) THEN is[k - Len(rob)]
                           ELSE [preg |-> rob[k], dst |-> info[rob[k]].dst,
                                 rel |-> info[rob[k]].rel]
      BY DEF InFlight
    <1>8. Len(InFlight) = Len(rob) + Len(is)
      BY <1>1 DEF InFlight
    <1>9. CASE j <= m
      <2>1. j + n \in 1..Len(rob) /\ ~(j + n > Len(rob)) /\ rob'[j] = rob[j + n]
        <3>1. j \in 1..m
          BY <1>6, <1>9
        <3>2. rob'[j] = rob[j + n]
          BY <1>3, <3>1
        <3>3. j + n \in 1..Len(rob) /\ ~(j + n > Len(rob))
          BY <1>1, <3>1
        <3>. QED BY <3>2, <3>3
      <2>2. life[rob[j + n]] = "ALLOC"
        <3>1. rob[j + n] \in InRob
          BY <1>1, <2>1 DEF InRob
        <3>. QED BY <3>1 DEF Inv, OneOwner
      <2>3. rob'[j] \notin creating(dispatch)
        BY <2>1, <2>2, Lists
      <2>4. info'[rob'[j]] = info[rob[j + n]]
        BY <1>5, <2>1, <2>3
      <2>5. info[rob[j + n]].dst \in 1..Temp /\ info[rob[j + n]].rel \in Pregs
        BY <2>1 DEF Inv, Typed
      <2>6. j + n \in 1..Len(rob) + Len(is)
        BY <1>1, <2>1
      <2>7. InFlight[j + n] = [preg |-> rob[j + n], dst |-> info[rob[j + n]].dst,
                               rel |-> info[rob[j + n]].rel]
        BY <1>7, <2>1, <2>6
      <2>8. InFlight[j + n] \in Results
        BY <1>4, <2>1, <2>5, <2>7 DEF Results
      <2>. QED BY <1>8, <2>1, <2>4, <2>6, <2>7, <2>8
    <1>10. CASE j > m
      <2> DEFINE i == j - m
      <2>1. dispatch /\ i \in 1..Len(is) /\ j = m + i
        <3>1. dispatch
          <4>1. ~dispatch => Len(rob') = m
            BY <1>3, <1>6
          <4> HIDE DEF m
          <4>. QED BY <1>6, <1>10, <4>1
        <3>2. Len(rob') = m + Len(is)
          BY <1>3, <3>1
        <3> HIDE DEF m
        <3>. QED BY <1>1, <1>6, <1>10, <3>1, <3>2
      <2>2. rob'[j] = is[i].preg
        BY <1>3, <2>1
      <2>3. rob'[j] \in creating(dispatch)
        BY <2>1, <2>2 DEF creating
      <2>4. \A k \in 1..Len(is) : is[k].preg = rob'[j] => k = i
        BY <2>1, <2>2 DEF Inv, OneOwner
      <2>5. (CHOOSE k \in 1..Len(is) : is[k].preg = rob'[j]) = i
        BY <2>1, <2>2, <2>4
      <2>6. info'[rob'[j]] = [dst |-> is[i].dst, rel |-> is[i].rel]
        BY <1>5, <2>3, <2>5
      <2>7. is[i] \in Results
        BY <1>1, <2>1
      <2>8. /\ j + n \in 1..Len(rob) + Len(is) /\ j + n > Len(rob)
            /\ (j + n) - Len(rob) = i
        BY <1>1, <1>6, <2>1
      <2>9. InFlight[j + n] = is[i]
        BY <1>7, <2>8
      <2> HIDE DEF i
      <2>10. is[i] = [preg |-> is[i].preg, dst |-> is[i].dst, rel |-> is[i].rel]
        BY <2>7 DEF Results
      <2>. QED BY <1>8, <2>2, <2>6, <2>7, <2>8, <2>9, <2>10
    <1>. QED BY <1>1, <1>6, <1>9, <1>10

LEMMA FlightDst ==
    ASSUME Inv, NEW j \in 1..Len(InFlight)
    PROVE  InFlight[j].dst \in 1..Temp
    <1>1. /\ Len(rob) \in Nat /\ Len(is) \in Nat /\ is \in Seq(Results)
          /\ \A i \in 1..Len(rob) : info[rob[i]].dst \in 1..Temp
      BY DEF Inv, Typed, TypeOK
    <1>2. Len(InFlight) = Len(rob) + Len(is)
      BY <1>1 DEF InFlight
    <1>3. InFlight[j] = IF j > Len(rob) THEN is[j - Len(rob)]
                        ELSE [preg |-> rob[j], dst |-> info[rob[j]].dst, rel |-> info[rob[j]].rel]
      BY <1>2 DEF InFlight
    <1>4. CASE j > Len(rob)
      <2>1. j - Len(rob) \in 1..Len(is)
        BY <1>1, <1>2, <1>4
      <2>2. is[j - Len(rob)] \in Results
        BY <1>1, <2>1
      <2>. QED BY <1>3, <1>4, <2>2 DEF Results
    <1>5. CASE ~(j > Len(rob))
      <2>1. j \in 1..Len(rob)
        BY <1>1, <1>2, <1>5
      <2>. QED BY <1>1, <1>3, <1>5, <2>1
    <1>. QED BY <1>4, <1>5

\* What was in flight moves up by the n that retire; a renamed packet follows.
LEMMA FlightNext ==
    ASSUME Inv, NEW packet, NEW dispatch, NEW n, NEW event, NEW written, NEW masked,
           Edge(packet, dispatch, n, event, written, masked),
           flush = "IDLE", event \in {"none", "cancel"}
    PROVE  LET S == DOMAIN packet
               R == Renamed(S, packet)
           IN \E q \in Nat :
                 /\ \A j \in 1..q : InFlight'[j] = InFlight[j + n]
                 /\ q + n <= Len(InFlight)
                 /\ event = "none" => q + n = Len(InFlight)
                 /\ \/ Len(InFlight') = q /\ (event = "none" => S = {})
                    \/ /\ S # {} /\ event = "none" /\ Len(InFlight') = q + Len(R)
                       /\ \A k \in 1..Len(R) : InFlight'[q + k] = R[k]
    <1> DEFINE S == DOMAIN packet
               R == Renamed(S, packet)
               m == Len(rob) - n
    <1>1. /\ n \in Nat /\ n <= Len(rob) /\ Len(rob) \in Nat /\ Len(is) \in Nat
          /\ dispatch \in BOOLEAN /\ (is = <<>> => ~dispatch)
          /\ S # {} => is = <<>> \/ dispatch
          /\ is \in Seq(Results)
      BY EdgeInputs DEF Inv, Typed, TypeOK
    <1>2. /\ Len(rob') = m + IF dispatch THEN Len(is) ELSE 0
          /\ rob' \in Seq(Pregs)
      BY RobNext
    <1>3. /\ is' \in Seq(Results)
          /\ event = "cancel" => is' = <<>>
          /\ event # "cancel" =>
                /\ S # {} => is' = R
                /\ S = {} => is' = IF dispatch THEN <<>> ELSE is
          /\ S # {} => R \in Seq(Results)
      BY IsNext
    <1>4. Len(rob') \in Nat /\ Len(is') \in Nat
      BY <1>2, <1>3
    <1>5. /\ Len(InFlight) = Len(rob) + Len(is)
          /\ \A k \in 1..Len(rob) + Len(is) : k > Len(rob) => InFlight[k] = is[k - Len(rob)]
      BY <1>1 DEF InFlight
    <1>6. InFlight' = [j \in 1 .. Len(rob') + Len(is') |->
                         IF j > Len(rob') THEN is'[j - Len(rob')]
                         ELSE [preg |-> rob'[j], dst |-> info'[rob'[j]].dst,
                               rel |-> info'[rob'[j]].rel]]
      BY DEF InFlight
    <1>7. Len(InFlight') = Len(rob') + Len(is')
      BY <1>4, <1>6
    <1>8. \A j \in 1..Len(rob') : InFlight'[j] = InFlight[j + n]
      <2> SUFFICES ASSUME NEW j \in 1..Len(rob') PROVE InFlight'[j] = InFlight[j + n]
        OBVIOUS
      <2>1. j \in 1 .. Len(rob') + Len(is') /\ ~(j > Len(rob'))
        BY <1>4
      <2>2. InFlight'[j] = [preg |-> rob'[j], dst |-> info'[rob'[j]].dst,
                            rel |-> info'[rob'[j]].rel]
        BY <1>6, <2>1
      <2>. QED BY <2>2, FlightKeeps
    <1>9. \A k \in 1..Len(is') : InFlight'[Len(rob') + k] = is'[k]
      <2> SUFFICES ASSUME NEW k \in 1..Len(is')
                   PROVE  InFlight'[Len(rob') + k] = is'[k]
        OBVIOUS
      <2>1. /\ Len(rob') + k \in 1 .. Len(rob') + Len(is')
            /\ Len(rob') + k > Len(rob') /\ (Len(rob') + k) - Len(rob') = k
        BY <1>4
      <2>. QED BY <1>6, <2>1
    <1>10. m \in Nat
      BY <1>1
    <1>11. is = <<>> => Len(is) = 0
      OBVIOUS
    <1> HIDE DEF S, R
    <1>12. CASE event = "cancel"
      <2>1. Len(is') = 0
        BY <1>3, <1>12
      <2>2. Len(rob') + n <= Len(InFlight) /\ Len(InFlight') = Len(rob')
        BY <1>1, <1>2, <1>4, <1>5, <1>7, <2>1
      <2>3. event # "none"
        BY <1>12
      <2>. QED BY <1>4, <1>8, <2>2, <2>3 DEF S, R
    <1>13. CASE event = "none" /\ S # {}
      <2>1. Len(rob') + n = Len(InFlight)
        BY <1>1, <1>2, <1>5, <1>11, <1>13
      <2>2. is' = R
        BY <1>3, <1>13
      <2>. QED BY <1>4, <1>7, <1>8, <1>9, <1>13, <2>1, <2>2 DEF S, R
    <1>14. CASE event = "none" /\ S = {} /\ dispatch
      <2>1. is' = <<>>
        BY <1>3, <1>14
      <2>2. Len(is') = 0
        BY <2>1
      <2>3. Len(rob') + n = Len(InFlight) /\ Len(InFlight') = Len(rob')
        BY <1>1, <1>2, <1>4, <1>5, <1>7, <1>14, <2>2
      <2>. QED BY <1>4, <1>8, <1>14, <2>3 DEF S, R
    <1>15. CASE event = "none" /\ S = {} /\ ~dispatch
      <2> DEFINE q == Len(rob') + Len(is')
      <2>1. is' = is /\ Len(rob') = m
        BY <1>1, <1>2, <1>3, <1>15
      <2>2. q \in Nat /\ q + n = Len(InFlight) /\ Len(InFlight') = q
        BY <1>1, <1>4, <1>5, <1>7, <2>1
      <2>3. \A j \in 1..q : InFlight'[j] = InFlight[j + n]
        <3> SUFFICES ASSUME NEW j \in 1..q PROVE InFlight'[j] = InFlight[j + n]
          OBVIOUS
        <3>1. CASE j <= Len(rob')
          BY <1>4, <1>8, <3>1
        <3>2. CASE j > Len(rob')
          <4> DEFINE k == j - Len(rob')
          <4>1. /\ k \in 1..Len(is') /\ j = Len(rob') + k
                /\ j + n \in 1..Len(rob) + Len(is) /\ j + n > Len(rob)
                /\ (j + n) - Len(rob) = k
            BY <1>1, <1>4, <1>10, <2>1, <3>2
          <4>2. InFlight'[Len(rob') + k] = is'[k]
            BY <1>9, <4>1
          <4>3. InFlight[j + n] = is[k]
            BY <1>5, <4>1
          <4>. QED BY <2>1, <4>1, <4>2, <4>3
        <3>. QED BY <1>4, <3>1, <3>2
      <2> HIDE DEF q
      <2>. QED BY <1>15, <2>2, <2>3 DEF S, R
    <1>. QED BY <1>1, <1>12, <1>13, <1>14, <1>15

\* What holds a register before the j-th instruction is what held it before that
\* instruction when n others were ahead of it.
LEMMA HolderMoves ==
    ASSUME Inv, NEW packet, NEW dispatch, NEW n, NEW event, NEW written, NEW masked,
           Edge(packet, dispatch, n, event, written, masked),
           NEW q \in Nat, \A k \in 1..q : InFlight'[k] = InFlight[k + n],
           NEW a \in Arch, NEW j \in 1 .. q + 1
    PROVE  Holder(a, j)' = Holder(a, j + n)
    <1> DEFINE F == InFlight
               G == InFlight'
               M == Mapped(a)
               N == Mapped(a)'
    <1>1. n \in Nat /\ j \in Nat \ {0}
      BY EdgeInputs
    <1>2. Holder(a, j)' = Last(G, N, a, j)
      BY DEF Holder, Last
    <1>3. N = Holder(a, n + 1)
      BY MappedNext
    <1>4. Holder(a, n + 1) = Last(F, M, a, n + 1) /\ Holder(a, n + j) = Last(F, M, a, n + j)
      BY HolderIsLast
    <1>5. Follows(F, n, G, j - 1)
      <2>1. \A k \in 1 .. j - 1 : k \in 1..q /\ k + n = n + k
        BY <1>1
      <2>. QED BY <2>1 DEF Follows
    <1> HIDE DEF F, G, M, N
    <1>6. Last(F, M, a, n + j) = Last(G, Last(F, M, a, n + 1), a, j)
      BY <1>1, <1>5, LastConcat
    <1>7. n + j = j + n
      BY <1>1
    <1>. QED BY <1>2, <1>3, <1>4, <1>6, <1>7

\* Before the k-th instruction of a renamed packet, or after all of them, a
\* register is held by its last writer in the packet or as the table says.
LEMMA RenameNext ==
    ASSUME Inv, NEW packet, NEW dispatch, NEW n, NEW event, NEW written, NEW masked,
           Edge(packet, dispatch, n, event, written, masked),
           DOMAIN packet # {}, NEW q \in Nat, q + n = Len(InFlight),
           NEW c \in Nat,
           Follows(InFlight, n, InFlight', q),
           Follows(InFlight', q, Renamed(DOMAIN packet, packet), c),
           NEW a \in Arch, NEW k \in 1 .. c + 1, NEW j, j = q + k
    PROVE  Holder(a, j)' = Last(Renamed(DOMAIN packet, packet), {rt[a]}, a, k)
    <1> DEFINE R == Renamed(DOMAIN packet, packet)
               G == InFlight'
               N == Mapped(a)'
    <1>1. n \in Nat /\ flush = "IDLE" /\ ~stall
      BY EdgeInputs
    <1>2. \A l \in 1..q : InFlight'[l] = InFlight[l + n]
      <2>1. \A l \in 1..q : n + l = l + n
        BY <1>1
      <2>. QED BY <2>1 DEF Follows
    <1>3. Holder(a, q + 1)' = Holder(a, (q + 1) + n)
      <2>1. q + 1 \in 1 .. q + 1
        OBVIOUS
      <2>. QED BY <1>2, <2>1, HolderMoves
    <1>4. (q + 1) + n = Len(InFlight) + 1 /\ Len(InFlight) + 1 \in Nat
      <2>1. (q + 1) + n = (q + n) + 1 /\ (q + n) + 1 \in Nat
        BY <1>1
      <2>. QED BY <2>1
    <1>5. Holder(a, Len(InFlight) + 1) = {rt[a]}
      BY <1>1, <1>4 DEF Inv, RtLast, Flushing
    <1>6. /\ Holder(a, j)' = Last(G, N, a, j)
          /\ Holder(a, q + 1)' = Last(G, N, a, q + 1)
      BY DEF Holder, Last
    <1>7. k \in Nat \ {0} /\ Follows(G, q, R, k - 1)
      BY DEF Follows
    <1> HIDE DEF R, G, N
    <1>8. \A M : Last(G, M, a, q + k) = Last(R, Last(G, M, a, q + 1), a, k)
      BY <1>7, LastConcat
    <1>. QED BY <1>3, <1>4, <1>5, <1>6, <1>8 DEF R

LEMMA ChainNext ==
    ASSUME Inv, NEW packet, NEW dispatch, NEW n, NEW event, NEW written, NEW masked,
           Edge(packet, dispatch, n, event, written, masked)
    PROVE  Chain' /\ RtLast'
    <1> DEFINE S == DOMAIN packet
               R == Renamed(S, packet)
    <1>1. /\ n \in Nat /\ (flush # "IDLE" => n = 0) /\ (is = <<>> => ~dispatch)
          /\ S # {} => flush = "IDLE" /\ ~stall
          /\ event \in {"none", "async", "expt", "mispred", "cancel"}
          /\ event = "mispred" => stall
      BY EdgeInputs
    <1>2. flush \in {"IDLE", "IS", "FE", "WF_EMPTY", "IS_BE", "FE_BE", "BE"}
      BY DEF Inv, Typed, TypeOK
    <1>3. PICK committed \in BOOLEAN : flush' = FlushNext(event, retiring(n), committed)
      BY DEF Edge, Clock, Flush
    <1>4. stall' = (~yy_xx_flush /\ (stall \/ event = "cancel"))
      BY DEF Edge, Clock, Flush
    <1>5. Flushing' <=> stall' \/ flush' # "IDLE"
      BY DEF Flushing
    <1>6. rt' = RenameTable(S, packet)
      BY DEF Edge, Clock, Rename
    <1>7. CASE flush' # "IDLE"
      BY <1>5, <1>7 DEF Chain, RtLast
    <1>8. CASE flush' = "IDLE" /\ flush # "IDLE"
      <2>1. yy_xx_flush /\ n = 0 /\ S = {}
        BY <1>1, <1>2, <1>3, <1>8 DEF FlushNext, yy_xx_flush
      <2>2. rob' = <<>> /\ is' = <<>>
        <3>1. is' = IF flush_fe \/ event = "cancel" THEN <<>>
                    ELSE IF S # {} THEN R ELSE IF dispatch THEN <<>> ELSE is
          BY DEF Edge, Clock, Stages
        <3>2. ~flush_fe => is = <<>>
          BY <2>1 DEF Inv, Phase, yy_xx_flush, flush_fe
        <3>. QED BY <1>1, <1>8, <2>1, <3>1, <3>2, RobNext
      <2>3. Len(InFlight') = 0
        <3>1. Len(rob') = 0 /\ Len(is') = 0
          BY <2>2
        <3>. QED BY <3>1 DEF InFlight
      <2>4. ASSUME NEW a \in Arch PROVE Holder(a, 0 + 1)' = {rt'[a]}
        <3>1. Holder(a, 0 + 1)' = Holder(a, (0 + 1) + n)
          <4>1. 0 + 1 \in 1 .. 0 + 1 /\ 0 \in Nat /\ \A k \in 1..0 : InFlight'[k] = InFlight[k + n]
            OBVIOUS
          <4>. QED BY <4>1, HolderMoves
        <3>2. Holder(a, (0 + 1) + n) = Mapped(a)
          <4>1. (0 + 1) + n = 1
            BY <2>1
          <4>. QED BY <4>1, HolderNext
        <3>3. Mapped(a) = {rt'[a]}
          <4>1. rt'[a] = CHOOSE p \in Pregs : life[p] = "RETIRE" /\ info[p].dst = a
            BY <1>6, <2>1 DEF RenameTable
          <4>2. Mapped(a) = {table[a]}
            BY DEF Inv, Mirror
          <4>3. table[a] \in Pregs /\ life[table[a]] = "RETIRE" /\ info[table[a]].dst = a
            BY <4>2 DEF Mapped
          <4>4. rt'[a] \in Mapped(a)
            BY <4>1, <4>3 DEF Mapped
          <4>. QED BY <4>2, <4>4
        <3>. QED BY <3>1, <3>2, <3>3
      <2>5. \A a \in Arch, k \in Nat : k = Len(InFlight') + 1 => Holder(a, k)' = {rt'[a]}
        BY <2>3, <2>4
      <2>. QED BY <2>3, <2>5 DEF Chain, RtLast
    <1>9. CASE flush' = "IDLE" /\ flush = "IDLE"
      <2>1. event \in {"none", "cancel"} /\ ~yy_xx_flush
        BY <1>1, <1>3, <1>9 DEF FlushNext, yy_xx_flush
      <2>2. PICK q \in Nat :
              /\ \A j \in 1..q : InFlight'[j] = InFlight[j + n]
              /\ q + n <= Len(InFlight)
              /\ event = "none" => q + n = Len(InFlight)
              /\ \/ Len(InFlight') = q /\ (event = "none" => S = {})
                 \/ /\ S # {} /\ event = "none" /\ Len(InFlight') = q + Len(R)
                    /\ \A k \in 1..Len(R) : InFlight'[q + k] = R[k]
        BY <1>9, <2>1, FlightNext
      <2>3. \A j \in 1..q :
              /\ InFlight'[j].dst = Temp => InFlight'[j].rel = InFlight'[j].preg
              /\ \A a \in Arch : InFlight'[j].dst = a => Holder(a, j)' = {InFlight'[j].rel}
        <3> SUFFICES ASSUME NEW j \in 1..q
                     PROVE  /\ InFlight'[j].dst = Temp => InFlight'[j].rel = InFlight'[j].preg
                            /\ \A a \in Arch : InFlight'[j].dst = a
                                  => Holder(a, j)' = {InFlight'[j].rel}
          OBVIOUS
        <3>1. Len(InFlight) \in Nat /\ j + n \in 1..Len(InFlight)
          <4>1. Len(InFlight) \in Nat
            <5>1. Len(rob) + Len(is) \in Nat
              BY DEF Inv, Typed, TypeOK
            <5>. QED BY <5>1 DEF InFlight
          <4>. QED BY <1>1, <2>2, <4>1
        <3>2. InFlight'[j] = InFlight[j + n]
          BY <2>2
        <3>3. /\ InFlight[j + n].dst = Temp => InFlight[j + n].rel = InFlight[j + n].preg
              /\ \A a \in Arch : InFlight[j + n].dst = a
                    => Holder(a, j + n) = {InFlight[j + n].rel}
          BY <1>9, <3>1 DEF Inv, Chain
        <3>5. j \in 1 .. q + 1
          OBVIOUS
        <3>6. \A a \in Arch : Holder(a, j)' = Holder(a, j + n)
          BY <2>2, <3>5, HolderMoves
        <3>. QED BY <3>2, <3>3, <3>6
      <2>4. CASE Len(InFlight') = q /\ (event = "none" => S = {})
        <3>1. Chain'
          BY <2>3, <2>4 DEF Chain
        <3>2. ASSUME ~Flushing', NEW a \in Arch
              PROVE  Holder(a, q + 1)' = {rt'[a]}
          <4>1. event = "none" /\ ~stall /\ S = {}
            BY <1>4, <1>5, <2>1, <2>4, <3>2
          <4>2. q + 1 \in 1 .. q + 1
            OBVIOUS
          <4>3. Holder(a, q + 1)' = Holder(a, (q + 1) + n)
            BY <2>2, <4>2, HolderMoves
          <4>4. (q + 1) + n = Len(InFlight) + 1
            BY <1>1, <2>2, <4>1
          <4>5. ~Flushing
            BY <1>9, <4>1 DEF Flushing
          <4>6. Holder(a, Len(InFlight) + 1) = {rt[a]}
            BY <4>5 DEF Inv, RtLast
          <4>7. rt'[a] = rt[a]
            BY <1>6, <2>1, <4>1 DEF RenameTable
          <4>. QED BY <4>3, <4>4, <4>6, <4>7
        <3>3. ~Flushing' => \A a \in Arch, k \in Nat : k = Len(InFlight') + 1
                               => Holder(a, k)' = {rt'[a]}
          BY <2>4, <3>2
        <3>. QED BY <3>1, <3>3 DEF RtLast
      <2>5. CASE /\ S # {} /\ event = "none" /\ Len(InFlight') = q + Len(R)
                 /\ \A k \in 1..Len(R) : InFlight'[q + k] = R[k]
        <3>0. PICK c \in Nat : c = Len(R)
          BY <2>5, IsNext
        <3>1. /\ \A k \in 1..c :
                    /\ R[k].dst = Temp => R[k].rel = R[k].preg
                    /\ \A a \in Arch : \A j : R[k].dst = a /\ j = q + k
                          => Holder(a, j)' = {R[k].rel}
              /\ \A a \in Arch : \A j : j = q + c + 1 => Holder(a, j)' = {rt'[a]}
          <4>1. /\ DOMAIN packet # {} /\ q + n = Len(InFlight)
                /\ Follows(InFlight, n, InFlight', q)
                /\ Follows(InFlight', q, R, c)
            <5>1. \A j \in 1..q : n + j = j + n
              BY <1>1
            <5>. QED BY <2>2, <2>5, <3>0, <5>1 DEF Follows
          <4>2. ASSUME NEW a \in Arch, NEW k \in 1 .. c + 1, NEW j, j = q + k
                PROVE  Holder(a, j)' = Last(R, {rt[a]}, a, k)
            BY <4>1, <4>2, RenameNext
          <4>3. /\ \A k \in 1..c : IF R[k].dst = Temp THEN R[k].rel = R[k].preg
                                   ELSE Last(R, {rt[R[k].dst]}, R[k].dst, k) = {R[k].rel}
                /\ \A a \in Arch : Last(R, {rt[a]}, a, c + 1) = {rt'[a]}
            <5>1. /\ S \in SUBSET Slots /\ packet \in [S -> 1..Temp]
                  /\ \A i \in S : alloc[i] # None
                  /\ alloc \in [Slots -> Pregs \cup {None}] /\ rt \in [Arch -> Pregs]
              BY <2>5, EdgeInputs DEF Inv, Typed, TypeOK
            <5>2. /\ \A k \in 1..Len(R) : IF R[k].dst = Temp THEN R[k].rel = R[k].preg
                                     ELSE Last(R, {rt[R[k].dst]}, R[k].dst, k) = {R[k].rel}
                  /\ ~yy_xx_flush => \A a \in Arch : Last(R, {rt[a]}, a, Len(R) + 1)
                                                       = {RenameTable(S, packet)[a]}
              BY <5>1, RenamedIs
            <5>. QED BY <1>6, <2>1, <3>0, <5>2
          <4> HIDE DEF R, S
          <4>4. ASSUME NEW k \in 1..c, NEW a \in Arch, R[k].dst = a, NEW j, j = q + k
                PROVE  Holder(a, j)' = {R[k].rel}
            <5>1. a # Temp
              BY PregsAssumption DEF Arch, Temp
            <5>2. Last(R, {rt[a]}, a, k) = {R[k].rel}
              BY <4>3, <4>4, <5>1
            <5>3. k \in 1 .. c + 1
              OBVIOUS
            <5>. QED BY <4>2, <4>4, <5>2, <5>3
          <4>5. ASSUME NEW a \in Arch, NEW j, j = q + c + 1
                PROVE  Holder(a, j)' = {rt'[a]}
            <5>1. c + 1 \in 1 .. c + 1 /\ j = q + (c + 1)
              BY <4>5
            <5>. QED BY <4>2, <4>3, <5>1
          <4>6. \A k \in 1..c : R[k].dst = Temp => R[k].rel = R[k].preg
            BY <4>3
          <4>. QED BY <4>4, <4>5, <4>6
        <3> HIDE DEF R, S
        <3>3. ASSUME NEW j \in 1..Len(InFlight')
              PROVE  /\ InFlight'[j].dst = Temp => InFlight'[j].rel = InFlight'[j].preg
                     /\ \A a \in Arch : InFlight'[j].dst = a
                           => Holder(a, j)' = {InFlight'[j].rel}
          <4>1. CASE j <= q
            <5>1. j \in 1..q
              BY <4>1
            <5>. QED BY <2>3, <5>1
          <4>2. CASE j > q
            <5>1. j - q \in 1..c /\ j = q + (j - q)
              BY <2>5, <3>0, <4>2
            <5>2. PICK k \in 1..c : j = q + k
              BY <5>1
            <5>3. InFlight'[j] = R[k]
              BY <2>5, <3>0, <5>2
            <5>4. /\ R[k].dst = Temp => R[k].rel = R[k].preg
                  /\ \A a \in Arch : R[k].dst = a => Holder(a, j)' = {R[k].rel}
              BY <3>1, <5>2
            <5>. QED BY <5>3, <5>4
          <4>. QED BY <3>0, <2>5, <4>1, <4>2
        <3>4. \A a \in Arch, k \in Nat : k = Len(InFlight') + 1 => Holder(a, k)' = {rt'[a]}
          BY <2>5, <3>0, <3>1
        <3>. QED BY <3>3, <3>4 DEF Chain, RtLast
      <2>. QED BY <2>2, <2>4, <2>5
    <1>. QED BY <1>7, <1>8, <1>9

LEMMA TypedNext ==
    ASSUME Inv, NEW packet, NEW dispatch, NEW n, NEW event, NEW written, NEW masked,
           Edge(packet, dispatch, n, event, written, masked)
    PROVE  Typed'
    <1> DEFINE S == DOMAIN packet
    <1>1. /\ life \in [Pregs -> LifeStates] /\ wb \in [Pregs -> BOOLEAN]
          /\ info \in [Pregs -> [dst : 0..Temp, rel : 0..NP]]
          /\ alloc \in [Slots -> Pregs \cup {None}]
          /\ rt \in [Arch -> Pregs] /\ is \in Seq(Results)
          /\ async \in BOOLEAN /\ stall \in BOOLEAN
      BY DEF Inv, Typed, TypeOK
    <1>2. /\ S \in SUBSET Slots
          /\ S # {} => \A i \in S : alloc[i] # None
          /\ NP \in Nat /\ NA \in Nat
      BY EdgeInputs, PregsAssumption
    <1>3. life' \in [Pregs -> LifeStates]
      <2>1. life' = [p \in Pregs |-> life'[p]]
        BY DEF Edge, Clock, Entries
      <2>2. \A p \in Pregs : life'[p] \in LifeStates
        BY LifeNextIs
      <2>. QED BY <2>1, <2>2
    <1>4. wb' \in [Pregs -> BOOLEAN]
      <2>1. wb' = [p \in Pregs |-> WbNext(p, creating(dispatch), written)]
        BY DEF Edge, Clock, Entries
      <2>2. \A p \in Pregs : WbNext(p, creating(dispatch), written) \in BOOLEAN
        <3> SUFFICES ASSUME NEW p \in Pregs
                     PROVE  WbNext(p, creating(dispatch), written) \in BOOLEAN
          OBVIOUS
        <3>1. CASE async
          BY <3>1 DEF WbNext
        <3>2. CASE ~async /\ p \notin creating(dispatch) /\ wb[p]
          BY <3>2 DEF WbNext
        <3>3. CASE ~async /\ p \notin creating(dispatch) /\ ~wb[p]
          BY <3>3 DEF WbNext
        <3>4. CASE ~async /\ p \in creating(dispatch)
          BY <3>4 DEF WbNext
        <3>. QED BY <3>1, <3>2, <3>3, <3>4
      <2>. QED BY <2>1, <2>2
    <1>5. info' \in [Pregs -> [dst : 0..Temp, rel : 0..NP]]
      <2> DEFINE T == [dst : 0..Temp, rel : 0..NP]
                 made(p) == LET j == CHOOSE j \in 1..Len(is) : is[j].preg = p
                            IN [dst |-> is[j].dst, rel |-> is[j].rel]
      <2>1. info' = [p \in Pregs |->
                       IF p \in creating(dispatch) THEN made(p)
                       ELSE CASE life'[p] = "ALLOC"  -> info[p]
                              [] life'[p] = "RETIRE" -> [info[p] EXCEPT !.rel = None]
                              [] OTHER               -> Unread]
        BY DEF Edge, Clock, Entries
      <2>2. ASSUME NEW p \in creating(dispatch) PROVE made(p) \in T
        <3>1. \E j \in 1..Len(is) : is[j].preg = p
          BY DEF creating
        <3>2. PICK j \in 1..Len(is) : made(p) = [dst |-> is[j].dst, rel |-> is[j].rel]
          BY <3>1
        <3>3. is[j] \in Results
          BY <1>1
        <3> HIDE DEF made
        <3>. QED BY <1>2, <3>2, <3>3 DEF Results, Pregs, Temp
      <2>3. Unread \in T
        BY <1>2 DEF Unread, None, Temp
      <2>4. ASSUME NEW p \in Pregs PROVE info[p] \in T /\ [info[p] EXCEPT !.rel = None] \in T
        <3>1. info[p] \in T /\ None \in 0..NP
          BY <1>1, <1>2 DEF None
        <3>. QED BY <3>1
      <2> HIDE DEF T, made
      <2>5. info' \in [Pregs -> T]
        BY <2>1, <2>2, <2>3, <2>4
      <2>. QED BY <2>5 DEF T
    <1>6. rt' \in [Arch -> Pregs]
      <2>1. rt' = [a \in Arch |->
                     IF yy_xx_flush
                     THEN CHOOSE p \in Pregs : life[p] = "RETIRE" /\ info[p].dst = a
                     ELSE LET writers == {i \in S : packet[i] = a}
                          IN IF writers = {} THEN rt[a] ELSE alloc[Greatest(writers)]]
        BY DEF Edge, Clock, Rename, RenameTable
      <2>2. ASSUME NEW a \in Arch
            PROVE  (CHOOSE p \in Pregs : life[p] = "RETIRE" /\ info[p].dst = a) \in Pregs
        <3>1. table[a] \in Mapped(a)
          BY DEF Inv, Mirror
        <3>2. \E p \in Pregs : life[p] = "RETIRE" /\ info[p].dst = a
          BY <3>1 DEF Mapped
        <3>. QED BY <3>2
      <2>3. ASSUME NEW a \in Arch, {i \in S : packet[i] = a} # {}
            PROVE  alloc[Greatest({i \in S : packet[i] = a})] \in Pregs
        <3> DEFINE W == {i \in S : packet[i] = a}
        <3>1. W \in SUBSET S /\ W \in SUBSET (0..3) /\ W # {}
          <4>1. S \in SUBSET (0..3)
            BY <1>2 DEF Slots
          <4>. QED BY <2>3, <4>1
        <3>2. Greatest(W) \in S
          <4> HIDE DEF W, S
          <4>. QED BY <3>1, GreatestIs, 3 \in Nat
        <3>3. alloc[Greatest(W)] # None /\ Greatest(W) \in Slots
          <4> HIDE DEF W
          <4>. QED BY <1>2, <3>2, EdgeInputs
        <3> HIDE DEF W
        <3>4. alloc[Greatest(W)] \in Pregs
          BY <1>1, <3>3
        <3>. QED BY <3>4 DEF W
      <2>. QED BY <1>1, <2>1, <2>2, <2>3
    <1>7. table' \in [Arch -> Pregs] /\ arch' \in [Arch -> Pregs]
      <2>1. table' = [a \in Arch |-> table'[a]] /\ arch' = [a \in Arch |-> arch'[a]]
        BY DEF Edge, Clock, Entries, SyncTable, Stages, Retired
      <2>2. \A a \in Arch : table'[a] \in Mapped(a)' /\ arch'[a] = table'[a]
        BY MirrorNext DEF Mirror
      <2>3. \A a \in Arch : \A x \in Mapped(a)' : x \in Pregs
        BY DEF Mapped
      <2>. QED BY <2>1, <2>2, <2>3
    <1>8. owed' \in [Pregs -> 0..1]
      <2>1. owed' = [p \in Pregs |-> owed'[p]]
        BY DEF Edge, Clock, Entries, WriteFile
      <2>. QED BY <2>1, OwedIs
    <1>9. flush' \in {"IDLE", "IS", "FE", "WF_EMPTY", "IS_BE", "FE_BE", "BE"}
      <2>1. PICK committed \in BOOLEAN : flush' = FlushNext(event, retiring(n), committed)
        BY DEF Edge, Clock, Flush
      <2>. QED BY <2>1 DEF FlushNext
    <1>10. async' \in BOOLEAN /\ stall' \in BOOLEAN
      BY DEF Edge, Clock, Flush
    <1>11. rob' \in Seq(Pregs) /\ is' \in Seq(Results) /\ alloc' \in [Slots -> Pregs \cup {None}]
      BY RobNext, IsNext, AllocNext
    <1>12. \A j \in 1..Len(rob') : info'[rob'[j]].dst \in 1..Temp /\ info'[rob'[j]].rel \in Pregs
      <2> SUFFICES ASSUME NEW j \in 1..Len(rob')
                   PROVE  info'[rob'[j]].dst \in 1..Temp /\ info'[rob'[j]].rel \in Pregs
        OBVIOUS
      <2>1. [preg |-> rob'[j], dst |-> info'[rob'[j]].dst, rel |-> info'[rob'[j]].rel] \in Results
        BY FlightKeeps
      <2>. QED BY <2>1 DEF Results
    <1>. QED BY <1>3, <1>4, <1>5, <1>6, <1>7, <1>8, <1>9, <1>10, <1>11, <1>12 DEF Typed, TypeOK

-----------------------------------------------------------------------------
(* The invariant and what follows from it.                                 *)

LEMMA InvInit == Init => Inv
    <1> SUFFICES ASSUME Init PROVE Inv
      OBVIOUS
    <1>1. /\ Arch \subseteq Pregs /\ \A p \in Pregs : p <= NA <=> p \in Arch
          /\ NA \in Nat /\ NP \in Nat
          /\ \A a \in Arch : a \in 1..Temp /\ a # Temp
      BY PregsAssumption DEF Arch, Pregs, Temp
    <1>2. /\ Len(is) = 0 /\ Len(rob) = 0 /\ is \in Seq(Results) /\ rob \in Seq(Pregs)
          /\ flush = "IDLE" /\ ~async /\ ~stall
      BY DEF Init
    <1>3. \A p \in Pregs : /\ life[p] = IF p \in Arch THEN "RETIRE" ELSE "DEALLOC"
                           /\ wb[p] \in BOOLEAN /\ owed[p] = 0
                           /\ info[p] = [dst |-> IF p \in Arch THEN p ELSE 0, rel |-> None]
                           /\ info[p].dst = IF p \in Arch THEN p ELSE 0
      BY <1>1 DEF Init, Unread
    <1>4. TypeOK
      <2>1. info \in [Pregs -> [dst : 0..Temp, rel : 0..NP]]
        <3>1. ASSUME NEW p \in Pregs PROVE info[p] \in [dst : 0..Temp, rel : 0..NP]
          <4>1. (IF p \in Arch THEN p ELSE 0) \in 0..Temp /\ None \in 0..NP
            BY <1>1 DEF None, Temp
          <4>2. info[p] = [dst |-> IF p \in Arch THEN p ELSE 0, rel |-> None]
            BY <1>3
          <4>. QED BY <4>1, <4>2
        <3>. QED BY <3>1 DEF Init
      <2>2. life \in [Pregs -> LifeStates] /\ wb \in [Pregs -> BOOLEAN]
        BY <1>3 DEF Init, LifeStates
      <2>3. alloc \in [Slots -> Pregs \cup {None}] /\ owed \in [Pregs -> 0..1]
        BY DEF Init
      <2>4. /\ rt \in [Arch -> Pregs] /\ table \in [Arch -> Pregs]
            /\ arch \in [Arch -> Pregs] /\ async \in BOOLEAN /\ stall \in BOOLEAN
        BY <1>1 DEF Init
      <2>. QED BY <1>2, <2>1, <2>2, <2>3, <2>4 DEF TypeOK
    <1>5. Typed /\ Phase /\ Wrote /\ FlushAfterWriteBack /\ WaitsForResult
      <2>1. Typed
        BY <1>2, <1>4 DEF Typed
      <2>2. Phase /\ FlushAfterWriteBack
        BY <1>2 DEF Phase, FlushAfterWriteBack, yy_xx_flush
      <2>3. Wrote
        BY <1>3 DEF Wrote
      <2>4. WaitsForResult
        <3>1. \A p \in Pregs : life[p] = "RETIRE" => wb[p]
          BY <1>1, <1>3 DEF Init
        <3>. QED BY <1>3, <3>1 DEF WaitsForResult
      <2>. QED BY <2>1, <2>2, <2>3, <2>4
    <1>6. OneOwner
      <2>1. InAlloc = {} /\ InIs = {} /\ InRob = {}
        BY <1>2 DEF InAlloc, InIs, InRob, Init, Pregs, None
      <2>. QED BY <1>2, <1>3, <2>1 DEF OneOwner, Init
    <1>7. ASSUME NEW a \in Arch PROVE Mapped(a) = {a}
      <2>1. ASSUME NEW p \in Pregs PROVE life[p] = "RETIRE" /\ info[p].dst = a <=> p = a
        <3>1. CASE p \in Arch
          BY <1>1, <1>3, <3>1
        <3>2. CASE p \notin Arch
          BY <1>1, <1>3, <3>2
        <3>. QED BY <3>1, <3>2
      <2>. QED BY <1>1, <2>1 DEF Mapped
    <1>8. Mirror
      BY <1>7 DEF Mirror, Init
    <1>9. Len(InFlight) = 0
      BY <1>2 DEF InFlight
    <1>10. Chain
      BY <1>9 DEF Chain
    <1>11. RtLast
      BY <1>7, <1>9, HolderNext DEF RtLast, Init
    <1>. QED BY <1>5, <1>6, <1>8, <1>10, <1>11 DEF Inv

LEMMA InvStutter == Inv /\ UNCHANGED vars => Inv'
    <1> SUFFICES ASSUME Inv, UNCHANGED vars PROVE Inv'
      OBVIOUS
    <1> USE DEF vars
    <1>1. Typed' /\ Phase' /\ Wrote' /\ FlushAfterWriteBack' /\ WaitsForResult'
      BY DEF Inv, Typed, TypeOK, Phase, Wrote, FlushAfterWriteBack, WaitsForResult, yy_xx_flush
    <1>2. OneOwner'
      BY DEF Inv, OneOwner, InAlloc, InIs, InRob, Flushing
    <1>3. Mirror'
      BY DEF Inv, Mirror, Mapped
    <1>4. InFlight' = InFlight /\ \A a, j : Holder(a, j)' = Holder(a, j)
      BY DEF InFlight, Holder, Mapped
    <1>5. Chain' /\ RtLast'
      BY <1>4 DEF Inv, Chain, RtLast, Flushing
    <1>. QED BY <1>1, <1>2, <1>3, <1>5 DEF Inv

LEMMA InvNext == Inv /\ Next => Inv'
    <1> SUFFICES ASSUME Inv, Next PROVE Inv'
      OBVIOUS
    <1>1. PICK packet, dispatch, n, event, written, masked :
             Edge(packet, dispatch, n, event, written, masked)
      BY NextIsEdge
    <1>2. Typed' /\ Phase' /\ OneOwner' /\ Mirror' /\ Chain' /\ RtLast' /\ FlushAfterWriteBack'
      BY <1>1, TypedNext, PhaseNext, OneOwnerNext, MirrorNext, ChainNext, FlushNextIs
    <1>3. Wrote' /\ WaitsForResult'
      BY <1>1, OwedIs DEF Wrote, WaitsForResult
    <1>. QED BY <1>2, <1>3 DEF Inv

\* The life cycles, the allocator, the rename table and the mirror together
\* keep Inv, whatever the rest of the core does.
THEOREM Invariance == Spec => []Inv
    <1>1. Inv /\ [Next]_vars => Inv'
      BY InvNext, InvStutter
    <1>. QED BY InvInit, <1>1, PTL DEF Spec

\* The registers of the entries, the allocator and the mirror keep their types.
THEOREM TypeCorrect == Spec => []TypeOK
    <1>1. Inv => TypeOK
      BY DEF Inv, Typed
    <1>. QED BY Invariance, <1>1, PTL

\* Every architectural register is held by exactly one retired preg.
THEOREM OneMappingCorrect == Spec => []OneMapping
    <1>1. Inv => OneMapping
      <2>1. \A a \in Arch : Mapped(a) = {table[a]} => Cardinality(Mapped(a)) = 1
        BY FS_Singleton
      <2>. QED BY <2>1 DEF Inv, Mirror, OneMapping
    <1>. QED BY Invariance, <1>1, PTL

\* No preg is handed out twice and none is lost.
THEOREM OneOwnerCorrect == Spec => []OneOwner
    <1>1. Inv => OneOwner
      BY DEF Inv
    <1>. QED BY Invariance, <1>1, PTL

\* The debugger reads the result of the last retired writer, except while it
\* is on its way to the register file.
THEOREM MirrorExactCorrect == Spec => []MirrorExact
    <1>1. Inv => MirrorExact
      <2> SUFFICES ASSUME Inv, NEW a \in Arch
                   PROVE  table[a] = arch[a] /\ (owed[table[a]] = 0 \/ ~wb[table[a]])
        BY DEF MirrorExact, read_hart_reg
      <2>1. table[a] \in Pregs /\ table[a] = arch[a]
        BY DEF Inv, Typed, TypeOK, Mirror
      <2>. QED BY <2>1 DEF Inv, Wrote
    <1>. QED BY Invariance, <1>1, PTL

\* Every instruction releases what held its register before it, and after any
\* flush renaming goes on from the retired state.
THEOREM RenameFollowsRetiredCorrect == Spec => []RenameFollowsRetired
    <1>1. Inv => RenameFollowsRetired
      <2> SUFFICES ASSUME Inv, ~Flushing PROVE RenameFollowsRetired
        BY DEF RenameFollowsRetired
      <2>1. flush = "IDLE" /\ Len(InFlight) \in Nat
        <3>1. Len(rob) + Len(is) \in Nat
          BY DEF Inv, Typed, TypeOK
        <3>. QED BY <3>1 DEF Flushing, InFlight
      <2>2. ASSUME NEW j \in 1..Len(InFlight), InFlight[j].dst # Temp
            PROVE  Holder(InFlight[j].dst, j) = {InFlight[j].rel}
        <3>1. InFlight[j].dst \in Arch
          <4>1. InFlight[j].dst \in 1..Temp
            BY FlightDst
          <4>. QED BY <2>2, <4>1, PregsAssumption DEF Arch, Temp
        <3>. QED BY <2>1, <3>1 DEF Inv, Chain
      <2>3. \A a \in Arch : Holder(a, Len(InFlight) + 1) = {rt[a]}
        BY <2>1 DEF Inv, RtLast
      <2>. QED BY <2>2, <2>3 DEF RenameFollowsRetired
    <1>. QED BY Invariance, <1>1, PTL

\* A synchronous flush of the back end does not overtake a result.
THEOREM FlushAfterWriteBackCorrect == Spec => []FlushAfterWriteBack
    <1>1. Inv => FlushAfterWriteBack
      BY DEF Inv
    <1>. QED BY Invariance, <1>1, PTL

\* A preg in use that has no result is owed one: no flush leaves it waiting for
\* a write that was killed.
THEOREM WaitsForResultCorrect == Spec => []WaitsForResult
    <1>1. Inv => WaitsForResult
      BY DEF Inv
    <1>. QED BY Invariance, <1>1, PTL
=============================================================================
