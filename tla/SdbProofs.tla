------------------------------ MODULE SdbProofs ------------------------------
(***************************************************************************)
(* Proofs about Sdb, for every number of watchpoints, every set of         *)
(* expressions and every order of commands and cycles: the two lists stay a *)
(* partition of the pool, what is in use was evaluated with success, no     *)
(* change of an expression of several tokens is missed, an aborted program  *)
(* stays so, a continue stops for a cause.                                  *)
(***************************************************************************)
EXTENDS Sdb, Induction

Link == Wp \cup {Null}

\* The pool is the enumeration s of all watchpoints, cut in two lists: the used
\* ones are the first m.
Linked(p, s, m) ==
  /\ s \in [Wp -> Wp] /\ m \in 0 .. NR_WP
  /\ \A n \in Wp : \E i \in Wp : s[i] = n
  /\ \A i, j \in Wp : s[i] = s[j] => i = j
  /\ p.head = IF m = 0 THEN Null ELSE s[0]
  /\ p.free = IF m = NR_WP THEN Null ELSE s[m]
  /\ p.next \in [Wp -> Link]
  /\ \A i \in Wp : p.next[s[i]] = IF i = m - 1 \/ i = NR_WP - 1 THEN Null ELSE s[i + 1]

Typed ==
  /\ bad_expr \in BOOLEAN /\ old_val \in [Wp -> Words] /\ value \in [Valid -> Words]
  /\ expression \in [Wp -> Text]

\* What a watchpoint in use has.
Watches(n) ==
  /\ expression[n] \in Valid
  /\ expression[n] \in Compound => old_val[n] = value[expression[n]]

IInv ==
  /\ Typed
  /\ \E s \in [Wp -> Wp], m \in 0 .. NR_WP :
       Linked(pool, s, m) /\ \A i \in 0 .. m - 1 : Watches(s[i])

-----------------------------------------------------------------------------
(* The lists. *)

\* Each watchpoint met is the one the link of the one before it names.
LEMMA WalkStep ==
  ASSUME pool.next \in [Wp -> Link], NEW p \in Link
  PROVE  /\ Walk(p)[0] = p
         /\ \A k \in 1 .. NR_WP :
              Walk(p)[k] = IF Walk(p)[k - 1] = Null THEN Null ELSE pool.next[Walk(p)[k - 1]]
  <1> DEFINE Body(at) == [k \in 0 .. NR_WP |->
                IF k = 0 THEN p
                ELSE IF at[k - 1] = Null THEN Null ELSE pool.next[at[k - 1]]]
             step == [k \in 1 .. NR_WP |-> [x \in Link |->
                        IF x = Null THEN Null ELSE pool.next[x]]]
  <1>1. PICK f \in [0 .. NR_WP -> Link] : Iterates(f, NR_WP, p, step)
    <2>1. Steps(NR_WP, Link, step)
      BY DEF Link, Steps
    <2>2. NR_WP \in Nat
      BY SdbAssumption
    <2> HIDE DEF step
    <2>. QED BY <2>1, <2>2, Iterate
  <1>2. f = Body(f)
    <2>1. ASSUME NEW k \in 0 .. NR_WP PROVE f[k] = Body(f)[k]
      <3>1. CASE k = 0
        BY <1>1, <3>1 DEF Iterates
      <3>2. CASE k # 0
        <4>1. k \in 1 .. NR_WP /\ k - 1 \in 0 .. NR_WP
          BY <3>2, SdbAssumption
        <4>2. f[k - 1] \in Link
          BY <4>1
        <4>3. f[k] = step[k][f[k - 1]]
          BY <1>1, <4>1 DEF Iterates
        <4>. QED BY <3>2, <4>1, <4>2, <4>3
      <3>. QED BY <3>1, <3>2
    <2>. QED BY <2>1
  <1>3. Walk(p) = CHOOSE at : at = Body(at)
    BY DEF Walk
  <1>4. Walk(p) = Body(Walk(p))
    <2> HIDE DEF Body
    <2>. QED BY <1>2, <1>3
  <1>5. Walk(p)[0] = p
    <2>1. 0 \in 0 .. NR_WP
      BY SdbAssumption
    <2>. QED BY <1>4, <2>1
  <1>6. ASSUME NEW k \in 1 .. NR_WP
        PROVE  Walk(p)[k] = IF Walk(p)[k - 1] = Null THEN Null ELSE pool.next[Walk(p)[k - 1]]
    <2>1. k \in 0 .. NR_WP /\ k # 0
      BY SdbAssumption
    <2>2. Body(Walk(p))[k] = IF Walk(p)[k - 1] = Null THEN Null ELSE pool.next[Walk(p)[k - 1]]
      BY <2>1
    <2> HIDE DEF Body
    <2>. QED BY <1>4, <2>2
  <1>. QED BY <1>5, <1>6

\* The places of the pool.
LEMMA WpIs ==
  /\ NR_WP \in Nat /\ NR_WP > 0 /\ Null \notin Wp
  /\ \A i : i \in Wp <=> i \in Int /\ 0 <= i /\ i < NR_WP
  BY SdbAssumption DEF Wp, Null

LEMMA WalkIs ==
  ASSUME NEW s, NEW m, Linked(pool, s, m)
  PROVE  \A k \in 0 .. NR_WP :
           /\ Walk(pool.head)[k] = IF k < m THEN s[k] ELSE Null
           /\ Walk(pool.free)[k] = IF k < NR_WP - m THEN s[m + k] ELSE Null
  <1>0. /\ NR_WP \in Nat /\ NR_WP > 0 /\ m \in 0 .. NR_WP /\ Null \notin Wp
        /\ s \in [Wp -> Wp] /\ \A i : i \in Wp <=> i \in Int /\ 0 <= i /\ i < NR_WP
    BY WpIs DEF Linked
  <1>1. pool.next \in [Wp -> Link] /\ pool.head \in Link /\ pool.free \in Link
    BY <1>0 DEF Linked, Link
  <1> DEFINE H(k) == Walk(pool.head)[k] = IF k < m THEN s[k] ELSE Null
             F(k) == Walk(pool.free)[k] = IF k < NR_WP - m THEN s[m + k] ELSE Null
             B == {k \in 0 .. NR_WP : H(k) /\ F(k)}
  <1>2. /\ Walk(pool.head)[0] = pool.head /\ Walk(pool.free)[0] = pool.free
        /\ \A k \in 1 .. NR_WP :
             /\ Walk(pool.head)[k] = IF Walk(pool.head)[k - 1] = Null THEN Null
                                     ELSE pool.next[Walk(pool.head)[k - 1]]
             /\ Walk(pool.free)[k] = IF Walk(pool.free)[k - 1] = Null THEN Null
                                     ELSE pool.next[Walk(pool.free)[k - 1]]
    BY <1>1, WalkStep
  <1>3. 0 \in B
    BY <1>0, <1>2 DEF Linked
  <1>4. ASSUME NEW k \in B, k < NR_WP PROVE k + 1 \in B
    <2>1. k \in 0 .. NR_WP /\ k + 1 \in 1 .. NR_WP /\ (k + 1) - 1 = k /\ H(k) /\ F(k)
      BY <1>0, <1>4
    <2>2. H(k + 1)
      <3>1. Walk(pool.head)[k + 1] = IF Walk(pool.head)[k] = Null THEN Null
                                     ELSE pool.next[Walk(pool.head)[k]]
        BY <1>2, <2>1
      <3>2. CASE k < m
        <4>1. k \in Wp /\ Walk(pool.head)[k] = s[k] /\ s[k] # Null
          BY <1>0, <2>1, <3>2
        <4>2. pool.next[s[k]] = IF k = m - 1 \/ k = NR_WP - 1 THEN Null ELSE s[k + 1]
          BY <4>1 DEF Linked
        <4>. QED BY <1>0, <2>1, <3>1, <3>2, <4>1, <4>2
      <3>3. CASE ~(k < m)
        BY <1>0, <2>1, <3>1, <3>3
      <3>. QED BY <3>2, <3>3
    <2>3. F(k + 1)
      <3>1. Walk(pool.free)[k + 1] = IF Walk(pool.free)[k] = Null THEN Null
                                     ELSE pool.next[Walk(pool.free)[k]]
        BY <1>2, <2>1
      <3>2. CASE k < NR_WP - m
        <4>1. m + k \in Wp /\ Walk(pool.free)[k] = s[m + k] /\ s[m + k] # Null
          BY <1>0, <2>1, <3>2
        <4>2. pool.next[s[m + k]] =
                IF m + k = m - 1 \/ m + k = NR_WP - 1 THEN Null ELSE s[(m + k) + 1]
          BY <4>1 DEF Linked
        <4>3. (m + k) + 1 = m + (k + 1) /\ m + k # m - 1
              /\ (m + k = NR_WP - 1 <=> ~(k + 1 < NR_WP - m))
          BY <1>0, <2>1, <3>2
        <4>. QED BY <3>1, <4>1, <4>2, <4>3
      <3>3. CASE ~(k < NR_WP - m)
        BY <1>0, <2>1, <3>1, <3>3
      <3>. QED BY <3>2, <3>3
    <2>. QED BY <2>1, <2>2, <2>3
  <1>5. B = 0 .. NR_WP
    <2>1. B \in SUBSET (0 .. NR_WP)
      OBVIOUS
    <2> HIDE DEF B
    <2>. QED BY <1>0, <1>3, <1>4, <2>1, Induct
  <1>. QED BY <1>5

LEMMA UsedIs ==
  ASSUME NEW s, NEW m, Linked(pool, s, m)
  PROVE  Used = {s[i] : i \in 0 .. m - 1}
  <1>0. /\ NR_WP \in Nat /\ m \in 0 .. NR_WP /\ Null \notin Wp /\ s \in [Wp -> Wp]
        /\ \A i : i \in Wp <=> i \in Int /\ 0 <= i /\ i < NR_WP
    BY WpIs DEF Linked
  <1>1. \A k \in 0 .. NR_WP : Walk(pool.head)[k] = IF k < m THEN s[k] ELSE Null
    BY WalkIs
  <1>2. ASSUME NEW i \in 0 .. m - 1 PROVE s[i] \in Used
    <2>1. i \in Wp /\ i \in 0 .. NR_WP /\ i < m
      BY <1>0
    <2>2. s[i] # Null /\ Walk(pool.head)[i] = s[i]
      BY <1>0, <1>1, <2>1
    <2>. QED BY <2>1, <2>2 DEF Used
  <1>3. ASSUME NEW n \in Used PROVE n \in {s[i] : i \in 0 .. m - 1}
    <2>1. PICK k \in 0 .. NR_WP : n = Walk(pool.head)[k] /\ n # Null
      BY DEF Used
    <2>2. k < m /\ n = s[k]
      BY <1>1, <2>1
    <2>. QED BY <1>0, <2>2
  <1>. QED BY <1>2, <1>3

LEMMA ListsPartition ==
  ASSUME NEW s, NEW m, Linked(pool, s, m)
  PROVE  PoolPartition
  <1>0. /\ NR_WP \in Nat /\ m \in 0 .. NR_WP /\ Null \notin Wp /\ s \in [Wp -> Wp]
        /\ \A i : i \in Wp <=> i \in Int /\ 0 <= i /\ i < NR_WP
        /\ \A i, j \in Wp : s[i] = s[j] => i = j
    BY WpIs DEF Linked
  <1> DEFINE at(q) == Walk(pool[q[1]])[q[2]]
  <1>1. \A k \in 0 .. NR_WP :
          /\ at(<<"head", k>>) = IF k < m THEN s[k] ELSE Null
          /\ at(<<"free", k>>) = IF k < NR_WP - m THEN s[m + k] ELSE Null
    BY WalkIs
  <1> SUFFICES ASSUME NEW n \in Wp
               PROVE  \E place \in Places : \A q \in Places : at(q) = n <=> q = place
    BY DEF PoolPartition
  <1>2. PICK i \in Wp : s[i] = n
    BY DEF Linked
  <1> DEFINE place == IF i < m THEN <<"head", i>> ELSE <<"free", i - m>>
  <1>3. place \in Places
    BY <1>0 DEF Places
  <1>4. ASSUME NEW k \in 0 .. NR_WP
        PROVE  /\ at(<<"head", k>>) = n <=> i < m /\ k = i
               /\ at(<<"free", k>>) = n <=> ~(i < m) /\ k = i - m
    <2>1. k < m => k \in Wp /\ (s[k] = n <=> k = i)
      BY <1>0, <1>2
    <2>2. k < NR_WP - m => m + k \in Wp /\ (s[m + k] = n <=> m + k = i)
      BY <1>0, <1>2
    <2>3. n # Null
      BY <1>0
    <2>4. at(<<"head", k>>) = n <=> k < m /\ k = i
      BY <1>1, <2>1, <2>3
    <2>5. at(<<"free", k>>) = n <=> k < NR_WP - m /\ m + k = i
      BY <1>1, <2>2, <2>3
    <2>. QED BY <1>0, <2>4, <2>5
  <1>5. ASSUME NEW q \in Places PROVE at(q) = n <=> q = place
    <2>1. PICK k \in 0 .. NR_WP : q = <<"head", k>> \/ q = <<"free", k>>
      BY DEF Places
    <2>2. CASE q = <<"head", k>>
      <3>1. q = place <=> i < m /\ k = i
        BY <2>2
      <3> HIDE DEF at, place
      <3>. QED BY <1>4, <2>2, <3>1
    <2>3. CASE q = <<"free", k>>
      <3>1. q = place <=> ~(i < m) /\ k = i - m
        BY <2>3
      <3> HIDE DEF at, place
      <3>. QED BY <1>4, <2>3, <3>1
    <2>. QED BY <2>1, <2>2, <2>3
  <1> HIDE DEF at, place
  <1>. QED BY <1>3, <1>5

-----------------------------------------------------------------------------
(* The traversal. *)

Acc == [bad : BOOLEAN, trigger : BOOLEAN, old : [Wp -> Words]]

LEMMA VisitDoes ==
  ASSUME Typed, NEW v \in [Valid -> Words], NEW acc \in Acc, NEW n \in Wp,
         expression[n] \in Valid
  PROVE  /\ Visit(v, acc, n) \in Acc
         /\ \A i \in Wp \ {n} : Visit(v, acc, n).old[i] = acc.old[i]
         /\ expression[n] \in Compound => Visit(v, acc, n).old[n] = v[expression[n]]
         /\ Visit(v, acc, n).trigger =>
              acc.trigger \/ Visit(v, acc, n).old[n] # acc.old[n]
  <1> DEFINE x   == expression[n]
             hit == Success(x, acc.bad) /\ v[x] # acc.old[n]
             old == IF hit THEN [acc.old EXCEPT ![n] = v[x]] ELSE acc.old
             V   == [bad |-> BadAfter(x, acc.bad), trigger |-> acc.trigger \/ hit, old |-> old]
  <1>1. Visit(v, acc, n) = V
    BY DEF Visit
  <1>2. acc.old \in [Wp -> Words] /\ acc.trigger \in BOOLEAN /\ v[x] \in Words
    BY DEF Acc
  <1>3. BadAfter(x, acc.bad) \in BOOLEAN /\ hit \in BOOLEAN
    BY DEF BadAfter
  <1>4. old \in [Wp -> Words] /\ \A i \in Wp \ {n} : old[i] = acc.old[i]
    BY <1>2
  <1>5. x \in Compound => old[n] = v[x]
    BY <1>2 DEF Success
  <1>6. hit => old[n] # acc.old[n]
    BY <1>2
  <1>7. V.bad = BadAfter(x, acc.bad) /\ V.trigger = (acc.trigger \/ hit) /\ V.old = old
    OBVIOUS
  <1>8. V \in Acc
    <2>1. (acc.trigger \/ hit) \in BOOLEAN
      OBVIOUS
    <2> HIDE DEF hit, old
    <2>. QED BY <1>3, <1>4, <2>1 DEF Acc
  <1> HIDE DEF V, hit, old
  <1>. QED BY <1>1, <1>4, <1>5, <1>6, <1>7, <1>8

\* The watchpoints in use have a value.
Usable(s, m) == \A i \in 0 .. m - 1 : expression[s[i]] \in Valid
\* f[k] is the state of the traversal after k watchpoints.
Visits(f, v, s, m) ==
  /\ f[0] = [bad |-> bad_expr, trigger |-> FALSE, old |-> old_val]
  /\ \A k \in 1 .. NR_WP :
       f[k] = IF k - 1 < m THEN Visit(v, f[k - 1], s[k - 1]) ELSE f[k - 1]
  /\ Traverse(v) = f[NR_WP]

LEMMA TraverseStep ==
  ASSUME Typed, NEW v \in [Valid -> Words], NEW s, NEW m, Linked(pool, s, m), Usable(s, m)
  PROVE  \E f \in [0 .. NR_WP -> Acc] : Visits(f, v, s, m)
  <1>0. /\ m \in 0 .. NR_WP /\ s \in [Wp -> Wp]
        /\ \A i \in 0 .. m - 1 : expression[s[i]] \in Valid
    BY DEF Linked, Usable
  <1> DEFINE at == Walk(pool.head)
             first == [bad |-> bad_expr, trigger |-> FALSE, old |-> old_val]
             Body(g) == [k \in 0 .. NR_WP |->
                IF k = 0 THEN first
                ELSE IF at[k - 1] = Null THEN g[k - 1]
                ELSE Visit(v, g[k - 1], at[k - 1])]
             step == [k \in 1 .. NR_WP |-> [acc \in Acc |->
                IF at[k - 1] = Null THEN acc ELSE Visit(v, acc, at[k - 1])]]
  <1>1. \A k \in 1 .. NR_WP :
          /\ k - 1 < m => at[k - 1] = s[k - 1] /\ s[k - 1] \in Wp /\ s[k - 1] # Null
                          /\ expression[s[k - 1]] \in Valid
          /\ ~(k - 1 < m) => at[k - 1] = Null
    <2> SUFFICES ASSUME NEW k \in 1 .. NR_WP
                 PROVE  /\ k - 1 < m => at[k - 1] = s[k - 1] /\ s[k - 1] \in Wp
                                        /\ s[k - 1] # Null /\ expression[s[k - 1]] \in Valid
                        /\ ~(k - 1 < m) => at[k - 1] = Null
      OBVIOUS
    <2>1. k - 1 \in 0 .. NR_WP /\ k - 1 \in Wp
      BY WpIs
    <2>2. at[k - 1] = IF k - 1 < m THEN s[k - 1] ELSE Null
      BY <2>1, WalkIs
    <2>3. k - 1 < m => k - 1 \in 0 .. m - 1
      BY <1>0, WpIs
    <2> HIDE DEF at
    <2>. QED BY <1>0, <2>1, <2>2, <2>3, WpIs
  <1>2. first \in Acc
    BY DEF Acc, Typed
  <1>3. Steps(NR_WP, Acc, step)
    <2>1. ASSUME NEW k \in 1 .. NR_WP, NEW acc \in Acc PROVE step[k][acc] \in Acc
      <3>1. step[k][acc] = IF at[k - 1] = Null THEN acc ELSE Visit(v, acc, at[k - 1])
        OBVIOUS
      <3>2. at[k - 1] # Null => at[k - 1] \in Wp /\ expression[at[k - 1]] \in Valid
        <4> HIDE DEF at
        <4>. QED BY <1>1
      <3> HIDE DEF at, step
      <3>. QED BY <3>1, <3>2, VisitDoes
    <2>. QED BY <2>1 DEF Steps
  <1>4. PICK f \in [0 .. NR_WP -> Acc] : Iterates(f, NR_WP, first, step)
    <2> HIDE DEF first, step
    <2>. QED BY <1>2, <1>3, WpIs, Iterate
  <1>5. \A k \in 1 .. NR_WP :
          f[k] = IF at[k - 1] = Null THEN f[k - 1] ELSE Visit(v, f[k - 1], at[k - 1])
    <2> SUFFICES ASSUME NEW k \in 1 .. NR_WP
                 PROVE  f[k] = IF at[k - 1] = Null THEN f[k - 1]
                               ELSE Visit(v, f[k - 1], at[k - 1])
      OBVIOUS
    <2>1. f[k] = step[k][f[k - 1]]
      BY <1>4 DEF Iterates
    <2>2. f[k - 1] \in Acc
      BY WpIs
    <2> HIDE DEF at
    <2>. QED BY <2>1, <2>2
  <1>6. f = Body(f)
    <2>1. ASSUME NEW k \in 0 .. NR_WP PROVE f[k] = Body(f)[k]
      <3>1. CASE k = 0
        BY <1>4, <3>1 DEF Iterates
      <3>2. CASE k # 0
        <4>1. k \in 1 .. NR_WP
          BY <3>2, WpIs
        <4> HIDE DEF at
        <4>. QED BY <1>5, <3>2, <4>1
      <3>. QED BY <3>1, <3>2
    <2>. QED BY <2>1
  <1> DEFINE after == CHOOSE g : g = Body(g)
  <1>7. Traverse(v) = after[NR_WP]
    BY DEF Traverse
  <1>8. after = Body(after)
    <2> HIDE DEF Body
    <2>. QED BY <1>6
  <1>9. \A k \in 0 .. NR_WP : after[k] = f[k]
    <2> DEFINE B == {k \in 0 .. NR_WP : after[k] = f[k]}
    <2>1. Body(after)[0] = first
      BY WpIs
    <2>2. 0 \in B
      <3>1. after[0] = first
        BY <1>8, <2>1
      <3>2. f[0] = first
        BY <1>4 DEF Iterates
      <3>3. 0 \in 0 .. NR_WP
        BY WpIs
      <3> HIDE DEF after, first
      <3>. QED BY <3>1, <3>2, <3>3
    <2>3. ASSUME NEW k \in B, k < NR_WP PROVE k + 1 \in B
      <3>1. k + 1 \in 1 .. NR_WP /\ (k + 1) - 1 = k /\ k + 1 \in 0 .. NR_WP
        BY <2>3, WpIs
      <3>2. Body(after)[k + 1] = IF at[k] = Null THEN after[k] ELSE Visit(v, after[k], at[k])
        <4> HIDE DEF at, first, after
        <4>. QED BY <3>1
      <3>3. f[k + 1] = IF at[k] = Null THEN f[k] ELSE Visit(v, f[k], at[k])
        <4> HIDE DEF at
        <4>. QED BY <1>5, <3>1
      <3>4. after[k + 1] = Body(after)[k + 1]
        <4> HIDE DEF Body, after
        <4>. QED BY <1>8
      <3>5. after[k] = f[k]
        OBVIOUS
      <3>6. after[k + 1] = f[k + 1]
        <4> HIDE DEF Body, after, at
        <4>. QED BY <3>2, <3>3, <3>4, <3>5
      <3>. QED BY <3>1, <3>6
    <2>4. B \in SUBSET (0 .. NR_WP)
      OBVIOUS
    <2>5. B = 0 .. NR_WP
      <3> HIDE DEF B
      <3>. QED BY <2>2, <2>3, <2>4, WpIs, Induct
    <2>. QED BY <2>5
  <1>10. NR_WP \in 0 .. NR_WP
    BY WpIs
  <1>11. \A k \in 1 .. NR_WP :
           f[k] = IF k - 1 < m THEN Visit(v, f[k - 1], s[k - 1]) ELSE f[k - 1]
    <2> HIDE DEF at
    <2>. QED BY <1>1, <1>5
  <1>12. f[0] = first
    BY <1>4 DEF Iterates
  <1> HIDE DEF after
  <1>. QED BY <1>7, <1>9, <1>10, <1>11, <1>12 DEF Visits

\* The traversal saves the value of each watchpoint on an expression of several
\* tokens, and it triggers only for one whose value it changes.
LEMMA TraverseDoes ==
  ASSUME Typed, NEW v \in [Valid -> Words], NEW s, NEW m, Linked(pool, s, m), Usable(s, m)
  PROVE  /\ Traverse(v) \in Acc
         /\ \A i \in 0 .. m - 1 :
              expression[s[i]] \in Compound => Traverse(v).old[s[i]] = v[expression[s[i]]]
         /\ Traverse(v).trigger =>
              \E i \in 0 .. m - 1 : Traverse(v).old[s[i]] # old_val[s[i]]
  <1>0. /\ m \in 0 .. NR_WP /\ s \in [Wp -> Wp] /\ \A i, j \in Wp : s[i] = s[j] => i = j
        /\ \A i \in 0 .. m - 1 : expression[s[i]] \in Valid
    BY DEF Linked, Usable
  <1>a. PICK f \in [0 .. NR_WP -> Acc] : Visits(f, v, s, m)
    BY TraverseStep
  <1>1. /\ f[0] = [bad |-> bad_expr, trigger |-> FALSE, old |-> old_val]
        /\ \A k \in 1 .. NR_WP :
             f[k] = IF k - 1 < m THEN Visit(v, f[k - 1], s[k - 1]) ELSE f[k - 1]
        /\ Traverse(v) = f[NR_WP]
    BY <1>a DEF Visits
  <1> DEFINE Saved(k) == \A i \in 0 .. m - 1 : i < k /\ expression[s[i]] \in Compound =>
                                f[k].old[s[i]] = v[expression[s[i]]]
             Kept(k) == \A i \in Wp : i >= k => f[k].old[s[i]] = old_val[s[i]]
             Cause(k) == f[k].trigger =>
                \E i \in 0 .. m - 1 : i < k /\ f[k].old[s[i]] # old_val[s[i]]
             B == {k \in 0 .. NR_WP : Saved(k) /\ Kept(k) /\ Cause(k)}
  <1>2. 0 \in B
    BY <1>0, <1>1, WpIs
  <1>3. ASSUME NEW k \in B, k < NR_WP PROVE k + 1 \in B
    <2>1. /\ k \in 0 .. NR_WP /\ k + 1 \in 1 .. NR_WP /\ (k + 1) - 1 = k
          /\ k + 1 \in 0 .. NR_WP /\ k \in Wp
      BY <1>3, WpIs
    <2>2. f[k + 1] = IF k < m THEN Visit(v, f[k], s[k]) ELSE f[k]
      BY <1>1, <2>1
    <2>3. Saved(k) /\ Kept(k) /\ Cause(k)
      OBVIOUS
    <2>4. \A i \in 0 .. m - 1 : i \in Wp
      <3>1. m \in Int /\ m <= NR_WP
        BY <1>0, WpIs
      <3> HIDE DEF Saved, Kept, Cause, B
      <3>. QED BY <3>1, WpIs
    <2>5. CASE ~(k < m)
      <3>0. \A i \in 0 .. m - 1 : i < k + 1 => i < k
        BY <1>0, <2>1, <2>5
      <3>1. f[k + 1] = f[k] /\ \A i \in 0 .. m - 1 : i < k + 1 => i < k
        BY <2>2, <2>5, <3>0
      <3>2. Saved(k + 1)
        BY <2>3, <3>1
      <3>3. Kept(k + 1)
        BY <2>1, <2>3, <3>1, WpIs
      <3>4. Cause(k + 1)
        BY <2>1, <2>3, <3>1
      <3>. QED BY <2>1, <3>2, <3>3, <3>4
    <2>6. CASE k < m
      <3>1. /\ k \in 0 .. m - 1 /\ s[k] \in Wp /\ expression[s[k]] \in Valid
            /\ f[k] \in Acc /\ f[k + 1] = Visit(v, f[k], s[k])
        BY <1>0, <2>1, <2>2, <2>6
      <3>2. /\ \A i \in Wp \ {s[k]} : f[k + 1].old[i] = f[k].old[i]
            /\ expression[s[k]] \in Compound => f[k + 1].old[s[k]] = v[expression[s[k]]]
            /\ f[k + 1].trigger => f[k].trigger \/ f[k + 1].old[s[k]] # f[k].old[s[k]]
        BY <3>1, VisitDoes
      <3>3. \A i \in Wp : i # k => s[i] \in Wp /\ f[k + 1].old[s[i]] = f[k].old[s[i]]
        BY <1>0, <2>1, <3>2
      <3>4. f[k].old[s[k]] = old_val[s[k]]
        BY <2>1, <2>3
      <3>5. Saved(k + 1)
        <4> SUFFICES ASSUME NEW i \in 0 .. m - 1, i < k + 1, expression[s[i]] \in Compound
                     PROVE  f[k + 1].old[s[i]] = v[expression[s[i]]]
          OBVIOUS
        <4>1. i = k \/ i < k
          BY <2>1
        <4>. QED BY <2>1, <2>3, <2>4, <3>2, <3>3, <4>1
      <3>6. Kept(k + 1)
        <4> SUFFICES ASSUME NEW i \in Wp, i >= k + 1 PROVE f[k + 1].old[s[i]] = old_val[s[i]]
          OBVIOUS
        <4>1. i # k /\ i >= k
          BY <2>1, WpIs
        <4>. QED BY <2>3, <3>3, <4>1
      <3>7. Cause(k + 1)
        <4> SUFFICES ASSUME f[k + 1].trigger
                     PROVE  \E i \in 0 .. m - 1 : i < k + 1 /\ f[k + 1].old[s[i]] # old_val[s[i]]
          OBVIOUS
        <4>1. CASE f[k].trigger
          <5>1. PICK i \in 0 .. m - 1 : i < k /\ f[k].old[s[i]] # old_val[s[i]]
            BY <2>3, <4>1
          <5>2. i < k + 1 /\ i # k /\ i \in Wp
            BY <2>1, <2>4, <5>1
          <5>. QED BY <3>3, <5>1, <5>2
        <4>2. CASE f[k + 1].old[s[k]] # f[k].old[s[k]]
          <5>1. k < k + 1
            BY <2>1
          <5>. QED BY <3>1, <3>4, <4>2, <5>1
        <4>. QED BY <3>2, <4>1, <4>2
      <3>. QED BY <2>1, <3>5, <3>6, <3>7
    <2>. QED BY <2>5, <2>6
  <1>4. B = 0 .. NR_WP
    <2>1. B \in SUBSET (0 .. NR_WP)
      OBVIOUS
    <2> HIDE DEF B
    <2>. QED BY <1>2, <1>3, <2>1, WpIs, Induct
  <1>5. NR_WP \in B
    <2>1. NR_WP \in 0 .. NR_WP
      BY WpIs
    <2> HIDE DEF B
    <2>. QED BY <1>4, <2>1
  <1>6. \A i \in 0 .. m - 1 : i < NR_WP
    BY <1>0, WpIs
  <1>7. NR_WP \in 0 .. NR_WP
    BY WpIs
  <1>. QED BY <1>1, <1>5, <1>6, <1>7

-----------------------------------------------------------------------------
(* The pool is changed. *)

\* The enumerations t of the pool after new_wp and after free_wp of s[j].
Pushed(t, s, m) ==
  /\ Linked(NewWp, t, m + 1)
  /\ t[0] = s[m] /\ \A i \in 0 .. m - 1 : t[i + 1] = s[i]
Removed(t, p, s, m, j) ==
  /\ Linked(FreeWp(p, s[j]), t, m - 1)
  /\ \A i \in 0 .. (m - 1) - 1 : \E k \in 0 .. m - 1 : k # j /\ t[i] = s[k]

\* The first free watchpoint goes to the head of the used ones.
LEMMA NewLinked ==
  ASSUME NEW s, NEW m, Linked(pool, s, m), pool.free # Null
  PROVE  m < NR_WP /\ pool.free = s[m] /\ \E t \in [Wp -> Wp] : Pushed(t, s, m)
  <1>0. /\ m \in 0 .. NR_WP /\ s \in [Wp -> Wp] /\ pool.next \in [Wp -> Link]
        /\ \A n \in Wp : \E i \in Wp : s[i] = n
        /\ \A i, j \in Wp : s[i] = s[j] => i = j
        /\ \A i \in Wp : pool.next[s[i]] = IF i = m - 1 \/ i = NR_WP - 1 THEN Null ELSE s[i + 1]
        /\ pool.head = IF m = 0 THEN Null ELSE s[0]
    BY DEF Linked
  <1>1. m < NR_WP /\ pool.free = s[m] /\ m \in Wp
    <2>1. m # NR_WP
      BY DEF Linked
    <2>. QED BY <1>0, <2>1, WpIs DEF Linked
  <1> DEFINE t == [i \in Wp |-> IF i = 0 THEN s[m] ELSE IF i <= m THEN s[i - 1] ELSE s[i]]
             back(i) == IF i = 0 THEN m ELSE IF i <= m THEN i - 1 ELSE i
             to(i) == IF i = m THEN 0 ELSE IF i < m THEN i + 1 ELSE i
  <1>2. ASSUME NEW i \in Wp
        PROVE  /\ back(i) \in Wp /\ t[i] = s[back(i)] /\ to(i) \in Wp
               /\ back(to(i)) = i /\ to(back(i)) = i
    <2>1. i \in Int /\ 0 <= i /\ i < NR_WP /\ m \in Int /\ 0 <= m /\ m < NR_WP /\ NR_WP \in Int
      BY <1>0, <1>1, WpIs
    <2>2. /\ back(i) \in Int /\ 0 <= back(i) /\ back(i) < NR_WP
          /\ to(i) \in Int /\ 0 <= to(i) /\ to(i) < NR_WP
      BY <2>1
    <2>3. back(to(i)) = i /\ to(back(i)) = i
      BY <2>1
    <2>4. t[i] = s[back(i)]
      OBVIOUS
    <2> HIDE DEF t, back, to
    <2>. QED BY <2>2, <2>3, <2>4, WpIs
  <1>3. t \in [Wp -> Wp]
    <2> HIDE DEF back
    <2>1. \A i \in Wp : s[back(i)] \in Wp
      BY <1>0, <1>2
    <2>2. \A i \in Wp : t[i] \in Wp
      <3> HIDE DEF t
      <3>. QED BY <1>2, <2>1
    <2>. QED BY <2>2
  <1>4. t[0] = s[m] /\ \A i \in 0 .. m - 1 : t[i + 1] = s[i]
    <2>1. 0 \in Wp
      BY WpIs
    <2>2. ASSUME NEW i \in 0 .. m - 1 PROVE t[i + 1] = s[i]
      <3>1. i + 1 \in Wp /\ i + 1 # 0 /\ i + 1 <= m /\ (i + 1) - 1 = i
        BY <1>0, <1>1, WpIs
      <3>. QED BY <3>1
    <2>. QED BY <2>1, <2>2
  <1>5. Linked(NewWp, t, m + 1)
    <2>1. m + 1 \in 0 .. NR_WP
      BY <1>0, <1>1, WpIs
    <2>2. \A n \in Wp : \E i \in Wp : t[i] = n
      <3> SUFFICES ASSUME NEW n \in Wp PROVE \E i \in Wp : t[i] = n
        OBVIOUS
      <3>1. PICK i \in Wp : s[i] = n
        BY <1>0
      <3>2. to(i) \in Wp /\ t[to(i)] = s[back(to(i))] /\ back(to(i)) = i
        <4> HIDE DEF t, back, to
        <4>. QED BY <1>2
      <3> HIDE DEF t, back, to
      <3>. QED BY <3>1, <3>2
    <2>3. \A i, j \in Wp : t[i] = t[j] => i = j
      <3> SUFFICES ASSUME NEW i \in Wp, NEW j \in Wp, t[i] = t[j] PROVE i = j
        OBVIOUS
      <3> HIDE DEF t, back, to
      <3>1. s[back(i)] = s[back(j)] /\ back(i) \in Wp /\ back(j) \in Wp
        BY <1>2
      <3>2. back(i) = back(j)
        BY <1>0, <3>1
      <3>3. to(back(i)) = i /\ to(back(j)) = j
        BY <1>2
      <3>. QED BY <3>2, <3>3
    <2>4. NewWp.head = t[0] /\ m + 1 # 0
      BY <1>0, <1>1, <1>4 DEF NewWp
    <2>5. NewWp.free = IF m + 1 = NR_WP THEN Null ELSE t[m + 1]
      <3>1. NewWp.free = pool.next[s[m]]
        BY <1>1 DEF NewWp
      <3>2. pool.next[s[m]] = IF m = NR_WP - 1 THEN Null ELSE s[m + 1]
        BY <1>0, <1>1
      <3>3. m + 1 # NR_WP => t[m + 1] = s[m + 1]
        BY <1>0, <1>1, WpIs
      <3>4. m = NR_WP - 1 <=> m + 1 = NR_WP
        BY <1>0, WpIs
      <3> HIDE DEF t
      <3>. QED BY <3>1, <3>2, <3>3, <3>4
    <2>6. /\ NewWp.next \in [Wp -> Link]
          /\ \A n \in Wp : NewWp.next[n] = IF n = s[m] THEN pool.head ELSE pool.next[n]
      <3>1. pool.head \in Link /\ s[m] \in Wp
        BY <1>0, <1>1, WpIs DEF Link
      <3>2. NewWp.next = [pool.next EXCEPT ![s[m]] = pool.head]
        BY <1>1 DEF NewWp
      <3>. QED BY <1>0, <3>1, <3>2
    <2>7. ASSUME NEW i \in Wp
          PROVE  NewWp.next[t[i]] = IF i = (m + 1) - 1 \/ i = NR_WP - 1 THEN Null ELSE t[i + 1]
      <3>1. CASE i = 0
        <4>1. NewWp.next[t[i]] = pool.head
          BY <1>0, <1>1, <1>4, <2>6, <3>1
        <4>2. m # 0 => t[0 + 1] = s[0]
          <5>1. m # 0 => 0 \in 0 .. m - 1
            BY <1>0
          <5> HIDE DEF t
          <5>. QED BY <1>4, <5>1
        <4>. QED BY <1>0, <1>1, <3>1, <4>1, <4>2, WpIs
      <3>2. CASE i # 0
        <4>1. t[i] = s[back(i)] /\ back(i) \in Wp /\ back(i) # m
              /\ back(i) = IF i <= m THEN i - 1 ELSE i
          <5>1. back(i) # m
            BY <1>0, <3>2, WpIs
          <5> HIDE DEF t
          <5>. QED BY <1>2, <3>2, <5>1
        <4>2. NewWp.next[t[i]] = pool.next[s[back(i)]]
          <5>1. s[back(i)] # s[m] /\ s[back(i)] \in Wp
            <6> HIDE DEF back
            <6>. QED BY <1>0, <1>1, <4>1
          <5> HIDE DEF t, back
          <5>. QED BY <2>6, <4>1, <5>1
        <4>3. pool.next[s[back(i)]] =
                IF back(i) = m - 1 \/ back(i) = NR_WP - 1 THEN Null ELSE s[back(i) + 1]
          <5> HIDE DEF back
          <5>. QED BY <1>0, <4>1
        <4>4. back(i) = m - 1 \/ back(i) = NR_WP - 1 <=> i = (m + 1) - 1 \/ i = NR_WP - 1
          <5> HIDE DEF back
          <5>. QED BY <1>0, <1>1, <3>2, <4>1, WpIs
        <4>5. ~(i = (m + 1) - 1 \/ i = NR_WP - 1) => t[i + 1] = s[back(i) + 1]
          <5> SUFFICES ASSUME i # m, i # NR_WP - 1 PROVE t[i + 1] = s[back(i) + 1]
            BY <1>0
          <5>1. i + 1 \in Wp /\ i + 1 # 0
            BY WpIs
          <5>2. t[i + 1] = IF i + 1 <= m THEN s[(i + 1) - 1] ELSE s[i + 1]
            BY <5>1
          <5>3. back(i) + 1 = IF i + 1 <= m THEN (i + 1) - 1 ELSE i + 1
            <6> HIDE DEF back
            <6>. QED BY <1>0, <3>2, <4>1, WpIs
          <5> HIDE DEF t, back
          <5>. QED BY <5>2, <5>3
        <4> HIDE DEF t, back
        <4>. QED BY <4>2, <4>3, <4>4, <4>5
      <3>. QED BY <3>1, <3>2
    <2> HIDE DEF t
    <2>. QED BY <1>3, <2>1, <2>2, <2>3, <2>4, <2>5, <2>6, <2>7 DEF Linked
  <1> HIDE DEF t
  <1>. QED BY <1>1, <1>3, <1>4, <1>5 DEF Pushed

\* A used watchpoint goes to the head of the free ones.
LEMMA FreeLinked ==
  ASSUME NEW p, NEW s, NEW m, Linked(p, s, m), NEW j \in 0 .. m - 1
  PROVE  \E t \in [Wp -> Wp] : Removed(t, p, s, m, j)
  <1>0. /\ m \in 0 .. NR_WP /\ s \in [Wp -> Wp] /\ p.next \in [Wp -> Link]
        /\ \A n \in Wp : \E i \in Wp : s[i] = n
        /\ \A i, k \in Wp : s[i] = s[k] => i = k
        /\ \A i \in Wp : p.next[s[i]] = IF i = m - 1 \/ i = NR_WP - 1 THEN Null ELSE s[i + 1]
        /\ p.head = s[0] /\ p.free = IF m = NR_WP THEN Null ELSE s[m]
    BY DEF Linked
  <1>1. j \in Wp /\ m >= 1 /\ 0 \in Wp /\ m - 1 \in Wp
    BY <1>0, WpIs
  <1> DEFINE back(i) == IF i < j \/ i >= m THEN i ELSE IF i < m - 1 THEN i + 1 ELSE j
             to(i) == IF i < j \/ i >= m THEN i ELSE IF i = j THEN m - 1 ELSE i - 1
             t == [i \in Wp |-> s[back(i)]]
  <1>z. /\ m \in Int /\ 1 <= m /\ m <= NR_WP /\ NR_WP \in Int
        /\ j \in Int /\ 0 <= j /\ j < m
    BY <1>0, <1>1, WpIs
  <1>2. ASSUME NEW i \in Wp
        PROVE  /\ back(i) \in Wp /\ to(i) \in Wp
               /\ back(to(i)) = i /\ to(back(i)) = i
    <2>1. i \in Int /\ 0 <= i /\ i < NR_WP
      BY WpIs
    <2>2. /\ back(i) \in Int /\ 0 <= back(i) /\ back(i) < NR_WP
          /\ to(i) \in Int /\ 0 <= to(i) /\ to(i) < NR_WP
      BY <1>z, <2>1
    <2>3. back(to(i)) = i /\ to(back(i)) = i
      BY <1>z, <2>1
    <2> HIDE DEF back, to
    <2>. QED BY <2>2, <2>3, WpIs
  <1>3. t \in [Wp -> Wp] /\ \A i \in Wp : t[i] = s[back(i)]
    <2> HIDE DEF back
    <2>. QED BY <1>0, <1>2
  <1>4. ASSUME NEW i \in 0 .. (m - 1) - 1 PROVE \E k \in 0 .. m - 1 : k # j /\ t[i] = s[k]
    <2>1. i \in Int /\ 0 <= i /\ i < m - 1
      BY <1>z
    <2>2. back(i) \in Int /\ 0 <= back(i) /\ back(i) <= m - 1 /\ back(i) # j
      BY <1>z, <2>1
    <2>3. i < NR_WP /\ (back(i) <= m - 1 => back(i) \in 0 .. m - 1)
      BY <1>z, <2>1, <2>2
    <2> HIDE DEF t, back
    <2>. QED BY <1>3, <2>1, <2>2, <2>3, WpIs
  <1> DEFINE q == FreeWp(p, s[j])
  <1>5. Linked(q, t, m - 1)
    <2>1. m - 1 \in 0 .. NR_WP
      BY <1>0, <1>1, WpIs
    <2>2. \A n \in Wp : \E i \in Wp : t[i] = n
      <3> SUFFICES ASSUME NEW n \in Wp PROVE \E i \in Wp : t[i] = n
        OBVIOUS
      <3>1. PICK i \in Wp : s[i] = n
        BY <1>0
      <3> HIDE DEF t, back, to
      <3>2. to(i) \in Wp /\ back(to(i)) = i
        BY <1>2
      <3>. QED BY <1>3, <3>1, <3>2
    <2>3. \A i, k \in Wp : t[i] = t[k] => i = k
      <3> SUFFICES ASSUME NEW i \in Wp, NEW k \in Wp, t[i] = t[k] PROVE i = k
        OBVIOUS
      <3> HIDE DEF t, back, to
      <3>1. s[back(i)] = s[back(k)] /\ back(i) \in Wp /\ back(k) \in Wp
        BY <1>2, <1>3
      <3>2. back(i) = back(k)
        BY <1>0, <3>1
      <3>3. to(back(i)) = i /\ to(back(k)) = k
        BY <1>2
      <3>. QED BY <3>2, <3>3
    <2>4. q.free = s[j] /\ q.head = (IF s[j] = s[0] THEN p.next[s[j]] ELSE s[0])
      BY <1>0 DEF FreeWp
    <2>5. q.free = IF m - 1 = NR_WP THEN Null ELSE t[m - 1]
      <3>1. back(m - 1) = j /\ m - 1 # NR_WP
        BY <1>0, <1>1, WpIs
      <3> HIDE DEF t, back, q
      <3>. QED BY <1>1, <1>3, <2>4, <3>1
    <2>6. q.head = IF m - 1 = 0 THEN Null ELSE t[0]
      <3>1. CASE j = 0
        <4>1. q.head = IF m - 1 = 0 \/ NR_WP - 1 = 0 THEN Null ELSE s[1]
          <5>1. q.head = p.next[s[0]]
            BY <2>4, <3>1
          <5>2. p.next[s[0]] = IF 0 = m - 1 \/ 0 = NR_WP - 1 THEN Null ELSE s[0 + 1]
            BY <1>0, <1>1
          <5> HIDE DEF q
          <5>. QED BY <1>0, <5>1, <5>2
        <4>2. m - 1 # 0 => back(0) = 1
          BY <1>0, <1>1, <3>1
        <4> HIDE DEF t, back, q
        <4>3. m - 1 # 0 => NR_WP - 1 # 0
          BY <1>0, <1>1, WpIs
        <4>4. t[0] = s[back(0)]
          BY <1>3, WpIs
        <4>. QED BY <4>1, <4>2, <4>3, <4>4
      <3>2. CASE j # 0
        <4>1. s[j] # s[0] /\ m - 1 # 0 /\ back(0) = 0
          BY <1>0, <1>1, <3>2
        <4> HIDE DEF t, back, q
        <4>. QED BY <1>1, <1>3, <2>4, <4>1
      <3>. QED BY <3>1, <3>2
    <2>7. /\ q.next \in [Wp -> Link]
          /\ \A n \in Wp : q.next[n] = IF n = s[j] THEN p.free
                                       ELSE IF p.next[n] = s[j] THEN p.next[s[j]] ELSE p.next[n]
      <3>1. p.free \in Link /\ s[j] \in Wp
        <4>1. m # NR_WP => m \in Wp
          BY <1>z, WpIs
        <4> HIDE DEF t, back, to, q
        <4>. QED BY <1>0, <1>1, <4>1 DEF Link
      <3>2. q.next = [n \in Wp |-> IF n = s[j] THEN p.free
                                   ELSE IF p.next[n] = s[j] THEN p.next[s[j]] ELSE p.next[n]]
        BY DEF FreeWp
      <3>. QED BY <1>0, <3>1, <3>2
    <2>8. ASSUME NEW i \in Wp
          PROVE  q.next[t[i]] = IF i = (m - 1) - 1 \/ i = NR_WP - 1 THEN Null ELSE t[i + 1]
      <3>0. back(i) \in Wp /\ t[i] = s[back(i)] /\ s[back(i)] \in Wp
            /\ (s[back(i)] = s[j] <=> back(i) = j) /\ (back(i) = j <=> i = m - 1)
        <4>1. back(i) = j <=> i = m - 1
          BY <1>0, <1>1, WpIs
        <4> HIDE DEF t, back
        <4>. QED BY <1>0, <1>1, <1>2, <1>3, <4>1
      <3>1. CASE i = m - 1
        <4>1. q.next[t[i]] = p.free
          <5> HIDE DEF t, back, q
          <5>. QED BY <2>7, <3>0, <3>1
        <4>2. m # NR_WP => t[i + 1] = s[m]
          <5>1. m # NR_WP => m \in Wp /\ back(m) = m
            BY <1>z, WpIs
          <5>2. i + 1 = m
            BY <1>z, <3>1
          <5> HIDE DEF t, back, q
          <5>. QED BY <1>3, <5>1, <5>2
        <4>3. (i = (m - 1) - 1 \/ i = NR_WP - 1) <=> m = NR_WP
          BY <1>0, <3>1, WpIs
        <4> HIDE DEF t, back, q
        <4>. QED BY <1>0, <4>1, <4>2, <4>3
      <3>2. CASE i # m - 1
        <4> DEFINE b == back(i)
        <4>1. b \in Wp /\ b # j
              /\ p.next[s[b]] = IF b = m - 1 \/ b = NR_WP - 1 THEN Null ELSE s[b + 1]
          <5> HIDE DEF t, back, q
          <5>. QED BY <1>0, <3>0, <3>2
        <4>2. q.next[t[i]] = IF p.next[s[b]] = s[j] THEN p.next[s[j]] ELSE p.next[s[b]]
          <5> HIDE DEF t, back, q
          <5>. QED BY <2>7, <3>0, <3>2
        <4>3. p.next[s[b]] = s[j] <=> b + 1 = j
          <5>1. b = m - 1 \/ b = NR_WP - 1 => b + 1 # j
            BY <1>0, <1>1, WpIs
          <5>2. ~(b = m - 1 \/ b = NR_WP - 1) => b + 1 \in Wp
            <6> HIDE DEF b
            <6>. QED BY <4>1, WpIs
          <5>3. s[j] \in Wp /\ s[j] # Null
            BY <1>0, <1>1, WpIs
          <5> HIDE DEF b, t, back, q
          <5>. QED BY <1>0, <1>1, <4>1, <5>1, <5>2, <5>3
        <4>4. p.next[s[j]] = IF j = m - 1 \/ j = NR_WP - 1 THEN Null ELSE s[j + 1]
          BY <1>0, <1>1
        <4>5. CASE b + 1 = j
          <5>1. i = j - 1 /\ j >= 1
            BY <1>0, <1>1, <3>2, <4>5, WpIs
          <5>2. q.next[t[i]] = IF j = m - 1 \/ j = NR_WP - 1 THEN Null ELSE s[j + 1]
            <6> HIDE DEF b, t, back, q
            <6>. QED BY <4>2, <4>3, <4>4, <4>5
          <5>3. j = m - 1 \/ j = NR_WP - 1 <=> i = (m - 1) - 1 \/ i = NR_WP - 1
            BY <1>0, <1>1, <5>1, WpIs
          <5>4. ~(j = m - 1 \/ j = NR_WP - 1) => i + 1 \in Wp /\ back(i + 1) = j + 1
            BY <1>0, <1>1, <5>1, WpIs
          <5> HIDE DEF b, t, back, q
          <5>. QED BY <1>3, <5>2, <5>3, <5>4
        <4>6. CASE b + 1 # j
          <5>1. q.next[t[i]] = IF b = m - 1 \/ b = NR_WP - 1 THEN Null ELSE s[b + 1]
            <6> HIDE DEF b, t, back, q
            <6>. QED BY <4>1, <4>2, <4>3, <4>6
          <5>2. b = m - 1 \/ b = NR_WP - 1 <=> i = (m - 1) - 1 \/ i = NR_WP - 1
            BY <1>z, <3>2, <4>6, WpIs
          <5>3. ~(i = (m - 1) - 1 \/ i = NR_WP - 1) => i + 1 \in Wp /\ back(i + 1) = b + 1
            BY <1>z, <3>2, <4>6, WpIs
          <5> HIDE DEF b, t, back, q
          <5>4. ~(i = (m - 1) - 1 \/ i = NR_WP - 1) => t[i + 1] = s[b + 1]
            <6>1. \A x \in Wp : t[x] = s[back(x)]
              BY <1>3
            <6>. QED BY <5>3, <6>1
          <5>. QED BY <5>1, <5>2, <5>4
        <4>. QED BY <4>5, <4>6
      <3>. QED BY <3>1, <3>2
    <2> HIDE DEF t, q
    <2>. QED BY <1>3, <2>1, <2>2, <2>3, <2>5, <2>6, <2>7, <2>8 DEF Linked
  <1> HIDE DEF t, back, to, q
  <1>a. q = FreeWp(p, s[j])
    BY DEF q
  <1>. QED BY <1>3, <1>4, <1>5, <1>a DEF Removed

-----------------------------------------------------------------------------
(* The invariant. *)

LEMMA InitIInv == Init => IInv
  <1> SUFFICES ASSUME Init PROVE IInv
    OBVIOUS
  <1>1. Typed
    <2>1. 0 \in Words /\ \A t \in Unlexed : t \in Text
      BY DEF Words, Text
    <2>. QED BY <2>1 DEF Init, Typed
  <1> DEFINE s == [i \in Wp |-> i]
  <1>2. Linked(pool, s, 0)
    <2>1. /\ s \in [Wp -> Wp] /\ 0 \in 0 .. NR_WP /\ 0 # NR_WP /\ 0 \in Wp
          /\ \A i \in Wp : s[i] = i /\ i # 0 - 1
      BY WpIs
    <2>2. /\ pool.head = Null /\ pool.free = 0
          /\ pool.next = [n \in Wp |-> IF n = NR_WP - 1 THEN Null ELSE n + 1]
      BY DEF Init, init_wp_pool
    <2>3. \A i \in Wp : i # NR_WP - 1 => i + 1 \in Wp
      BY WpIs
    <2>4. pool.next \in [Wp -> Link]
      BY <2>2, <2>3 DEF Link
    <2>5. \A i \in Wp : pool.next[s[i]] =
                          IF i = 0 - 1 \/ i = NR_WP - 1 THEN Null ELSE s[i + 1]
      <3> SUFFICES ASSUME NEW i \in Wp
                   PROVE  pool.next[s[i]] =
                          IF i = 0 - 1 \/ i = NR_WP - 1 THEN Null ELSE s[i + 1]
        OBVIOUS
      <3>1. i # 0 - 1 /\ s[i] = i /\ (i # NR_WP - 1 => s[i + 1] = i + 1)
        BY <2>1, <2>3
      <3> HIDE DEF s
      <3>. QED BY <2>2, <3>1
    <2>6. (\A n \in Wp : \E i \in Wp : s[i] = n) /\ \A i, j \in Wp : s[i] = s[j] => i = j
      BY <2>1
    <2> HIDE DEF s
    <2>. QED BY <2>1, <2>2, <2>4, <2>5, <2>6 DEF Linked
  <1>3. s \in [Wp -> Wp] /\ 0 \in 0 .. NR_WP /\ \A i \in 0 .. 0 - 1 : Watches(s[i])
    BY WpIs
  <1> HIDE DEF s
  <1>. QED BY <1>1, <1>2, <1>3 DEF IInv

\* An action that changes neither the pool nor what is watched.
LEMMA Idle ==
  ASSUME IInv, UNCHANGED <<pool, expression, old_val, value>>, bad_expr' \in BOOLEAN
  PROVE  IInv'
  BY DEF IInv, Typed, Watches

LEMMA SetStep ==
  ASSUME IInv, NEW x \in Text, cmd_w(x)
  PROVE  IInv'
  <1>1. PICK s \in [Wp -> Wp], m \in 0 .. NR_WP :
          Linked(pool, s, m) /\ \A i \in 0 .. m - 1 : Watches(s[i])
    BY DEF IInv
  <1> DEFINE ok == Success(x, bad_expr)
  <1>2. /\ pool.free # Null
        /\ pool' = IF ok THEN NewWp ELSE FreeWp(NewWp, pool.free)
        /\ expression' = [expression EXCEPT ![pool.free] = x]
        /\ old_val' = [old_val EXCEPT ![pool.free] = IF ok THEN value[x] ELSE 0]
        /\ bad_expr' = BadAfter(x, bad_expr) /\ value' = value
    BY DEF cmd_w
  <1>3. m < NR_WP /\ pool.free = s[m] /\ \E t \in [Wp -> Wp] : Pushed(t, s, m)
    BY <1>1, <1>2, NewLinked
  <1>a. PICK t \in [Wp -> Wp] : Pushed(t, s, m)
    BY <1>3
  <1>4. Linked(NewWp, t, m + 1) /\ t[0] = s[m] /\ \A i \in 0 .. m - 1 : t[i + 1] = s[i]
    BY <1>a DEF Pushed
  <1>5. m \in Wp /\ s[m] \in Wp /\ \A i \in 0 .. m - 1 : i \in Wp /\ i # m
    BY <1>3, WpIs
  <1>6. ok => x \in Valid
    BY DEF Success, Valid
  <1>7. Typed'
    <2>1. (IF ok THEN value[x] ELSE 0) \in Words
      BY <1>6 DEF IInv, Typed, Words
    <2>2. BadAfter(x, bad_expr) \in BOOLEAN
      BY DEF BadAfter
    <2> HIDE DEF ok
    <2>. QED BY <1>2, <1>3, <1>5, <2>1, <2>2 DEF IInv, Typed
  <1>8. \A i \in 0 .. m - 1 : Watches(s[i])'
    <2> SUFFICES ASSUME NEW i \in 0 .. m - 1 PROVE Watches(s[i])'
      OBVIOUS
    <2>1. s[i] # s[m] /\ s[i] \in Wp
      BY <1>1, <1>5 DEF Linked
    <2>2. expression'[s[i]] = expression[s[i]] /\ old_val'[s[i]] = old_val[s[i]] /\ value' = value
      <3> HIDE DEF ok
      <3>. QED BY <1>2, <1>3, <1>5, <2>1 DEF IInv, Typed
    <2>3. Watches(s[i])
      BY <1>1
    <2>. QED BY <2>2, <2>3 DEF Watches
  <1>9. CASE ok
    <2>1. Watches(s[m])'
      <3>1. expression'[s[m]] = x /\ old_val'[s[m]] = value[x]
        BY <1>2, <1>3, <1>5, <1>9 DEF IInv, Typed
      <3>. QED BY <1>2, <1>6, <1>9, <3>1 DEF Watches
    <2>2. \A i \in 0 .. (m + 1) - 1 : Watches(t[i])'
      <3> SUFFICES ASSUME NEW i \in 0 .. (m + 1) - 1 PROVE Watches(t[i])'
        OBVIOUS
      <3>1. CASE i = 0
        <4>1. t[i] = s[m]
          BY <1>4, <3>1
        <4>. QED BY <2>1, <4>1
      <3>2. CASE i # 0
        <4>1. i - 1 \in 0 .. m - 1 /\ (i - 1) + 1 = i
          BY <3>2
        <4>2. t[(i - 1) + 1] = s[i - 1]
          BY <1>4, <4>1
        <4>3. t[i] = s[i - 1]
          BY <4>1, <4>2
        <4>4. Watches(s[i - 1])'
          BY <1>8, <4>1
        <4>. QED BY <4>3, <4>4
      <3>. QED BY <3>1, <3>2
    <2>3. Linked(pool, t, m + 1)'
      BY <1>2, <1>4, <1>9
    <2>4. m + 1 \in 0 .. NR_WP
      BY <1>3, WpIs
    <2>. QED BY <1>7, <2>2, <2>3, <2>4 DEF IInv
  <1>10. CASE ~ok
    <2>1. 0 \in 0 .. (m + 1) - 1 /\ (m + 1) - 1 = m
      BY WpIs
    <2>a. PICK u \in [Wp -> Wp] : Removed(u, NewWp, t, m + 1, 0)
      BY <1>4, <2>1, FreeLinked
    <2>2. /\ Linked(FreeWp(NewWp, t[0]), u, (m + 1) - 1)
          /\ \A i \in 0 .. ((m + 1) - 1) - 1 : \E k \in 0 .. (m + 1) - 1 : k # 0 /\ u[i] = t[k]
      BY <2>a DEF Removed
    <2>3. Linked(pool, u, m)'
      <3>1. pool' = FreeWp(NewWp, t[0])
        BY <1>2, <1>3, <1>4, <1>10
      <3>. QED BY <2>1, <2>2, <3>1
    <2>4. \A i \in 0 .. m - 1 : Watches(u[i])'
      <3> SUFFICES ASSUME NEW i \in 0 .. m - 1 PROVE Watches(u[i])'
        OBVIOUS
      <3>1. PICK k \in 0 .. m : k # 0 /\ u[i] = t[k]
        BY <2>1, <2>2
      <3>2. k - 1 \in 0 .. m - 1 /\ (k - 1) + 1 = k
        BY <3>1
      <3>3. t[(k - 1) + 1] = s[k - 1]
        BY <1>4, <3>2
      <3>4. u[i] = s[k - 1]
        BY <3>1, <3>2, <3>3
      <3>5. Watches(s[k - 1])'
        BY <1>8, <3>2
      <3>. QED BY <3>4, <3>5
    <2>. QED BY <1>7, <2>3, <2>4 DEF IInv
  <1>. QED BY <1>9, <1>10

LEMMA DeleteStep ==
  ASSUME IInv, NEW n \in Wp, cmd_d(n)
  PROVE  IInv'
  <1>1. PICK s \in [Wp -> Wp], m \in 0 .. NR_WP :
          Linked(pool, s, m) /\ \A i \in 0 .. m - 1 : Watches(s[i])
    BY DEF IInv
  <1>2. n \in Used /\ pool' = FreeWp(pool, n)
        /\ UNCHANGED <<expression, old_val, value, bad_expr>>
    BY DEF cmd_d
  <1>3. PICK j \in 0 .. m - 1 : n = s[j]
    BY <1>1, <1>2, UsedIs
  <1>a. PICK t \in [Wp -> Wp] : Removed(t, pool, s, m, j)
    BY <1>1, FreeLinked
  <1>4. /\ Linked(FreeWp(pool, s[j]), t, m - 1)
        /\ \A i \in 0 .. (m - 1) - 1 : \E k \in 0 .. m - 1 : k # j /\ t[i] = s[k]
    BY <1>a DEF Removed
  <1>5. Linked(pool, t, m - 1)' /\ m - 1 \in 0 .. NR_WP
    <2>1. m - 1 \in 0 .. NR_WP
      BY WpIs
    <2>. QED BY <1>2, <1>3, <1>4, <2>1
  <1>6. \A i \in 0 .. (m - 1) - 1 : Watches(t[i])'
    <2> SUFFICES ASSUME NEW i \in 0 .. (m - 1) - 1 PROVE Watches(t[i])'
      OBVIOUS
    <2>1. PICK k \in 0 .. m - 1 : t[i] = s[k]
      BY <1>4
    <2>2. Watches(s[k])
      BY <1>1
    <2>. QED BY <1>2, <2>1, <2>2 DEF Watches
  <1>7. Typed'
    BY <1>2 DEF IInv, Typed
  <1>. QED BY <1>5, <1>6, <1>7 DEF IInv

LEMMA CycleStep ==
  ASSUME IInv, Cycle
  PROVE  IInv'
  <1>1. PICK s \in [Wp -> Wp], m \in 0 .. NR_WP :
          Linked(pool, s, m) /\ \A i \in 0 .. m - 1 : Watches(s[i])
    BY DEF IInv
  <1>2. PICK v \in [Valid -> Words] :
          value' = v /\ old_val' = Traverse(v).old /\ bad_expr' = Traverse(v).bad
    BY DEF Cycle
  <1>3. Usable(s, m) /\ Typed
    BY <1>1 DEF Usable, Watches, IInv
  <1>4. /\ Traverse(v) \in Acc
        /\ \A i \in 0 .. m - 1 :
             expression[s[i]] \in Compound => Traverse(v).old[s[i]] = v[expression[s[i]]]
    BY <1>1, <1>3, TraverseDoes
  <1>5. UNCHANGED <<pool, expression>>
    BY DEF Cycle
  <1>6. Typed'
    BY <1>2, <1>3, <1>4, <1>5 DEF Typed, Acc
  <1>7. \A i \in 0 .. m - 1 : Watches(s[i])'
    BY <1>1, <1>2, <1>4, <1>5 DEF Watches
  <1>8. Linked(pool, s, m)'
    BY <1>1, <1>5
  <1>. QED BY <1>6, <1>7, <1>8 DEF IInv

LEMMA StepIInv == IInv /\ [Next]_vars => IInv'
  <1> SUFFICES ASSUME IInv, [Next]_vars PROVE IInv'
    OBVIOUS
  <1>0. bad_expr \in BOOLEAN
    BY DEF IInv, Typed
  <1>1. CASE cmd_c \/ cmd_si
    <2>1. UNCHANGED <<pool, expression, old_val, value, bad_expr>>
      BY <1>1 DEF cmd_c, cmd_si, hart_exec, not_run
    <2>. QED BY <1>0, <2>1, Idle
  <1>2. CASE cmd_q \/ EndOfInput \/ cmd_w_full
    <2>1. UNCHANGED <<pool, expression, old_val, value, bad_expr>>
      BY <1>2 DEF cmd_q, EndOfInput, Leave, cmd_w_full
    <2>. QED BY <1>0, <2>1, Idle
  <1>3. ASSUME NEW x \in Text, cmd_w(x) PROVE IInv'
    BY <1>3, SetStep
  <1>4. ASSUME NEW x \in Text, cmd_p(x) PROVE IInv'
    <2>1. UNCHANGED <<pool, expression, old_val, value>> /\ bad_expr' = BadAfter(x, bad_expr)
      BY <1>4 DEF cmd_p
    <2>2. BadAfter(x, bad_expr) \in BOOLEAN
      BY DEF BadAfter
    <2>. QED BY <2>1, <2>2, Idle
  <1>5. ASSUME NEW n \in Wp, cmd_d(n) PROVE IInv'
    BY <1>5, DeleteStep
  <1>6. CASE Cycle
    BY <1>6, CycleStep
  <1>7. CASE UNCHANGED vars
    <2>1. UNCHANGED <<pool, expression, old_val, value, bad_expr>>
      BY <1>7 DEF vars
    <2>. QED BY <1>0, <2>1, Idle
  <1>8. CASE sim_exit
    <2>1. UNCHANGED <<pool, expression, old_val, value, bad_expr>>
      BY <1>8 DEF sim_exit
    <2>. QED BY <1>0, <2>1, Idle
  <1>. QED BY <1>1, <1>2, <1>3, <1>4, <1>5, <1>6, <1>7, <1>8 DEF Next

LEMMA AlwaysIInv == Spec => []IInv
  BY InitIInv, StepIInv, PTL DEF Spec

\* Each watchpoint is on exactly one of the two lists, once, however watchpoints
\* are set, refused and deleted.
THEOREM PoolPartitionCorrect == Spec => []PoolPartition
  <1>1. IInv => PoolPartition
    BY ListsPartition DEF IInv
  <1>. QED BY <1>1, AlwaysIInv, PTL

\* A watchpoint in use has an expression that was evaluated with success.
THEOREM UsedAreValidCorrect == Spec => []UsedAreValid
  <1>1. IInv => UsedAreValid
    BY UsedIs DEF IInv, UsedAreValid, Watches
  <1>. QED BY <1>1, AlwaysIInv, PTL

\* A watchpoint on an expression of several tokens has its present value saved,
\* whatever failed before it in the traversal or at the prompt.
THEOREM CompoundNotMissedCorrect == Spec => []CompoundNotMissed
  <1>1. IInv => CompoundNotMissed
    BY UsedIs DEF IInv, CompoundNotMissed, Watches
  <1>. QED BY <1>1, AlwaysIInv, PTL

\* A "continue" ends only with an illegal opcode or with a watchpoint whose saved
\* value changes, whatever the mode of the runs before it.
THEOREM ContinueStopsForCauseCorrect == Spec => ContinueStopsForCause
  <1>1. IInv /\ [Next]_vars =>
          [proc = "exec" /\ batch /\ proc' # "exec"
             => state' = "ABORT" \/ \E n \in Used : old_val'[n] # old_val[n]]_vars
    <2> SUFFICES ASSUME IInv, Next, proc = "exec", batch, proc' # "exec", state' # "ABORT"
                 PROVE  \E n \in Used : old_val'[n] # old_val[n]
      OBVIOUS
    <2>1. Cycle
      BY DEF Next, cmd_c, cmd_si, cmd_q, EndOfInput, Leave, cmd_w_full, cmd_w, cmd_p, cmd_d, Prompt,
             sim_exit
    <2>2. PICK first \in Calls, second \in Calls, v \in [Valid -> Words] :
            /\ state' = IF Traverse(v).trigger THEN "STOP"
                        ELSE Called(Called("RUNNING", first), second)
            /\ old_val' = Traverse(v).old
      BY <2>1 DEF Cycle
    <2>3. state' # "RUNNING"
      BY <2>1 DEF Cycle
    <2>4. Called(Called("RUNNING", first), second) \in {"RUNNING", "ABORT"}
      BY DEF Calls, Called
    <2>5. Traverse(v).trigger
      BY <2>2, <2>3, <2>4
    <2>6. PICK s \in [Wp -> Wp], m \in 0 .. NR_WP :
            Linked(pool, s, m) /\ \A i \in 0 .. m - 1 : Watches(s[i])
      BY DEF IInv
    <2>7. Usable(s, m) /\ Typed
      BY <2>6 DEF Usable, Watches, IInv
    <2>8. \E i \in 0 .. m - 1 : Traverse(v).old[s[i]] # old_val[s[i]]
      BY <2>5, <2>6, <2>7, TraverseDoes
    <2>9. Used = {s[i] : i \in 0 .. m - 1}
      BY <2>6, UsedIs
    <2>. QED BY <2>2, <2>8, <2>9
  <1>. QED BY <1>1, AlwaysIInv, PTL DEF Spec, ContinueStopsForCause

-----------------------------------------------------------------------------
(* An aborted program. *)

\* execute() is left in the cycle in which the program stops running.
Awake == proc = "exec" => state = "RUNNING"

LEMMA AwakeStep == Awake /\ [Next]_vars => Awake'
  <1> SUFFICES ASSUME Awake, [Next]_vars PROVE Awake'
    OBVIOUS
  <1>1. CASE cmd_c \/ cmd_si
    BY <1>1 DEF cmd_c, cmd_si, hart_exec, Awake
  <1>2. CASE cmd_q \/ EndOfInput
    BY <1>2 DEF cmd_q, EndOfInput, Leave, Awake
  <1>3. CASE cmd_w_full
    BY <1>3 DEF cmd_w_full, Awake
  <1>4. ASSUME NEW x \in Text, cmd_w(x) \/ cmd_p(x) PROVE Awake'
    BY <1>4 DEF cmd_w, cmd_p, Prompt, Awake
  <1>5. ASSUME NEW n \in Wp, cmd_d(n) PROVE Awake'
    BY <1>5 DEF cmd_d, Prompt, Awake
  <1>6. CASE Cycle
    <2>1. proc' = IF state' = "RUNNING" THEN "exec"
                  ELSE IF batch_opt THEN "closing" ELSE "prompt"
      BY <1>6 DEF Cycle
    <2>. QED BY <2>1 DEF Awake
  <1>7. CASE UNCHANGED vars
    BY <1>7 DEF vars, Awake
  <1>8. CASE sim_exit
    BY <1>8 DEF sim_exit, Awake
  <1>. QED BY <1>1, <1>2, <1>3, <1>4, <1>5, <1>6, <1>7, <1>8 DEF Next

\* A program that has ended in ABORT is not run again, whatever is typed: the
\* only way on is out, where the edge of sim_exit may still write the state.
THEOREM AbortIsFinalCorrect == Spec => AbortIsFinal
  <1>1. Init => Awake
    BY DEF Init, Awake
  <1>2. Awake /\ [Next]_vars =>
          [state = "ABORT" /\ proc # "closing" => state' \in {"ABORT", "QUIT"}]_vars
    <2> SUFFICES ASSUME Awake, Next, state = "ABORT", proc # "closing"
                 PROVE  state' \in {"ABORT", "QUIT"}
      OBVIOUS
    <2>1. CASE cmd_c \/ cmd_si
      BY <2>1 DEF cmd_c, cmd_si, hart_exec
    <2>2. CASE cmd_q \/ EndOfInput
      BY <2>2 DEF cmd_q, EndOfInput, Leave
    <2>3. CASE cmd_w_full
      BY <2>3 DEF cmd_w_full
    <2>4. ASSUME NEW x \in Text, cmd_w(x) \/ cmd_p(x) PROVE state' = "ABORT"
      BY <2>4 DEF cmd_w, cmd_p
    <2>5. ASSUME NEW n \in Wp, cmd_d(n) PROVE state' = "ABORT"
      BY <2>5 DEF cmd_d
    <2>6. CASE Cycle
      BY <2>6 DEF Cycle, Awake
    <2>7. CASE sim_exit
      BY <2>7 DEF sim_exit
    <2>. QED BY <2>1, <2>2, <2>3, <2>4, <2>5, <2>6, <2>7 DEF Next
  <1>. QED BY <1>1, <1>2, AwakeStep, PTL DEF Spec, AbortIsFinal
=============================================================================
