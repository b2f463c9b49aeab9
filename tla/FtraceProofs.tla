---------------------------- MODULE FtraceProofs ----------------------------
(***************************************************************************)
(* Proofs about Ftrace: the symbol tree finds the function that contains an *)
(* address, for every symbol table; the depths agree, for every width of    *)
(* the depth counter and every trace, including returns without a call.     *)
(***************************************************************************)
EXTENDS Ftrace, Induction, SequenceTheorems

-----------------------------------------------------------------------------
(* The symbol tree. *)

Name == StrTables \X Nat
Node == [value : Nat, size : Nat, name : Name, left : Nat, right : Nat]
Child(t, p, v) == IF GoesLeft(t[p], v) THEN t[p].left ELSE t[p].right

\* A child comes after its parent: the ways down end.
Downward(t) == \A p \in 1 .. Len(t) : /\ t[p].left \in {NULL} \cup (p + 1 .. Len(t))
                                      /\ t[p].right \in {NULL} \cup (p + 1 .. Len(t))
\* The way down for the value of q, the nodes A, arrives at q.
Way(t, q, A) == /\ A \in SUBSET (1 .. q) /\ 1 \in A /\ q \in A
                /\ \A p \in A \ {q} : Child(t, p, t[q].value) \in A
Good(t) == /\ t \in Seq(Node) /\ Downward(t)
           /\ \A q \in 1 .. Len(t) : \E A \in SUBSET (1 .. q) : Way(t, q, A)

LEMMA NodeIs ==
  ASSUME NEW t, Good(t)
  PROVE  /\ Len(t) \in Nat /\ DOMAIN t = 1 .. Len(t) /\ (t = <<>> <=> Len(t) = 0)
         /\ \A p \in 1 .. Len(t) : t[p] \in Node
  <1>1. t \in Seq(Node)
    BY DEF Good
  <1> HIDE DEF Node
  <1>. QED BY <1>1

LEMMA GoodChild ==
  ASSUME NEW t, Good(t), NEW p \in 1 .. Len(t), NEW v \in Nat
  PROVE  Child(t, p, v) = NULL \/ Child(t, p, v) \in p + 1 .. Len(t)
  BY DEF Good, Downward, Child

\* parent names, for every node, the end of the way down from it.
Ends(parent, t, v) ==
  /\ parent \in [1 .. Len(t) -> {p \in 1 .. Len(t) : Child(t, p, v) = NULL}]
  /\ \A p \in 1 .. Len(t) :
       parent[p] = IF Child(t, p, v) = NULL THEN p ELSE parent[Child(t, p, v)]

LEMMA ParentIs ==
  ASSUME NEW t, Good(t), NEW v \in Nat
  PROVE  LET parent[p \in DOMAIN t] == IF Child(t, p, v) = NULL THEN p
                                       ELSE parent[Child(t, p, v)]
         IN  Ends(parent, t, v)
  <1> DEFINE Body(g) == [p \in DOMAIN t |-> IF Child(t, p, v) = NULL THEN p
                                            ELSE g[Child(t, p, v)]]
             n    == Len(t)
             D    == 1 .. n
             B    == {p \in D : Child(t, p, v) = NULL}
             rank == [p \in D |-> n - p]
             prev == [p \in D |-> Child(t, p, v)]
             base == [p \in D |-> p]
             step == [p \in D |-> [x \in B |-> x]]
  <1>1. n \in Nat /\ DOMAIN t = D
    BY DEF Good
  <1>2. \A p \in D \ B : prev[p] \in D /\ prev[p] > p
    <2> SUFFICES ASSUME NEW p \in D \ B PROVE Child(t, p, v) \in D /\ Child(t, p, v) > p
      OBVIOUS
    <2>1. Child(t, p, v) \in p + 1 .. Len(t)
      BY GoodChild
    <2>. QED BY <1>1, <2>1
  <1>3. Descends(D, B, B, rank, prev, base, step)
    <2>1. \A p \in D \ B : rank[prev[p]] < rank[p]
      <3> SUFFICES ASSUME NEW p \in D \ B PROVE rank[prev[p]] < rank[p]
        OBVIOUS
      <3>1. prev[p] \in D /\ prev[p] > p
        BY <1>2
      <3> HIDE DEF prev, B
      <3>. QED BY <1>1, <3>1
    <2>2. \A p \in B : base[p] \in B
      OBVIOUS
    <2>3. \A p \in D \ B, x \in B : step[p][x] \in B
      OBVIOUS
    <2> HIDE DEF D, B, rank, prev, base, step
    <2>. QED BY <1>2, <2>1, <2>2, <2>3 DEF Descends
  <1>4. PICK f \in [D -> B] : Computes(f, D, B, prev, base, step)
    <2>1. B \in SUBSET D /\ rank \in [D -> 0 .. n]
      BY <1>1
    <2> HIDE DEF D, B, rank, prev, base, step
    <2>. QED BY <1>1, <1>3, <2>1, Recursion
  <1>5. \A p \in D : f[p] = IF Child(t, p, v) = NULL THEN p ELSE f[Child(t, p, v)]
    <2> SUFFICES ASSUME NEW p \in D
                 PROVE  f[p] = IF Child(t, p, v) = NULL THEN p ELSE f[Child(t, p, v)]
      OBVIOUS
    <2>1. f[p] = IF p \in B THEN base[p] ELSE step[p][f[prev[p]]]
      BY <1>4 DEF Computes
    <2>2. CASE p \in B
      BY <2>1, <2>2
    <2>3. CASE p \notin B
      <3>1. prev[p] \in D
        BY <1>2, <2>3
      <3>2. f[prev[p]] \in B
        BY <3>1
      <3>. QED BY <2>1, <2>3, <3>2
    <2>. QED BY <2>2, <2>3
  <1>6. f = Body(f)
    BY <1>1, <1>5
  <1> DEFINE parent == CHOOSE g : g = Body(g)
  <1>7. parent = Body(parent)
    <2> HIDE DEF Body
    <2>. QED BY <1>6
  <1>8. \A p \in D : parent[p] = f[p]
    <2> DEFINE Wrong == {p \in D : parent[p] # f[p]}
    <2> SUFFICES ASSUME Wrong # {} PROVE FALSE
      OBVIOUS
    <2>1. Wrong \in SUBSET (0 .. n)
      BY <1>1
    <2>2. PICK p \in Wrong : \A q \in Wrong : p >= q
      <3> HIDE DEF Wrong, n
      <3>. QED BY <1>1, <2>1, Extremes
    <2>3. p \in D /\ parent[p] # f[p]
      OBVIOUS
    <2>4. \A q \in D : q > p => parent[q] = f[q]
      <3> HIDE DEF parent
      <3>. QED BY <1>1, <2>2
    <2>5. parent[p] = IF Child(t, p, v) = NULL THEN p ELSE parent[Child(t, p, v)]
      <3> HIDE DEF parent
      <3>. QED BY <1>1, <1>7, <2>3
    <2>6. Child(t, p, v) # NULL => Child(t, p, v) \in D /\ Child(t, p, v) > p
      BY <1>2
    <2> HIDE DEF parent, D, n
    <2>. QED BY <1>5, <2>3, <2>4, <2>5, <2>6
  <1>9. parent \in [D -> B]
    <2>1. \A p \in D : parent[p] \in B
      <3> HIDE DEF parent, D, B
      <3>. QED BY <1>8
    <2>2. Body(parent) = [p \in D |-> Body(parent)[p]]
      <3> HIDE DEF parent
      <3>. QED BY <1>1
    <2>3. parent = [p \in D |-> parent[p]]
      <3> HIDE DEF parent, Body
      <3>. QED BY <1>7, <2>2
    <2> HIDE DEF parent, B, D
    <2>. QED BY <2>1, <2>3
  <1>10. \A p \in D :
           parent[p] = IF Child(t, p, v) = NULL THEN p ELSE parent[Child(t, p, v)]
    <2> HIDE DEF parent
    <2>. QED BY <1>1, <1>7
  <1>. QED BY <1>9, <1>10 DEF Ends


LEMMA AppendIs ==
  ASSUME NEW S, NEW s \in Seq(S), NEW e \in S
  PROVE  /\ Append(s, e) \in Seq(S) /\ Len(Append(s, e)) = Len(s) + 1
         /\ \A i \in 1 .. Len(s) : Append(s, e)[i] = s[i]
         /\ Append(s, e)[Len(s) + 1] = e
  OBVIOUS

\* u is t with node new, which has no children, below p on the way for its value.
Grown(t, u, p, new, sym) ==
  /\ u \in Seq(Node) /\ Len(u) = new /\ new = Len(t) + 1
  /\ u[new].left = NULL /\ u[new].right = NULL /\ u[new].value = sym.value
  /\ \A q \in 1 .. Len(t) : u[q].value = t[q].value /\ u[q].size = t[q].size
  /\ \A q \in 1 .. Len(t), v \in Nat :
       Child(u, q, v) = IF q = p /\ (GoesLeft(t[p], v) <=> GoesLeft(t[p], sym.value))
                        THEN new ELSE Child(t, q, v)
  /\ \A q \in 1 .. Len(t) : /\ u[q].left \in {t[q].left, new}
                            /\ u[q].right \in {t[q].right, new}

LEMMA InsertGrows ==
  ASSUME NEW t, Good(t), t # <<>>, NEW name \in Name, NEW sym \in Symbol
  PROVE  \E parent : /\ Ends(parent, t, sym.value)
                     /\ Grown(t, insert_symbol_link(t, name, sym), parent[1], Len(t) + 1, sym)
  <1> DEFINE n == Len(t)
             v == sym.value
             child(p) == IF GoesLeft(t[p], v) THEN t[p].left ELSE t[p].right
             Body(g) == [p \in DOMAIN t |-> IF Child(t, p, v) = NULL THEN p
                                            ELSE g[Child(t, p, v)]]
             parent == CHOOSE g : g = Body(g)
             p1   == parent[1]
             side == IF GoesLeft(t[p1], v) THEN "left" ELSE "right"
             node == make_symbol_node(name, sym)
             tt   == [t EXCEPT ![p1][side] = n + 1]
             u    == Append(tt, node)
  <1>1. insert_symbol_link(t, name, sym) = u
    BY DEF insert_symbol_link, Child
  <1>2. Ends(parent, t, v)
    BY ParentIs DEF Symbol
  <1>3. n \in Nat /\ n > 0 /\ t \in [1 .. n -> Node] /\ DOMAIN t = 1 .. n
    BY DEF Good
  <1>4. p1 \in 1 .. n
    <2>1. 1 \in 1 .. Len(t)
      BY <1>3
    <2>2. parent \in [1 .. Len(t) -> {p \in 1 .. Len(t) : Child(t, p, v) = NULL}]
      BY <1>2 DEF Ends
    <2> HIDE DEF parent
    <2>. QED BY <2>1, <2>2
  <1> HIDE DEF parent, p1
  <1>5. node \in Node /\ node.left = NULL /\ node.right = NULL /\ node.value = v
    BY DEF make_symbol_node, Node, Symbol, NULL
  <1>6. /\ tt \in [1 .. n -> Node]
        /\ \A q \in 1 .. n : q # p1 => tt[q] = t[q]
        /\ tt[p1].value = t[p1].value /\ tt[p1].size = t[p1].size
        /\ side = "left" => tt[p1].left = n + 1 /\ tt[p1].right = t[p1].right
        /\ side = "right" => tt[p1].left = t[p1].left /\ tt[p1].right = n + 1
    <2>1. CASE side = "left"
      <3>1. tt = [t EXCEPT ![p1] = [t[p1] EXCEPT !.left = n + 1]]
        BY <2>1
      <3>2. [t[p1] EXCEPT !.left = n + 1] \in Node
        BY <1>3, <1>4 DEF Node
      <3>3. t[p1] \in Node
        BY <1>3, <1>4
      <3> HIDE DEF side, n, tt
      <3>. QED BY <1>3, <1>4, <2>1, <3>1, <3>2, <3>3 DEF Node
    <2>2. CASE side = "right"
      <3>1. tt = [t EXCEPT ![p1] = [t[p1] EXCEPT !.right = n + 1]]
        BY <2>2
      <3>2. [t[p1] EXCEPT !.right = n + 1] \in Node
        BY <1>3, <1>4 DEF Node
      <3>3. t[p1] \in Node
        BY <1>3, <1>4
      <3> HIDE DEF side, n, tt
      <3>. QED BY <1>3, <1>4, <2>2, <3>1, <3>2, <3>3 DEF Node
    <2>. QED BY <2>1, <2>2
  <1>7. side = "left" <=> GoesLeft(t[p1], v)
    OBVIOUS
  <1>8. side = "right" <=> ~GoesLeft(t[p1], v)
    OBVIOUS
  <1>9. tt \in Seq(Node) /\ Len(tt) = n
    <2> HIDE DEF tt, n
    <2>1. tt \in Seq(Node)
      BY <1>3, <1>6, SeqDef
    <2>. QED BY <2>1, <1>3, <1>6, LenProperties
  <1>10. /\ u \in Seq(Node) /\ Len(u) = n + 1
         /\ \A q \in 1 .. n : u[q] = tt[q]
         /\ u[n + 1] = node
    <2> HIDE DEF tt, node, n
    <2>. QED BY <1>5, <1>9, AppendIs
  <1> HIDE DEF tt, node, u, side
  <1>11. \A q \in 1 .. n : u[q].value = t[q].value /\ u[q].size = t[q].size
    BY <1>4, <1>6, <1>10
  <1>12. ASSUME NEW q \in 1 .. n, NEW w \in Nat
         PROVE  Child(u, q, w) = IF q = p1 /\ (GoesLeft(t[p1], w) <=> GoesLeft(t[p1], v))
                                 THEN n + 1 ELSE Child(t, q, w)
    <2>1. GoesLeft(u[q], w) <=> GoesLeft(t[q], w)
      BY <1>11 DEF GoesLeft
    <2>2. CASE q # p1
      <3>1. u[q] = t[q]
        BY <1>6, <1>10, <2>2
      <3>. QED BY <2>2, <3>1 DEF Child
    <2>3. CASE q = p1
      <3>1. u[q] = tt[p1]
        BY <1>10, <2>3
      <3>2. Child(u, q, w) = IF GoesLeft(t[p1], w) THEN tt[p1].left ELSE tt[p1].right
        BY <2>1, <2>3, <3>1 DEF Child
      <3>3. Child(t, q, w) = IF GoesLeft(t[p1], w) THEN t[p1].left ELSE t[p1].right
        BY <2>3 DEF Child
      <3>. QED BY <1>6, <1>7, <1>8, <2>3, <3>2, <3>3
    <2>. QED BY <2>2, <2>3
  <1>13. \A q \in 1 .. n : u[q].left \in {t[q].left, n + 1} /\ u[q].right \in {t[q].right, n + 1}
    BY <1>6, <1>7, <1>8, <1>10
  <1>14. Grown(t, u, p1, n + 1, sym)
    BY <1>5, <1>10, <1>11, <1>12, <1>13 DEF Grown
  <1>. QED BY <1>1, <1>2, <1>14 DEF p1

LEMMA InsertKeeps ==
  ASSUME NEW t, Good(t), NEW name \in Name, NEW sym \in Symbol
  PROVE  Good(insert_symbol_link(t, name, sym))
  <1> DEFINE u == insert_symbol_link(t, name, sym)
             n == Len(t)
             v == sym.value
  <1>1. CASE t = <<>>
    <2> DEFINE node == make_symbol_node(name, sym)
    <2>1. node \in Node /\ node.left = NULL /\ node.right = NULL
      BY DEF make_symbol_node, Node, Symbol, NULL
    <2>2. u = Append(<<>>, node)
      BY <1>1 DEF insert_symbol_link
    <2> HIDE DEF node, u
    <2>3. u \in Seq(Node) /\ Len(u) = 1 /\ u[1] = node
      BY <2>1, <2>2
    <2>4. Downward(u)
      BY <2>1, <2>3 DEF Downward
    <2>5. ASSUME NEW q \in 1 .. 1 PROVE \E A \in SUBSET (1 .. q) : Way(u, q, A)
      <3>1. q = 1 /\ {1} \in SUBSET (1 .. 1)
        OBVIOUS
      <3>2. Way(u, 1, {1})
        BY DEF Way
      <3>. QED BY <3>1, <3>2
    <2>. QED BY <2>3, <2>4, <2>5 DEF Good, u
  <1>2. CASE t # <<>>
    <2>1. PICK parent : Ends(parent, t, v) /\ Grown(t, u, parent[1], n + 1, sym)
      BY <1>2, InsertGrows
    <2> DEFINE end == parent[1]
    <2> HIDE DEF u
    <2>2. n \in Nat /\ n > 0 /\ v \in Nat
      BY <1>2 DEF Good, Symbol
    <2>3. /\ u \in Seq(Node) /\ Len(u) = n + 1
          /\ u[n + 1].left = NULL /\ u[n + 1].right = NULL /\ u[n + 1].value = v
          /\ \A q \in 1 .. n : u[q].value = t[q].value
          /\ \A q \in 1 .. n, w \in Nat :
               Child(u, q, w) = IF q = end /\ (GoesLeft(t[end], w) <=> GoesLeft(t[end], v))
                                THEN n + 1 ELSE Child(t, q, w)
          /\ \A q \in 1 .. n : /\ u[q].left \in {t[q].left, n + 1}
                               /\ u[q].right \in {t[q].right, n + 1}
      BY <2>1 DEF Grown
    <2>4. /\ \A p \in 1 .. n : parent[p] \in 1 .. n /\ Child(t, parent[p], v) = NULL
          /\ \A p \in 1 .. n :
               parent[p] = IF Child(t, p, v) = NULL THEN p ELSE parent[Child(t, p, v)]
      BY <2>1 DEF Ends
    <2>5. end \in 1 .. n /\ Child(t, end, v) = NULL /\ 1 \in 1 .. n
      BY <2>2, <2>4
    <2>6. Downward(u)
      <3>1. ASSUME NEW p \in 1 .. n + 1
            PROVE  /\ u[p].left \in {NULL} \cup (p + 1 .. n + 1)
                   /\ u[p].right \in {NULL} \cup (p + 1 .. n + 1)
        <4>1. CASE p = n + 1
          BY <2>3, <4>1
        <4>2. CASE p # n + 1
          <5>1. p \in 1 .. n
            BY <2>2, <4>2
          <5>2. /\ t[p].left \in {NULL} \cup (p + 1 .. n)
                /\ t[p].right \in {NULL} \cup (p + 1 .. n)
            BY <5>1 DEF Good, Downward
          <5>3. u[p].left \in {t[p].left, n + 1} /\ u[p].right \in {t[p].right, n + 1}
            BY <2>3, <5>1
          <5>. QED BY <2>2, <5>1, <5>2, <5>3
        <4>. QED BY <4>1, <4>2
      <3>. QED BY <2>3, <3>1 DEF Downward
    <2>7. ASSUME NEW q \in 1 .. n PROVE \E A \in SUBSET (1 .. q) : Way(u, q, A)
      <3>1. PICK A \in SUBSET (1 .. q) : Way(t, q, A)
        BY DEF Good
      <3>2. t[q].value \in Nat
        BY NodeIs DEF Node
      <3>3. ASSUME NEW p \in A \ {q} PROVE Child(u, p, u[q].value) \in A
        <4>1. p \in 1 .. n /\ Child(t, p, t[q].value) \in A /\ NULL \notin A
          BY <2>2, <3>1 DEF Way, NULL
        <4>2. u[q].value = t[q].value
          BY <2>3
        <4>3. Child(u, p, t[q].value) = IF p = end /\ (GoesLeft(t[end], t[q].value) <=> GoesLeft(t[end], v))
                                        THEN n + 1 ELSE Child(t, p, t[q].value)
          BY <2>3, <3>2, <4>1
        <4>4. ~(p = end /\ (GoesLeft(t[end], t[q].value) <=> GoesLeft(t[end], v)))
          <5> SUFFICES ASSUME p = end, GoesLeft(t[end], t[q].value) <=> GoesLeft(t[end], v)
                       PROVE  FALSE
            OBVIOUS
          <5>1. Child(t, p, t[q].value) = Child(t, end, v)
            BY DEF Child
          <5>. QED BY <2>5, <4>1, <5>1
        <4>. QED BY <4>1, <4>2, <4>3, <4>4
      <3>. QED BY <3>1, <3>3 DEF Way
    <2>8. \E A \in SUBSET (1 .. n + 1) : Way(u, n + 1, A)
      <3> DEFINE A == {p \in 1 .. n : parent[p] = end}
                 W == A \cup {n + 1}
      <3>1. W \in SUBSET (1 .. n + 1) /\ 1 \in W /\ n + 1 \in W
        BY <2>2, <2>5
      <3>2. ASSUME NEW p \in W \ {n + 1} PROVE Child(u, p, v) \in W
        <4>1. p \in 1 .. n /\ parent[p] = end
          OBVIOUS
        <4>2. Child(u, p, v) = IF p = end THEN n + 1 ELSE Child(t, p, v)
          BY <2>2, <2>3, <4>1
        <4>3. CASE p # end
          <5>1. Child(t, p, v) # NULL
            BY <2>4, <4>1, <4>3
          <5>2. parent[Child(t, p, v)] = end
            BY <2>4, <4>1, <5>1
          <5>3. Child(t, p, v) \in p + 1 .. n
            BY <2>2, <4>1, <5>1, GoodChild
          <5>4. Child(t, p, v) \in 1 .. n
            BY <2>2, <4>1, <5>3
          <5>. QED BY <4>2, <4>3, <5>2, <5>4
        <4>. QED BY <4>2, <4>3
      <3> HIDE DEF W
      <3>. QED BY <2>3, <3>1, <3>2 DEF Way
    <2>9. ASSUME NEW q \in 1 .. n + 1 PROVE \E A \in SUBSET (1 .. q) : Way(u, q, A)
      <3>1. q \in 1 .. n \/ q = n + 1
        BY <2>2
      <3>. QED BY <2>7, <2>8, <3>1
    <2>. QED BY <2>3, <2>6, <2>9 DEF Good, u
  <1>. QED BY <1>1, <1>2

\* Whatever the symbol table, what is read is a good tree.
LEMMA LoadIsGood ==
  ASSUME NEW symbols \in Seq(Symbol), NEW tab \in StrTables
  PROVE  Good(Load(tab, symbols))
  <1> DEFINE n == Len(symbols)
             S == {t \in Seq(Node) : Good(t)}
             next(t, k) == IF symbols[k].func THEN insert_symbol_link(t, <<tab, k>>, symbols[k]) ELSE t
             step == [k \in 1 .. n |-> [t \in S |-> next(t, k)]]
             Body(g) == [k \in 0 .. n |->
                IF k = 0 THEN <<>>
                ELSE IF symbols[k].func THEN insert_symbol_link(g[k - 1], <<tab, k>>, symbols[k])
                ELSE g[k - 1]]
             tree_of == CHOOSE g : g = Body(g)
  <1>1. n \in Nat
    OBVIOUS
  <1>2. <<>> \in S
    <2>1. <<>> \in Seq(Node) /\ Len(<<>>) = 0 /\ 1 .. 0 = {}
      BY EmptySeq
    <2>. QED BY <2>1 DEF Good, Downward
  <1>3. \A k \in 1 .. n, t \in S : next(t, k) \in S
    <2> SUFFICES ASSUME NEW k \in 1 .. n, NEW t \in S PROVE next(t, k) \in S
      OBVIOUS
    <2>1. <<tab, k>> \in Name /\ symbols[k] \in Symbol
      BY <1>1 DEF Name
    <2>2. Good(insert_symbol_link(t, <<tab, k>>, symbols[k]))
      BY <2>1, InsertKeeps
    <2>. QED BY <2>2 DEF Good
  <1>4. Steps(n, S, step)
    BY <1>3 DEF Steps
  <1>5. PICK f \in [0 .. n -> S] : Iterates(f, n, <<>>, step)
    <2> HIDE DEF n, S, step
    <2>. QED BY <1>1, <1>2, <1>4, Iterate
  <1>6. f[0] = <<>> /\ \A k \in 1 .. n : f[k] = next(f[k - 1], k)
    <2>1. ASSUME NEW k \in 1 .. n PROVE f[k] = next(f[k - 1], k)
      <3>1. f[k] = step[k][f[k - 1]]
        BY <1>5 DEF Iterates
      <3>2. k - 1 \in 0 .. n
        BY <1>1
      <3>3. f[k - 1] \in S
        <4> HIDE DEF S, n
        <4>. QED BY <3>2
      <3> HIDE DEF S, next
      <3>. QED BY <3>1, <3>3
    <2>. QED BY <1>5, <2>1 DEF Iterates
  <1>7. f = Body(f)
    <2>1. ASSUME NEW k \in 0 .. n PROVE f[k] = Body(f)[k]
      <3>1. CASE k = 0
        BY <1>6, <3>1
      <3>2. CASE k # 0
        <4>1. k \in 1 .. n
          BY <1>1, <3>2
        <4>2. f[k] = next(f[k - 1], k)
          BY <1>6, <4>1
        <4>. QED BY <3>2, <4>2
      <3>. QED BY <3>1, <3>2
    <2>2. Body(f) = [k \in 0 .. n |-> Body(f)[k]] /\ f = [k \in 0 .. n |-> f[k]]
      OBVIOUS
    <2> HIDE DEF Body
    <2>. QED BY <2>1, <2>2
  <1>8. tree_of = Body(tree_of)
    <2> HIDE DEF Body
    <2>. QED BY <1>7
  <1>9. Load(tab, symbols) = tree_of[n]
    BY DEF Load
  <1> HIDE DEF tree_of
  <1> DEFINE B == {k \in 0 .. n : tree_of[k] = f[k]}
  <1>10. 0 \in B
    BY <1>1, <1>6, <1>8
  <1>11. ASSUME NEW k \in B, k < n PROVE k + 1 \in B
    <2>1. k + 1 \in 1 .. n /\ (k + 1) - 1 = k /\ k + 1 \in 0 .. n /\ k + 1 # 0
      BY <1>1, <1>11
    <2>2. Body(tree_of)[k + 1] = next(tree_of[k], k + 1)
      <3>1. Body(tree_of)[k + 1] = IF symbols[k + 1].func
                                   THEN insert_symbol_link(tree_of[(k + 1) - 1], <<tab, k + 1>>, symbols[k + 1])
                                   ELSE tree_of[(k + 1) - 1]
        BY <2>1
      <3>. QED BY <2>1, <3>1
    <2>3. f[k + 1] = next(f[k], k + 1)
      <3>1. f[k + 1] = next(f[(k + 1) - 1], k + 1)
        <4> HIDE DEF next
        <4>. QED BY <1>6, <2>1
      <3>. QED BY <2>1, <3>1
    <2>4. tree_of[k] = f[k]
      OBVIOUS
    <2>5. tree_of[k + 1] = Body(tree_of)[k + 1]
      <3> HIDE DEF Body
      <3>. QED BY <1>8
    <2>6. tree_of[k + 1] = f[k + 1]
      BY <2>2, <2>3, <2>4, <2>5
    <2>. QED BY <2>1, <2>6
  <1>12. B = 0 .. n
    <2>1. B \in SUBSET (0 .. n)
      OBVIOUS
    <2> HIDE DEF B, n
    <2>. QED BY <1>1, <1>10, <1>11, <2>1, Induct
  <1>13. n \in B
    <2> HIDE DEF B, n
    <2>. QED BY <1>1, <1>12
  <1>14. Load(tab, symbols) \in S
    BY <1>9, <1>13
  <1>. QED BY <1>14

\* f says, for every node, what the search from there on gives.
Searches(f, t, addr) ==
  /\ f[NULL] = NULL
  /\ \A p \in 1 .. Len(t) :
       f[p] = IF Covers(t[p], addr) THEN p
              ELSE f[IF addr >= t[p].value + t[p].size THEN t[p].right ELSE t[p].left]
  /\ search_symbol(t, addr) = f[IF t = <<>> THEN NULL ELSE 1]

LEMMA SearchIs ==
  ASSUME NEW t, Good(t), NEW addr \in Nat
  PROVE  \E f : Searches(f, t, addr)
  <1> DEFINE n == Len(t)
             D == 0 .. n
             on(p) == IF addr >= t[p].value + t[p].size THEN t[p].right ELSE t[p].left
             Body(g) == [p \in D |-> IF p = NULL THEN NULL
                                     ELSE IF Covers(t[p], addr) THEN p
                                     ELSE g[on(p)]]
             B == {p \in D : p = NULL \/ Covers(t[p], addr)}
             rank == [p \in D |-> IF p = NULL THEN 0 ELSE (n + 1) - p]
             prev == [p \in D |-> on(p)]
             base == [p \in D |-> p]
             step == [p \in D |-> [x \in Nat |-> x]]
  <1>1. n \in Nat /\ \A p \in D : p # NULL => p \in 1 .. n
    BY NodeIs DEF Node, NULL
  <1>2. \A p \in D \ B : on(p) = NULL \/ on(p) \in p + 1 .. n
    BY <1>1 DEF Good, Downward
  <1>3. Descends(D, B, Nat, rank, prev, base, step)
    <2>1. ASSUME NEW p \in D \ B PROVE prev[p] \in D /\ rank[prev[p]] < rank[p]
      <3>1. prev[p] = on(p) /\ p # NULL /\ p \in 1 .. n
        BY <1>1
      <3>2. CASE on(p) = NULL
        <4> HIDE DEF on, n, B, prev
        <4>. QED BY <1>1, <3>1, <3>2 DEF NULL
      <3>3. CASE on(p) \in p + 1 .. n
        <4> HIDE DEF on, n, B, prev
        <4>. QED BY <1>1, <3>1, <3>3 DEF NULL
      <3>. QED BY <1>2, <3>2, <3>3
    <2>2. \A p \in B : base[p] \in Nat
      BY <1>1 DEF NULL
    <2>3. \A p \in D \ B, x \in Nat : step[p][x] \in Nat
      OBVIOUS
    <2> HIDE DEF D, B, rank, prev, base, step
    <2>. QED BY <2>1, <2>2, <2>3 DEF Descends
  <1>4. PICK f \in [D -> Nat] : Computes(f, D, B, prev, base, step)
    <2>1. B \in SUBSET D /\ rank \in [D -> 0 .. n + 1] /\ n + 1 \in Nat
      <3> HIDE DEF n
      <3>. QED BY <1>1 DEF NULL
    <2> HIDE DEF D, B, rank, prev, base, step, n
    <2>. QED BY <1>3, <2>1, Recursion
  <1>5. f = Body(f)
    <2>1. ASSUME NEW p \in D PROVE f[p] = Body(f)[p]
      <3>1. f[p] = IF p \in B THEN base[p] ELSE step[p][f[prev[p]]]
        BY <1>4 DEF Computes
      <3>2. CASE p \in B
        BY <3>1, <3>2
      <3>3. CASE p \notin B
        <4>1. on(p) \in D
          <5>1. on(p) = NULL \/ on(p) \in p + 1 .. n
            BY <1>2, <3>3
          <5> HIDE DEF on, n, B
          <5>. QED BY <1>1, <5>1 DEF NULL
        <4>2. f[on(p)] \in Nat
          <5> HIDE DEF on, D
          <5>. QED BY <4>1
        <4>. QED BY <3>1, <3>3, <4>2
      <3>. QED BY <3>2, <3>3
    <2>2. Body(f) = [p \in D |-> Body(f)[p]] /\ f = [p \in D |-> f[p]]
      OBVIOUS
    <2> HIDE DEF Body
    <2>. QED BY <2>1, <2>2
  <1> DEFINE search == CHOOSE g : g = Body(g)
  <1>6. search = Body(search)
    <2> HIDE DEF Body
    <2>. QED BY <1>5
  <1>7. search_symbol(t, addr) = search[IF t = <<>> THEN NULL ELSE 1]
    BY DEF search_symbol
  <1> HIDE DEF search
  <1>8. search[NULL] = NULL
    <2>1. NULL \in D
      BY <1>1 DEF NULL
    <2>. QED BY <1>6, <2>1
  <1>9. \A p \in 1 .. n : search[p] = IF Covers(t[p], addr) THEN p ELSE search[on(p)]
    <2> SUFFICES ASSUME NEW p \in 1 .. n
                 PROVE  search[p] = IF Covers(t[p], addr) THEN p ELSE search[on(p)]
      OBVIOUS
    <2>1. p \in D /\ p # NULL
      BY <1>1 DEF NULL
    <2> HIDE DEF on
    <2>. QED BY <1>6, <2>1
  <1>. QED BY <1>7, <1>8, <1>9 DEF Searches

\* The search goes the way of every node that contains the address, until it
\* meets one that does.
LEMMA SearchFinds ==
  ASSUME NEW t, Good(t), \A p, q \in 1 .. Len(t) : Separate(t[p], t[q]), NEW addr \in Nat
  PROVE  LET covering == {p \in 1 .. Len(t) : Covers(t[p], addr)}
         IN  IF covering = {} THEN search_symbol(t, addr) = NULL
             ELSE search_symbol(t, addr) \in covering
  <1> DEFINE n == Len(t)
             covering == {p \in 1 .. n : Covers(t[p], addr)}
             on(p) == IF addr >= t[p].value + t[p].size THEN t[p].right ELSE t[p].left
  <1>1. /\ n \in Nat /\ (t = <<>> <=> n = 0)
        /\ \A p \in 1 .. n : t[p].value \in Nat /\ t[p].size \in Nat
    BY NodeIs DEF Node
  <1>2. PICK f : Searches(f, t, addr)
    BY SearchIs
  <1>3. /\ f[NULL] = NULL
        /\ \A p \in 1 .. n : f[p] = IF Covers(t[p], addr) THEN p ELSE f[on(p)]
        /\ search_symbol(t, addr) = f[IF t = <<>> THEN NULL ELSE 1]
    BY <1>2 DEF Searches
  <1>4. \A p \in 1 .. n : on(p) = NULL \/ on(p) \in p + 1 .. n
    BY <1>1 DEF Good, Downward
  <1>5. CASE covering = {}
    <2> DEFINE Wrong == {p \in 1 .. n : f[p] # NULL}
    <2>1. Wrong = {}
      <3> SUFFICES ASSUME Wrong # {} PROVE FALSE
        OBVIOUS
      <3>1. Wrong \in SUBSET (0 .. n)
        BY <1>1
      <3>2. PICK p \in Wrong : \A q \in Wrong : p >= q
        <4> HIDE DEF Wrong, n
        <4>. QED BY <1>1, <3>1, Extremes
      <3>3. p \in 1 .. n /\ f[p] # NULL /\ f[p] = f[on(p)]
        BY <1>3, <1>5
      <3>4. on(p) # NULL /\ on(p) \in p + 1 .. n
        <4> HIDE DEF on
        <4>. QED BY <1>3, <1>4, <3>3
      <3>5. on(p) \in 1 .. n /\ ~(p >= on(p))
        <4> HIDE DEF on, Wrong, n
        <4>. QED BY <1>1, <3>3, <3>4
      <3>6. f[on(p)] # NULL
        BY <3>3
      <3> HIDE DEF on
      <3>. QED BY <3>2, <3>5, <3>6
    <2>2. search_symbol(t, addr) = NULL
      <3>1. CASE n = 0
        BY <1>1, <1>3, <3>1
      <3>2. CASE n # 0
        <4>1. 1 \in 1 .. n /\ t # <<>>
          BY <1>1, <3>2
        <4>. QED BY <1>3, <2>1, <4>1
      <3>. QED BY <3>1, <3>2
    <2>. QED BY <1>5, <2>2
  <1>6. CASE covering # {}
    <2>1. PICK q \in 1 .. n : Covers(t[q], addr)
      BY <1>6
    <2>2. PICK A \in SUBSET (1 .. q) : Way(t, q, A)
      BY DEF Good
    <2>3. /\ 1 \in A /\ q \in A /\ q \in 1 .. n
          /\ \A p \in A : p \in 1 .. n
          /\ \A p \in A \ {q} : Child(t, p, t[q].value) \in A
      BY <1>1, <2>2 DEF Way
    <2>4. ASSUME NEW p \in A, ~Covers(t[p], addr) PROVE on(p) \in A /\ on(p) > p
      <3>1. p \in 1 .. n /\ p # q
        BY <2>1, <2>3, <2>4
      <3>2. Separate(t[p], t[q])
        BY <3>1
      <3>3. on(p) = Child(t, p, t[q].value)
        <4> DEFINE a == t[p].value
                   b == t[p].size
                   c == t[q].value
                   d == t[q].size
        <4>1. a \in Nat /\ b \in Nat /\ c \in Nat /\ d \in Nat
          BY <1>1, <3>1
        <4>2. c <= addr /\ addr < c + d /\ ~(a <= addr /\ addr < a + b)
          BY <2>1, <2>4 DEF Covers
        <4>3. a + b <= c \/ c + d <= a \/ (a = c /\ b = d)
          BY <3>2 DEF Separate
        <4>4. addr >= a + b <=> ~(a > c)
          <5> HIDE DEF a, b, c, d
          <5>. QED BY <4>1, <4>2, <4>3
        <4>5. GoesLeft(t[p], t[q].value) <=> a > c
          BY DEF GoesLeft
        <4>6. on(p) = IF addr >= a + b THEN t[p].right ELSE t[p].left
          OBVIOUS
        <4> HIDE DEF a, b, c, d, on
        <4>. QED BY <4>4, <4>5, <4>6 DEF Child
      <3>4. on(p) \in A
        BY <2>3, <3>1, <3>3
      <3>5. on(p) \in 1 .. n /\ (on(p) = NULL \/ on(p) \in p + 1 .. n)
        <4> HIDE DEF on
        <4>. QED BY <1>4, <2>3, <3>1, <3>4
      <3>6. on(p) > p
        <4> HIDE DEF on, n
        <4>. QED BY <1>1, <3>1, <3>5 DEF NULL
      <3>. QED BY <3>4, <3>6
    <2> DEFINE Wrong == {p \in A : f[p] \notin covering}
    <2>5. Wrong = {}
      <3> SUFFICES ASSUME Wrong # {} PROVE FALSE
        OBVIOUS
      <3>1. Wrong \in SUBSET (0 .. n)
        <4>1. \A p \in Wrong : p \in 1 .. n
          BY <2>3
        <4> HIDE DEF Wrong, n
        <4>. QED BY <1>1, <4>1
      <3>2. PICK p \in Wrong : \A x \in Wrong : p >= x
        <4> HIDE DEF Wrong, n
        <4>. QED BY <1>1, <3>1, Extremes
      <3>3. p \in A /\ p \in 1 .. n /\ f[p] \notin covering
        BY <2>3
      <3>4. ~Covers(t[p], addr)
        <4>1. Covers(t[p], addr) => f[p] = p /\ p \in covering
          BY <1>3, <3>3
        <4>. QED BY <3>3, <4>1
      <3>5. f[p] = f[on(p)] /\ on(p) \in A /\ on(p) > p
        BY <1>3, <2>4, <3>3, <3>4
      <3>6. on(p) \in Wrong
        <4> HIDE DEF on, covering
        <4>. QED BY <3>3, <3>5
      <3>7. on(p) \in 1 .. n
        <4> HIDE DEF on
        <4>. QED BY <2>3, <3>5
      <3>8. ~(p >= on(p))
        <4> HIDE DEF on, Wrong, n
        <4>. QED BY <1>1, <3>3, <3>5, <3>7
      <3> HIDE DEF on, Wrong
      <3>. QED BY <3>2, <3>6, <3>8
    <2>6. f[1] \in covering
      <3> HIDE DEF covering
      <3>. QED BY <2>3, <2>5
    <2>7. t # <<>>
      BY <1>1, <2>1
    <2>. QED BY <1>3, <1>6, <2>6, <2>7
  <1>. QED BY <1>5, <1>6

LEMMA AlwaysGood == Spec => []Good(tree)
  <1>1. Init => Good(tree)
    <2>1. <<>> \in Seq(Node) /\ Len(<<>>) = 0 /\ 1 .. 0 = {}
      BY EmptySeq
    <2>. QED BY <2>1 DEF Init, Good, Downward
  <1>2. Good(tree) /\ [Next]_vars => Good(tree)'
    <2> SUFFICES ASSUME Good(tree), [Next]_vars PROVE Good(tree')
      BY DEF Good, Downward, Way, Child, GoesLeft
    <2>1. ASSUME NEW sections, NEW symbols \in Symbols, init_ftrace(sections, symbols)
          PROVE  Good(tree')
      <3>1. tree' = tree \/ \E tab \in StrTables : tree' = Load(tab, symbols)
        BY <2>1 DEF init_ftrace
      <3>2. \A tab \in StrTables : Good(Load(tab, symbols))
        BY FtraceAssumption, LoadIsGood
      <3>. QED BY <3>1, <3>2
    <2>2. ASSUME tree' = tree PROVE Good(tree')
      BY <2>2
    <2>. QED BY <2>1, <2>2 DEF Next, trace, trace_unknown, vars
  <1>. QED BY <1>1, <1>2, PTL DEF Spec

\* The node found for a target is that of a function that contains it, and none
\* is found only when none does: whatever the symbol table and the order of its symbols, as long as
\* two functions do not overlap or are aliases.
THEOREM SearchFindsCoverCorrect == Spec => []SearchFindsCover
  <1>1. Good(tree) => SearchFindsCover
    <2> SUFFICES ASSUME Good(tree), \A p, q \in DOMAIN tree : Separate(tree[p], tree[q]),
                        NEW addr \in 0 .. Bound
                 PROVE  LET covering == {p \in DOMAIN tree : tree[p].value <= addr
                                                  /\ addr < tree[p].value + tree[p].size}
                        IN  IF covering = {} THEN search_symbol(tree, addr) = NULL
                            ELSE search_symbol(tree, addr) \in covering
      BY DEF SearchFindsCover
    <2>1. DOMAIN tree = 1 .. Len(tree)
      BY DEF Good
    <2>2. addr \in Nat
      OBVIOUS
    <2>3. LET covering == {p \in 1 .. Len(tree) : Covers(tree[p], addr)}
          IN  IF covering = {} THEN search_symbol(tree, addr) = NULL
              ELSE search_symbol(tree, addr) \in covering
      BY <2>1, <2>2, SearchFinds
    <2>. QED BY <2>1, <2>3 DEF Covers
  <1>. QED BY <1>1, AlwaysGood, PTL

-----------------------------------------------------------------------------
(* The depths. *)

\* The depths recorded for the open calls grow by one from call to call, and
\* the counter is one above the innermost of them once that call is not the
\* latest event.
Nested ==
  /\ depth \in 0 .. Max /\ more_deeper \in BOOLEAN
  /\ open \in Seq(0 .. Max)
  /\ \A i \in 1 .. Len(open) - 1 : open[i + 1] = Inc(open[i])
  /\ more_deeper => open # <<>>
  /\ open # <<>> => depth = IF more_deeper THEN Top(open) ELSE Inc(Top(open))

\* The counter is modular: one level down undoes one level up.
LEMMA DecInc == \A d \in 0 .. Max : Inc(d) \in 0 .. Max /\ Dec(d) \in 0 .. Max /\ Dec(Inc(d)) = d
  BY FtraceAssumption DEF Inc, Dec

\* What is appended is the last element, whatever the elements are.
IsSeq(s) == s \in Seq({s[i] : i \in 1 .. Len(s)})
LEMMA AppendTop ==
  ASSUME NEW s, IsSeq(s), NEW e
  PROVE  IsSeq(Append(s, e)) /\ Top(Append(s, e)) = e
  <1> DEFINE S == {s[i] : i \in 1 .. Len(s)} \cup {e}
             t == Append(s, e)
             T == {t[i] : i \in 1 .. Len(t)}
  <1>1. s \in Seq({s[i] : i \in 1 .. Len(s)})
    BY DEF IsSeq
  <1>2. {s[i] : i \in 1 .. Len(s)} \subseteq S /\ e \in S
    OBVIOUS
  <1>3. s \in Seq(S) /\ Len(s) \in Nat
    <2> HIDE DEF S
    <2>1. Len(s) \in Nat /\ s \in [1 .. Len(s) -> {s[i] : i \in 1 .. Len(s)}]
      BY <1>1, LenProperties
    <2>2. s \in [1 .. Len(s) -> S]
      BY <2>1, <1>2
    <2>. QED BY <2>1, <2>2, SeqDef
  <1>4. t \in Seq(S) /\ Len(t) = Len(s) + 1 /\ t[Len(s) + 1] = e
    BY <1>2, <1>3, AppendProperties
  <1>5. t \in [1 .. Len(t) -> S] /\ Len(t) \in Nat
    BY <1>4, LenProperties
  <1>6. t \in [1 .. Len(t) -> T]
    <2> HIDE DEF t, S
    <2>. QED BY <1>5
  <1>7. t \in Seq(T)
    BY <1>5, <1>6, SeqDef
  <1>. QED BY <1>3, <1>4, <1>7 DEF IsSeq, Top

LEMMA TopIn ==
  ASSUME NEW S, NEW s \in Seq(S), s # <<>>
  PROVE  Top(s) \in S /\ Len(s) \in Nat \ {0}
  BY DEF Top

LEMMA PopSeq ==
  ASSUME NEW S, NEW s \in Seq(S), s # <<>>
  PROVE  /\ Pop(s) \in Seq(S) /\ Len(Pop(s)) = Len(s) - 1
         /\ \A i \in 1 .. Len(s) - 1 : Pop(s)[i] = s[i]
  <1>1. Len(s) \in Nat /\ Len(s) # 0
    OBVIOUS
  <1>2. Pop(s) \in [1 .. Len(s) - 1 -> S]
    BY <1>1 DEF Pop
  <1>. QED BY <1>1, <1>2 DEF Pop

\* The depth of a node is the counter after the event, in the range of the type.
LEMMA DepthStep ==
  ASSUME Nested, NEW jtype \in {"call", "ret"}
  PROVE  /\ NewDepth(jtype) \in 0 .. Max
         /\ jtype = "ret" /\ open # <<>> => NewDepth(jtype) = Top(open)
         /\ jtype = "call" /\ open # <<>> => NewDepth(jtype) = Inc(Top(open))
  <1>1. open # <<>> => Top(open) \in 0 .. Max
    BY TopIn DEF Nested
  <1>. QED BY <1>1, DecInc DEF NewDepth, Nested

LEMMA NestedStep == Nested /\ [Next]_vars => Nested'
  <1> SUFFICES ASSUME Nested, [Next]_vars PROVE Nested'
    OBVIOUS
  <1>1. ASSUME NEW sections \in Sections, NEW symbols \in Symbols,
               init_ftrace(sections, symbols)
        PROVE  Nested'
    BY <1>1 DEF init_ftrace, Nested, Top
  <1>2. ASSUME NEW target \in Targets, trace("call", target)
        PROVE  Nested'
    <2> DEFINE d == NewDepth("call")
    <2>1. depth' = d /\ more_deeper' = TRUE /\ open' = Append(open, d)
      BY <1>2 DEF trace
    <2>2. d \in 0 .. Max /\ open \in Seq(0 .. Max) /\ Len(open) \in Nat
      BY DepthStep DEF Nested
    <2>3. open # <<>> => d = Inc(open[Len(open)])
      BY DepthStep DEF Top
    <2>4. \A i \in 1 .. Len(open) - 1 : open[i + 1] = Inc(open[i])
      BY DEF Nested
    <2> HIDE DEF d
    <2>5. /\ Len(open') = Len(open) + 1 /\ open' \in Seq(0 .. Max) /\ open' # <<>>
          /\ \A i \in 1 .. Len(open) : open'[i] = open[i]
          /\ open'[Len(open) + 1] = d
      BY <2>1, <2>2
    <2>6. ASSUME NEW i \in 1 .. Len(open') - 1 PROVE open'[i + 1] = Inc(open'[i])
      <3>1. CASE i = Len(open)
        <4>1. open # <<>>
          BY <3>1, <2>2, <2>5
        <4>. QED BY <3>1, <4>1, <2>2, <2>3, <2>5
      <3>2. CASE i # Len(open)
        <4>1. i \in 1 .. Len(open) - 1 /\ i + 1 \in 1 .. Len(open) /\ i \in 1 .. Len(open)
          BY <3>2, <2>2, <2>5
        <4>. QED BY <4>1, <2>4, <2>5
      <3>. QED BY <3>1, <3>2
    <2>7. depth' = Top(open')
      BY <2>1, <2>5 DEF Top
    <2>8. (\A i \in 1 .. Len(open) - 1 : open[i + 1] = Inc(open[i]))'
      BY <2>6 DEF Inc
    <2>. QED BY <2>1, <2>2, <2>5, <2>7, <2>8 DEF Nested
  <1>3. ASSUME NEW target \in Targets, trace("ret", target)
        PROVE  Nested'
    <2>1. /\ depth' = NewDepth("ret") /\ more_deeper' = FALSE
          /\ open' = IF open = <<>> THEN open ELSE Pop(open)
      BY <1>3 DEF trace
    <2>2. depth' \in 0 .. Max
      BY <2>1, DepthStep
    <2>3. CASE open = <<>>
      BY <2>1, <2>2, <2>3 DEF Nested, Top
    <2>4. CASE open # <<>>
      <3>1. /\ open' \in Seq(0 .. Max) /\ Len(open') = Len(open) - 1
            /\ \A i \in 1 .. Len(open) - 1 : open'[i] = open[i]
        BY <2>1, <2>4, PopSeq DEF Nested
      <3>2. depth' = open[Len(open)] /\ Len(open) \in Nat
        BY <2>1, <2>4, DepthStep DEF Nested, Top
      <3>3. \A i \in 1 .. Len(open) - 1 : open[i + 1] = Inc(open[i])
        BY DEF Nested
      <3>4. (\A i \in 1 .. Len(open) - 1 : open[i + 1] = Inc(open[i]))'
        BY <3>1, <3>2, <3>3 DEF Inc
      <3>5. ASSUME open' # <<>> PROVE depth' = Inc(Top(open'))
        <4>1. Len(open') # 0
          BY <3>1, <3>5
        <4>2. Len(open) - 1 \in 1 .. Len(open) - 1
          BY <4>1, <3>1, <3>2
        <4>3. open[Len(open)] = Inc(open[Len(open) - 1])
          BY <4>2, <3>2, <3>3
        <4>. QED BY <3>1, <3>2, <4>2, <4>3 DEF Top
      <3>6. (open # <<>> => depth = IF more_deeper THEN Top(open) ELSE Inc(Top(open)))'
        BY <2>1, <3>5 DEF Inc, Top
      <3>. QED BY <2>1, <2>2, <3>1, <3>4, <3>6 DEF Nested
    <2>. QED BY <2>3, <2>4
  <1>4. ASSUME NEW target \in Targets, trace_unknown(target)
        PROVE  Nested'
    BY <1>4 DEF trace_unknown, Nested, Inc, Top
  <1>5. CASE UNCHANGED vars
    BY <1>5 DEF vars, Nested, Inc, Top
  <1>. QED BY <1>1, <1>2, <1>3, <1>4, <1>5 DEF Next

LEMMA AlwaysNested == Spec => []Nested
  <1>1. Init => Nested
    <2>1. 0 \in 0 .. Max /\ <<>> \in Seq(0 .. Max) /\ Len(<<>>) = 0
      BY FtraceAssumption, EmptySeq
    <2>2. \A i \in 1 .. 0 - 1 : FALSE
      OBVIOUS
    <2>. QED BY <2>1, <2>2 DEF Init, Nested
  <1>. QED BY <1>1, NestedStep, PTL DEF Spec

\* Every return is recorded at the depth of the call it returns from.
THEOREM MatchingDepthCorrect == Spec => MatchingDepth
  <1> DEFINE Matches ==
        Len(head') > Len(head) /\ Top(head').jtype = "ret" /\ open # <<>>
          => Top(head').depth = Top(open)
  <1>1. Init => IsSeq(head)
    BY DEF Init, IsSeq
  <1>2. IsSeq(head) /\ [Next]_vars => IsSeq(head)'
    <2>1. ASSUME IsSeq(head), NEW jtype, NEW target, trace(jtype, target)
          PROVE  IsSeq(head)'
      <3> DEFINE node == make_ftracenode(jtype, tree[search_symbol(tree, target)].name)
      <3>1. head' = Append(head, node)
        BY <2>1 DEF trace
      <3>2. IsSeq(Append(head, node))
        BY <2>1, AppendTop
      <3>. QED BY <3>1, <3>2 DEF IsSeq
    <2>2. ASSUME IsSeq(head), head' = head PROVE IsSeq(head)'
      BY <2>2 DEF IsSeq
    <2>. QED BY <2>1, <2>2 DEF Next, trace_unknown, init_ftrace, vars
  <1>3. Nested /\ IsSeq(head) /\ [Next]_vars => [Matches]_vars
    <2> SUFFICES ASSUME Nested, IsSeq(head), Next, Len(head') > Len(head),
                        Top(head').jtype = "ret", open # <<>>
                 PROVE  Top(head').depth = Top(open)
      OBVIOUS
    <2>1. PICK jtype \in {"call", "ret"}, target \in Targets : trace(jtype, target)
      <3>1. Len(head) \in Nat
        BY DEF IsSeq
      <3>. QED BY <3>1 DEF Next, init_ftrace, trace_unknown
    <2>2. Top(head') = make_ftracenode(jtype, tree[search_symbol(tree, target)].name)
      BY <2>1, AppendTop DEF trace
    <2>3. jtype = "ret" /\ Top(head').depth = NewDepth(jtype)
      BY <2>2 DEF make_ftracenode
    <2>. QED BY <2>3, DepthStep
  <1>. QED BY <1>1, <1>2, <1>3, AlwaysNested, PTL DEF MatchingDepth, Spec
=============================================================================
