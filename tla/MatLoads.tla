------------------------------ MODULE MatLoads ------------------------------
(***************************************************************************)
(* What the matrix load/store queue promises, without rows, columns,       *)
(* freezing or arbitration: an accepted instruction holds a place until    *)
(* the LSU has popped the beats it asked for, each beat counts once, and   *)
(* the place is given up in the step after the last one, or all are given  *)
(* up together by a flush.                                                 *)
(***************************************************************************)
EXTENDS Integers

CONSTANTS Place,    \* the places of the queue
          Amounts   \* a set of naturals: the beats an instruction can ask for

VARIABLES live, todo  \* occupied places; beats each of them is still to be popped
lvars == <<live, todo>>

Init == live = {} /\ todo = [p \in Place |-> 0]

\* new: places taken in this step, back: places a beat is popped for.
Step(new, back, n) ==
  /\ new \cap live = {}
  /\ \A p \in back : todo[p] > 0
  /\ live' = {p \in live : todo[p] > 0} \cup new
  /\ todo' = [p \in Place |-> IF p \in new THEN n
                              ELSE IF p \in back THEN todo[p] - 1 ELSE todo[p]]

Flush == live' = {} /\ todo' = [p \in Place |-> 0]

OneOrNone == {S \in SUBSET Place : \A p, q \in S : p = q}

Next == \/ \E new \in OneOrNone, back \in OneOrNone, n \in Amounts : Step(new, back, n)
        \/ Flush

Spec == Init /\ [][Next]_lvars
=============================================================================
