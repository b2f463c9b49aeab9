-------------------------------- MODULE Expr --------------------------------
(***************************************************************************)
(* The expression evaluator of the debugger (expr.cpp): parentheses,       *)
(* search of the main operator, evaluation, and the global flag bad_expr    *)
(* that carries a failure from one function to another, and from one        *)
(* expression to the next.                                                  *)
(*                                                                         *)
(* The user types one token after the other and enters the expression.      *)
(* Blanks, the regular expressions of the tokens and the conversion of      *)
(* digits are left out; registers are numbers here.  "?" is a character no   *)
(* rule matches.                                                            *)
(***************************************************************************)
EXTENDS Integers, FiniteSets, Sequences, FiniteSetsExt

CONSTANTS
  Number,  \* number[t]: the value of each token that is a number
  Ops,     \* bound: the operators that are typed
  Modulus, \* words are computed modulo this (2^64 in the code)
  MaxLen,  \* bound: tokens of an expression
  AnyLen   \* bound: tokens of an expression that is malformed from its start

Numbers == DOMAIN Number
Binary  == {"+", "-", "*", "/", "==", "!=", "&&"}
Tokens  == Numbers \cup Ops \cup {"(", ")", "?"}

ASSUME ExprAssumption ==
  /\ \A t \in Numbers : Number[t] \in 0 .. Modulus - 1
  /\ Ops \subseteq Binary
  /\ Numbers \cap (Binary \cup {"(", ")", "?", "deref"}) = {}
  /\ Modulus \in Nat /\ Modulus > 1 /\ MaxLen \in Nat /\ AnyLen \in Nat

VARIABLES
  tokens,    \* the tokens typed
  bad_expr,  \* the flag
  result     \* what expr returned: [end, val], end = "none" while typing

vars == <<tokens, bad_expr, result>>

Typing == [end |-> "none", val |-> 0]

Init == tokens = <<>> /\ bad_expr = FALSE /\ result = Typing

-----------------------------------------------------------------------------
(* Parentheses.  depth(t, p, i): open parentheses in t[p..i]. *)

count(t, p, i, c) == Cardinality({j \in p .. i : t[j] = c})
depth(t, p, i) == count(t, p, i, "(") - count(t, p, i, ")")

bracketed(t, p, q) == t[p] = "(" /\ t[q] = ")"
\* check_parentheses returns true: one pair surrounds everything between.
surrounded(t, p, q) ==
  /\ bracketed(t, p, q) /\ depth(t, p, q) = 0
  /\ \A i \in p .. q - 1 : depth(t, p, i) > 0
\* check_parentheses leaves this in bad_expr, whatever it was before.
unbalanced(t, p, q) ==
  /\ bracketed(t, p, q)
  /\ depth(t, p, q) # 0 \/ \E i \in p .. q : depth(t, p, i) < 0

(* The main operator. *)

operators(t, p, q) == {i \in p .. q : t[i] \notin Numbers \cup {"(", ")"}}
opens(t, p, i)  == {j \in p .. i - 1 : t[j] = "("}
closes(t, i, q) == {k \in i + 1 .. q : t[k] = ")"}
enclosed(t, p, q, i) ==
  \E j \in opens(t, p, i), k \in closes(t, i, q) : surrounded(t, j, k)

\* Mutant: only an operator that binds less tightly does.
replaces_looser(m, c) ==
  CASE m = "&&"          -> FALSE
    [] m \in {"==", "!="} -> c = "&&"
    [] m \in {"+", "-"}   -> c \notin {"+", "-", "*", "/", "deref"}
    [] m \in {"*", "/"}   -> c \notin {"*", "/", "deref"}
    [] OTHER              -> TRUE
\* May operator c, to the right, take the place of the main operator m found so
\* far?  An operator that binds no tighter does.
replaces(m, c) ==
  CASE m = "&&"          -> c = "&&"
    [] m \in {"==", "!="} -> c \in {"&&", "==", "!="}
    [] m \in {"+", "-"}   -> c \notin {"*", "/", "deref"}
    [] m \in {"*", "/"}   -> c # "deref"
    [] OTHER              -> TRUE

\* The main operator of t[p..q], 0 when there is none: what is left of the scan.
main_op(t, p, q) ==
  LET scan[i \in p - 1 .. q] ==
        IF i < p THEN 0
        ELSE LET m == scan[i - 1]
             IN  IF /\ i \in operators(t, p, q) /\ ~enclosed(t, p, q, i)
                    /\ m = 0 \/ replaces(t[m], t[i])
                 THEN i ELSE m
  IN  scan[q]

\* The scan calls check_parentheses for pairs around each operator, in order and
\* up to the first that surrounds it; the flag is left by the last call.
scan_flag(t, p, q, b) ==
  LET calling == {i \in operators(t, p, q) :
                    opens(t, p, i) # {} /\ closes(t, i, q) # {}}
      last    == Max(calling)
  IN  IF calling = {} THEN b
      ELSE /\ ~enclosed(t, p, q, last)
           /\ unbalanced(t, Max(opens(t, p, last)), Max(closes(t, last, q)))

-----------------------------------------------------------------------------
(* Evaluation of t[p..q] with the flag b: the value, the flag after it and     *)
(* whether the process died (assertion or division by zero).                  *)

Word(x) == x % Modulus

Apply(op, a, b) ==
  CASE op = "+"  -> Word(a + b)
    [] op = "-"  -> Word(a - b)
    [] op = "*"  -> Word(a * b)
    [] op = "/"  -> IF b = 0 THEN 0 ELSE a \div b
    [] op = "==" -> IF a = b THEN 1 ELSE 0
    [] op = "!=" -> IF a # b THEN 1 ELSE 0
    [] op = "&&" -> IF a # 0 /\ b # 0 THEN 1 ELSE 0

\* The value of a single token.
literal(c) == IF c \in Numbers THEN Number[c] ELSE 0

Dead == [val |-> 0, bad |-> FALSE, dead |-> TRUE]

\* eval(t)[<<p, q, b>>]
eval(t) ==
  LET ev[s \in (1 .. Len(t) + 1) \X (0 .. Len(t)) \X BOOLEAN] ==
        LET p == s[1]  q == s[2]  m == main_op(t, p, q)
        IN  IF p > q THEN Dead
            ELSE IF p = q THEN [val |-> literal(t[p]), bad |-> s[3], dead |-> FALSE]
            ELSE IF surrounded(t, p, q) THEN ev[<<p + 1, q - 1, FALSE>>]
            ELSE IF unbalanced(t, p, q) \/ m = 0
            THEN [val |-> 0, bad |-> TRUE, dead |-> FALSE]
            ELSE LET left  == ev[<<p, m - 1, scan_flag(t, p, q, FALSE)>>]
                     right == ev[<<m + 1, q, left.bad>>]
                 IN  IF \/ t[m] = "deref" \/ left.dead \/ right.dead
                        \/ t[m] = "/" /\ right.val = 0
                     THEN Dead
                     ELSE [val |-> Apply(t[m], left.val, right.val),
                           bad |-> right.bad, dead |-> FALSE]
  IN  ev

\* A star where an operand is expected becomes a dereference, which eval does
\* not implement.  It is no operator any more when the next token is looked at, so
\* every second star of a row of them becomes one: the first, where the row (from
\* j) stands for an operand, otherwise the second.
converted(t, i) ==
  \E j \in 1 .. i :
    LET operand == j = 1 \/ t[j - 1] \in Binary \cup {"("}
    IN  /\ \A k \in j .. i : t[k] = "*"
        /\ j = 1 \/ t[j - 1] # "*"
        /\ (i - j) % 2 = IF operand THEN 0 ELSE 1
dereferences(t) == [i \in DOMAIN t |-> IF converted(t, i) THEN "deref" ELSE t[i]]

expr ==
  /\ result.end = "none"
  /\ IF \E i \in DOMAIN tokens : tokens[i] = "?"
     THEN result' = [end |-> "fail", val |-> 0] /\ bad_expr' = bad_expr
     ELSE LET r == eval(dereferences(tokens))[<<1, Len(tokens), bad_expr>>]
          IN  /\ bad_expr' = r.bad
              /\ result' = IF r.dead THEN [end |-> "dead", val |-> 0]
                           ELSE IF r.bad THEN [end |-> "fail", val |-> 0]
                           ELSE [end |-> "ok", val |-> r.val]
  /\ UNCHANGED tokens

\* Beginnings of well-formed expressions: operands and operators alternate and
\* no parenthesis closes that was not opened.
Starts(t) ==
  \A i \in DOMAIN t :
    LET operand == i = 1 \/ t[i - 1] \in Binary \cup {"("}
    IN  /\ t[i] \in (IF operand THEN Numbers \cup {"("} ELSE Binary \cup {")"})
        /\ depth(t, 1, i) >= 0
Ends(t) == t # <<>> /\ t[Len(t)] \in Numbers \cup {")"}

\* MaxLen leaves place to complete t.
Completable(t) ==
  Starts(t) /\ Len(t) + depth(t, 1, Len(t)) + (IF Ends(t) THEN 0 ELSE 1) <= MaxLen

Type(c) ==
  /\ result.end = "none" /\ Len(tokens) < MaxLen
  /\ Len(tokens) < AnyLen \/ Completable(Append(tokens, c))
  /\ tokens' = Append(tokens, c)
  /\ UNCHANGED <<bad_expr, result>>

\* The next command; the global flag stays.
Again ==
  /\ result.end \in {"ok", "fail"}
  /\ tokens' = <<>> /\ result' = Typing
  /\ UNCHANGED bad_expr

Next == expr \/ Again \/ \E c \in Tokens : Type(c)
Spec == Init /\ [][Next]_vars

-----------------------------------------------------------------------------
(* The reference: the grammar of expressions with the binding of C.            *)

WellFormed(t) == Ends(t) /\ Starts(t) /\ depth(t, 1, Len(t)) = 0

Level == [c \in Binary |-> IF c = "&&" THEN 1
                           ELSE IF c \in {"==", "!="} THEN 2
                           ELSE IF c \in {"+", "-"} THEN 3 ELSE 4]

\* The operator that is applied last: outside all parentheses, of the loosest
\* level, the rightmost of those.
Root(t, p, q) ==
  LET outer == {i \in p .. q : t[i] \in Binary /\ depth(t, p, i) = 0}
      loose == {i \in outer : \A j \in outer : Level[t[i]] <= Level[t[j]]}
  IN  IF outer = {} THEN 0 ELSE Max(loose)

\* Meaning(t)[<<p, q>>]: the value of t[p..q], and whether nothing in it is
\* divided by 0.
Meaning(t) ==
  LET mean[s \in (1 .. Len(t) + 1) \X (0 .. Len(t))] ==
        LET p == s[1]  q == s[2]  m == Root(t, p, q)
            left  == mean[<<p, m - 1>>]
            right == mean[<<m + 1, q>>]
        IN  IF p >= q THEN [val |-> literal(t[p]), defined |-> TRUE]
            ELSE IF m = 0 THEN mean[<<p + 1, q - 1>>]
            ELSE [val |-> Apply(t[m], left.val, right.val),
                  defined |-> /\ left.defined /\ right.defined
                              /\ t[m] = "/" => right.val # 0]
  IN  mean

Reference == Meaning(tokens)[<<1, Len(tokens)>>]

-----------------------------------------------------------------------------
(* Properties. *)

\* A well-formed expression of several tokens is accepted, whatever failed before
\* it, and has the value C gives it; it kills the process only by dividing by 0,
\* which it does where C would not look: both sides of "&&" are always evaluated.
ValuesAgree ==
  WellFormed(tokens) /\ Len(tokens) > 1 /\ result.end # "none" =>
    result = IF Reference.defined THEN [end |-> "ok", val |-> Reference.val]
                                  ELSE [end |-> "dead", val |-> 0]
=============================================================================
