------------------------------- MODULE MCExpr -------------------------------
(* An instance of Expr for TLC. *)
EXTENDS Expr

\* Two numbers tell the orders of evaluation apart; 0 makes divisions fail.
MCNumber == [c \in {"0", "3"} |-> IF c = "0" THEN 0 ELSE 3]
=============================================================================
