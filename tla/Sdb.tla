--------------------------------- MODULE Sdb ---------------------------------
(***************************************************************************)
(* The debugger of the simulation environment: the command loop and its    *)
(* handlers (sdb.cpp), the pool of watchpoints (watchpoint.cpp), the loop   *)
(* that runs the design cycle by cycle and what the design calls back into  *)
(* (hart_exec.cpp), the exit status (sim_main.cpp).                         *)
(*                                                                         *)
(* Expressions are abstracted to what the evaluator does with the global    *)
(* bad_expr (module Expr is the evaluator): one token never writes it, a    *)
(* longer one clears it, a malformed one sets it, and a text that is not    *)
(* cut into tokens fails before the evaluator runs.                         *)
(***************************************************************************)
EXTENDS Integers

CONSTANTS
  NR_WP,     \* watchpoints in the pool (32 in the code)
  Single,    \* expressions of one token, as "$pc"
  Compound,  \* well-formed expressions of several tokens, as "$pc+4"
  Bad,       \* malformed expressions, as "(1"
  Unlexed    \* texts no rule of the lexer matches, as "?"

Wp    == 0 .. NR_WP - 1
Null  == -1
Valid == Single \cup Compound
Text  == Valid \cup Bad \cup Unlexed
Words == {0, 1}   \* the values an expression takes

ASSUME SdbAssumption ==
  /\ NR_WP \in Nat \ {0}
  /\ Single \cap Compound = {} /\ Valid \cap (Bad \cup Unlexed) = {}
  /\ Bad \cap Unlexed = {} /\ Unlexed # {}

VARIABLES
  proc,       \* "prompt": reads a command, "exec": in execute(), "closing": in
              \* sim_exit(), "exit": main has returned, "died": in an assertion
  batch_opt,  \* is_batch_mode of sdb.cpp: the option --batch
  batch,      \* is_batch_mode of hart_exec.cpp: the last run was "continue"
  state,      \* sim_state.state without its SIM_ prefix
  halt_ret,   \* sim_state.halt_ret
  pool,       \* [head, free, next]: the lists of used and of free watchpoints
  expression, \* expression[n] of watchpoint n
  old_val,    \* old_val[n]
  bad_expr,   \* the flag of the evaluator
  value       \* value[x]: what x evaluates to in the present state of the design

vars == <<proc, batch_opt, batch, state, halt_ret, pool, expression, old_val,
          bad_expr, value>>

\* All watchpoints are free, linked in the order of the array.
init_wp_pool == [head |-> Null, free |-> 0,
                 next |-> [n \in Wp |-> IF n = NR_WP - 1 THEN Null ELSE n + 1]]

Init ==
  /\ proc = "prompt" /\ batch_opt \in BOOLEAN /\ batch = FALSE
  /\ state = "STOP" /\ halt_ret = 0
  /\ pool = init_wp_pool
  /\ expression \in {[n \in Wp |-> t] : t \in Unlexed}   \* the empty text
  /\ old_val = [n \in Wp |-> 0]
  /\ bad_expr = FALSE
  /\ value = [x \in Valid |-> 0]

-----------------------------------------------------------------------------
(* The pool. *)

\* The watchpoints met from p on: the k-th of them, Null behind the last.
Walk(p) ==
  LET at[k \in 0 .. NR_WP] ==
        IF k = 0 THEN p
        ELSE IF at[k - 1] = Null THEN Null ELSE pool.next[at[k - 1]]
  IN  at
Used == {Walk(pool.head)[k] : k \in 0 .. NR_WP} \ {Null}

\* Defined for free # Null only: new_wp asserts it.
NewWp == [head |-> pool.free, free |-> pool.next[pool.free],
          next |-> [pool.next EXCEPT ![pool.free] = pool.head]]

\* Mutant: the watchpoint before wp in the list of used ones keeps its link.
FreeWp_linked(p, wp) ==
  [head |-> IF wp = p.head THEN p.next[wp] ELSE p.head,
   free |-> wp,
   next |-> [p.next EXCEPT ![wp] = p.free]]
FreeWp(p, wp) ==
  [head |-> IF wp = p.head THEN p.next[wp] ELSE p.head,
   free |-> wp,
   next |-> [n \in Wp |-> IF n = wp THEN p.free
                          ELSE IF p.next[n] = wp THEN p.next[wp] ELSE p.next[n]]]

(* The evaluator, with the value b of bad_expr before it. *)

\* Mutant: a well-formed expression fails after a malformed one.
Success_sticky(x, b) == x \in Valid /\ ~b
Success(x, b)  == x \in Compound \/ (x \in Single /\ ~b)
BadAfter(x, b) == x \in Bad \/ (x \in Single \cup Unlexed /\ b)

\* traverse_check_trigger in a design whose expressions have the values v: what
\* watchpoint n makes of acc, and the result.
Visit(v, acc, n) ==
  LET x   == expression[n]
      hit == Success(x, acc.bad) /\ v[x] # acc.old[n]
  IN  [bad |-> BadAfter(x, acc.bad),
       trigger |-> acc.trigger \/ hit,
       old |-> IF hit THEN [acc.old EXCEPT ![n] = v[x]] ELSE acc.old]
Traverse(v) ==
  LET at == Walk(pool.head)
      after[k \in 0 .. NR_WP] ==
        IF k = 0 THEN [bad |-> bad_expr, trigger |-> FALSE, old |-> old_val]
        ELSE IF at[k - 1] = Null THEN after[k - 1]
        ELSE Visit(v, after[k - 1], at[k - 1])
  IN  after[NR_WP]

-----------------------------------------------------------------------------
(* Commands.  With --batch the loop runs "continue" and returns. *)

Prompt == proc = "prompt" /\ ~batch_opt
not_run == <<batch_opt, halt_ret, pool, expression, old_val, bad_expr, value>>

\* Mutant: an ended program is run again.
hart_exec_again(continue) ==
  /\ state' = "RUNNING" /\ proc' = "exec" /\ batch' = continue
  /\ UNCHANGED not_run
hart_exec(continue) ==
  /\ state # "ABORT"     \* otherwise a message and nothing else
  /\ state' = "RUNNING" /\ proc' = "exec" /\ batch' = continue
  /\ UNCHANGED not_run

cmd_c  == proc = "prompt" /\ hart_exec(TRUE)
cmd_si == Prompt /\ hart_exec(FALSE)    \* si N makes one step, whatever N

\* Mutant: the watchpoint of a failed expression stays in use.
cmd_w_kept(x) ==
  /\ Prompt /\ pool.free # Null
  /\ pool' = NewWp
  /\ expression' = [expression EXCEPT ![pool.free] = x]
  /\ old_val' = [old_val EXCEPT ![pool.free] =
                   IF Success(x, bad_expr) THEN value[x] ELSE 0]
  /\ bad_expr' = BadAfter(x, bad_expr)
  /\ UNCHANGED <<proc, batch_opt, batch, state, halt_ret, value>>
cmd_w(x) ==
  /\ Prompt /\ pool.free # Null
  /\ pool' = IF Success(x, bad_expr) THEN NewWp ELSE FreeWp(NewWp, pool.free)
  /\ expression' = [expression EXCEPT ![pool.free] = x]
  /\ old_val' = [old_val EXCEPT ![pool.free] =
                   IF Success(x, bad_expr) THEN value[x] ELSE 0]
  /\ bad_expr' = BadAfter(x, bad_expr)
  /\ UNCHANGED <<proc, batch_opt, batch, state, halt_ret, value>>

\* The assertion of new_wp.
cmd_w_full ==
  /\ Prompt /\ pool.free = Null
  /\ proc' = "died"
  /\ UNCHANGED <<batch_opt, batch, state, halt_ret, pool, expression, old_val,
                 bad_expr, value>>

cmd_d(n) ==
  /\ Prompt /\ n \in Used
  /\ pool' = FreeWp(pool, n)
  /\ UNCHANGED <<proc, batch_opt, batch, state, halt_ret, expression, old_val,
                 bad_expr, value>>

\* p EXPR and x N EXPR: of the state, only the flag of the evaluator changes.
cmd_p(x) ==
  /\ Prompt
  /\ bad_expr' = BadAfter(x, bad_expr)
  /\ UNCHANGED <<proc, batch_opt, batch, state, halt_ret, pool, expression,
                 old_val, value>>

Leave(s) ==
  /\ Prompt
  /\ proc' = "closing" /\ state' = s
  /\ UNCHANGED <<batch_opt, batch, halt_ret, pool, expression, old_val, bad_expr,
                 value>>
cmd_q     == Leave("QUIT")
EndOfInput == Leave(state)

-----------------------------------------------------------------------------
(* One cycle of the design, in execute().  The design reports illegal opcodes *)
(* of the decoders (illegal) and retired instructions (hart_commitInst), in   *)
(* whatever order its processes run; a call repeated changes nothing.         *)

Calls == {"none", "illegal", "commit"}

\* Mutant: a retired instruction ends a "continue" as well.
Called_always_stop(s, call) ==
  CASE call = "illegal" -> "ABORT"
    [] call = "commit"  -> "STOP"
    [] call = "none"    -> s
Called(s, call) ==
  CASE call = "illegal" -> "ABORT"
    [] call = "commit"  -> IF batch THEN s ELSE "STOP"
    [] call = "none"    -> s

Cycle ==
  /\ proc = "exec"
  /\ \E first, second \in Calls, v \in [Valid -> Words] :
       LET check == Traverse(v)
       IN  /\ state' = IF check.trigger THEN "STOP"
                       ELSE Called(Called("RUNNING", first), second)
           /\ halt_ret' = IF "illegal" \in {first, second} THEN -1 ELSE halt_ret
           /\ value' = v
           /\ old_val' = check.old
           /\ bad_expr' = check.bad
  /\ proc' = IF state' = "RUNNING" THEN "exec"
             ELSE IF batch_opt THEN "closing" ELSE "prompt"
  /\ UNCHANGED <<batch_opt, batch, pool, expression>>

\* One more edge of the clock behind the last command: the state it leaves is the
\* one main makes the exit status of.  No expression is evaluated any more.
sim_exit ==
  /\ proc = "closing"
  /\ \E first, second \in Calls :
       /\ state' = Called(Called(state, first), second)
       /\ halt_ret' = IF "illegal" \in {first, second} THEN -1 ELSE halt_ret
  /\ proc' = "exit"
  /\ UNCHANGED <<batch_opt, batch, pool, expression, old_val, bad_expr, value>>

Next ==
  \/ cmd_c \/ cmd_si \/ cmd_q \/ EndOfInput \/ cmd_w_full
  \/ \E x \in Text : cmd_w(x) \/ cmd_p(x)
  \/ \E n \in Wp : cmd_d(n)
  \/ Cycle \/ sim_exit

Spec == Init /\ [][Next]_vars

-----------------------------------------------------------------------------
(* Properties. *)

\* However watchpoints are set, refused and deleted, each of them is on exactly
\* one of the two lists, once: none is lost, none is both free and in use.
Places == {"head", "free"} \X (0 .. NR_WP)
PoolPartition ==
  \A n \in Wp : \E place \in Places :
    \A q \in Places : Walk(pool[q[1]])[q[2]] = n <=> q = place

\* The expression of every watchpoint in use is one that was evaluated with
\* success when it was set: a refused one leaves nothing behind in the list.
UsedAreValid == \A n \in Used : expression[n] \in Valid

\* The value saved for comparison (old_val) of a watchpoint on an expression of
\* several tokens is the present value whenever the design does not move, so no
\* change goes unnoticed, whatever was typed between two runs.
CompoundNotMissed ==
  \A n \in Used : expression[n] \in Compound => old_val[n] = value[expression[n]]

\* A program that has ended in ABORT is not run again, whatever is typed: the
\* only way on is out, where the edge of sim_exit may still write the state.
AbortIsFinal ==
  [][state = "ABORT" /\ proc # "closing" => state' \in {"ABORT", "QUIT"}]_vars

\* "continue" comes back to the prompt only because a watchpoint has seen a
\* change or an opcode was illegal, also when single steps preceded it.
ContinueStopsForCause ==
  [][proc = "exec" /\ batch /\ proc' # "exec"
       => state' = "ABORT" \/ \E n \in Used : old_val'[n] # old_val[n]]_vars

=============================================================================
