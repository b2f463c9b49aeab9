------------------------------- MODULE Ftrace -------------------------------
(***************************************************************************)
(* The function tracer of the simulation environment (ftrace.cpp): the tree *)
(* of function symbols read from the ELF file, and the list of traced calls *)
(* and returns with their nesting depth.  The file is compiled with          *)
(* CONFIG_FTRACE only and nothing calls make_ftracenode yet; the caller      *)
(* modelled here does what the header offers, look the target up and insert. *)
(*                                                                         *)
(* An ELF file is the sequence of the types of its sections and the symbols  *)
(* of its symbol table.  Of its string tables (all of type SHT_STRTAB) the   *)
(* symbol table means one, "STRTAB"; "SHSTRTAB" is another one.  A name is    *)
(* the table it was read from and the index of the symbol whose st_name it   *)
(* was read at.  A table fits into total_string (1280 bytes).                *)
(***************************************************************************)
EXTENDS Integers, Sequences

CONSTANTS
  Sections,  \* the section header tables read, sequences of section types
  Symbols,   \* the symbol tables read, sequences of Symbol
  Targets,   \* the addresses calls and returns go to
  Max,       \* the largest depth, UINT16_MAX in the code
  MaxTrace   \* bound: calls and returns traced

Symbol == [func : BOOLEAN, value : Nat, size : Nat]

StrTables == {"STRTAB", "SHSTRTAB"}

ASSUME FtraceAssumption ==
  /\ Symbols \subseteq Seq(Symbol)
  /\ Max \in Nat /\ MaxTrace \in Nat

NULL == 0

VARIABLES
  proc,         \* "start", "trace" after init_ftrace, "died" of an error
  tree,         \* the symbol nodes in order of insertion; the first is the root
  depth,        \* the static variables of make_ftracenode
  more_deeper,
  head,         \* the traced nodes, head_ftracelink is the last one
  open          \* ghost: the depths recorded for the calls not returned from

vars == <<proc, tree, depth, more_deeper, head, open>>

Init ==
  /\ proc = "start" /\ tree = <<>>
  /\ depth = 0 /\ more_deeper = FALSE
  /\ head = <<>> /\ open = <<>>

-----------------------------------------------------------------------------
(* The symbol tree. *)

\* Mutant: equal values go to the left.
GoesLeft_equal(node, value) == node.value >= value
GoesLeft(node, value) == node.value > value

make_symbol_node(name, sym) ==
  [value |-> sym.value, size |-> sym.size, name |-> name, left |-> NULL, right |-> NULL]

insert_symbol_link(t, name, sym) ==
  LET new == Len(t) + 1
      child(p) == IF GoesLeft(t[p], sym.value) THEN t[p].left ELSE t[p].right
      \* The node on the way from p down that has no child on the side to go.
      parent[p \in DOMAIN t] == IF child(p) = NULL THEN p ELSE parent[child(p)]
      side == IF GoesLeft(t[parent[1]], sym.value) THEN "left" ELSE "right"
  IN  Append(IF t = <<>> THEN t ELSE [t EXCEPT ![parent[1]][side] = new],
             make_symbol_node(name, sym))

\* Mutant: one byte more belongs to the function.
Covers_end(node, addr) == node.value <= addr /\ addr <= node.value + node.size
Covers(node, addr) == node.value <= addr /\ addr < node.value + node.size

\* The node that covers addr (the code returns its name), NULL when the way down
\* meets none.
search_symbol(t, addr) ==
  LET search[p \in 0 .. Len(t)] ==
        IF p = NULL THEN NULL
        ELSE IF Covers(t[p], addr) THEN p
        ELSE search[IF addr >= t[p].value + t[p].size THEN t[p].right ELSE t[p].left]
  IN  search[IF t = <<>> THEN NULL ELSE 1]

\* All function symbols, in the order of the table, named from string table tab.
Load(tab, symbols) ==
  LET tree_of[n \in 0 .. Len(symbols)] ==
        IF n = 0 THEN <<>>
        ELSE IF symbols[n].func
             THEN insert_symbol_link(tree_of[n - 1], <<tab, n>>, symbols[n])
        ELSE tree_of[n - 1]
  IN  tree_of[Len(symbols)]

\* The names come from the first string table of the file, whichever the symbol
\* table means.  Without a symbol table or a string table an assertion ends the
\* process.
init_ftrace(sections, symbols) ==
  LET isfirst(i) == /\ sections[i] \in StrTables
                    /\ \A j \in 1 .. i - 1 : sections[j] \notin StrTables
      symtab == \E i \in DOMAIN sections : sections[i] = "SYMTAB"
      strtab == \E i \in DOMAIN sections : sections[i] \in StrTables
  IN  /\ proc = "start"
      /\ \/ /\ symtab
            /\ \E i \in DOMAIN sections : isfirst(i) /\ tree' = Load(sections[i], symbols)
            /\ proc' = "trace"
         \/ /\ ~(symtab /\ strtab)
            /\ proc' = "died" /\ tree' = tree
      /\ UNCHANGED <<depth, more_deeper, head, open>>

-----------------------------------------------------------------------------
(* The trace. *)

\* uint16_t arithmetic.
Inc(d) == IF d = Max THEN 0 ELSE d + 1
Dec(d) == IF d = 0 THEN Max ELSE d - 1

\* Mutant: a return always goes one level up.
NewDepth_eager(jtype) ==
  CASE jtype = "call" -> IF more_deeper THEN Inc(depth) ELSE depth
    [] jtype = "ret"  -> Dec(depth)
\* The first call after a return, and the first return after a call, keep the
\* depth: the call is as deep as what has just returned, the return as deep as
\* the call it ends.
NewDepth(jtype) ==
  CASE jtype = "call" -> IF more_deeper THEN Inc(depth) ELSE depth
    [] jtype = "ret"  -> IF more_deeper THEN depth ELSE Dec(depth)

make_ftracenode(jtype, name) == [jtype |-> jtype, depth |-> NewDepth(jtype), name |-> name]

\* The last element of a stack, and the stack without it.
Top(s) == s[Len(s)]
Pop(s) == [i \in 1 .. Len(s) - 1 |-> s[i]]

trace(jtype, target) ==
  /\ proc = "trace" /\ Len(head) < MaxTrace
  /\ search_symbol(tree, target) # NULL
  /\ depth' = NewDepth(jtype) /\ more_deeper' = (jtype = "call")
  /\ head' = Append(head, make_ftracenode(jtype, tree[search_symbol(tree, target)].name))
  /\ open' = CASE jtype = "call" -> Append(open, NewDepth(jtype))
               [] jtype = "ret"  -> IF open = <<>> THEN open ELSE Pop(open)
  /\ UNCHANGED <<proc, tree>>

\* make_ftracenode copies the name it is given: no name is a null pointer.
trace_unknown(target) ==
  /\ proc = "trace" /\ search_symbol(tree, target) = NULL
  /\ proc' = "died"
  /\ UNCHANGED <<tree, depth, more_deeper, head, open>>

Next ==
  \/ \E sections \in Sections, symbols \in Symbols : init_ftrace(sections, symbols)
  \/ \E jtype \in {"call", "ret"}, target \in Targets : trace(jtype, target)
  \/ \E target \in Targets : trace_unknown(target)

Spec == Init /\ [][Next]_vars

-----------------------------------------------------------------------------
(* Properties. *)

\* The node found for a target is that of a function that contains it, and none
\* is found only when no function does, whatever the order of the symbols in the
\* file, when two functions do not overlap or are aliases of each other.
Separate(a, b) ==
  \/ a.value + a.size <= b.value \/ b.value + b.size <= a.value
  \/ a.value = b.value /\ a.size = b.size
Bound == 1 + (IF tree = <<>> THEN 0 ELSE
              CHOOSE m \in {tree[p].value + tree[p].size : p \in DOMAIN tree} :
                \A q \in DOMAIN tree : tree[q].value + tree[q].size <= m)
SearchFindsCover ==
  (\A p, q \in DOMAIN tree : Separate(tree[p], tree[q])) =>
    \A addr \in 0 .. Bound :
      LET covering == {p \in DOMAIN tree : tree[p].value <= addr
                                           /\ addr < tree[p].value + tree[p].size}
      IN  IF covering = {} THEN search_symbol(tree, addr) = NULL
          ELSE search_symbol(tree, addr) \in covering

\* A return is printed at the depth of the call it returns from, however calls
\* and returns nest and also when the depth wraps; returns without a call (the
\* trace starts inside a function) do not spoil the calls that follow.
MatchingDepth ==
  [][Len(head') > Len(head) /\ Top(head').jtype = "ret" /\ open # <<>>
       => Top(head').depth = Top(open)]_vars
=============================================================================
