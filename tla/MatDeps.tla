------------------------------ MODULE MatDeps -------------------------------
(***************************************************************************)
(* The matrix register dependencies of the matrix issue queue: the table of *)
(* the youngest writers (mreg_effected_mapping.sv), the dependency registers*)
(* of the entries (ct_mat_idu_is_miq_entry.sv) and the wakeups of the two   *)
(* units behind.  The queue is MatIssueQueue: what is an input there, which *)
(* operands are ready, is computed here for the matrix operands.            *)
(*                                                                         *)
(* A reader may start when the writer has started, because both work row by *)
(* row: the unit sends a line wakeup.  The second source of an accumulation *)
(* is read as a whole and waits for the finish.  Flushes are left out.      *)
(***************************************************************************)
EXTENDS MatIssueQueue

CONSTANTS
  Regs,    \* matrix registers (8 in the code)
  Ops,     \* the operands of the instructions that are dispatched
  Cases    \* which coincidences happen, a subset of Coincidences

NoReg == -1
NoEntry == -1

\* "stall": dispatch stalls with matrix instructions in it; "wakeup": a unit
\* wakes or finishes an entry in a cycle of a creation; "stale": an instruction
\* enters the entry, and writes the register, that the registers of the
\* arithmetic unit still name; "busy": an accumulation is created whose second
\* source an arithmetic instruction has started, and not finished, to write.
Coincidences == {"stall", "wakeup", "stale", "busy"}

\* src2 is the destination of an accumulation, read before it is written.
Op == [kind : {"cal", "lsu"}, dst : Regs \cup {NoReg},
       src0 : Regs \cup {NoReg}, src1 : Regs \cup {NoReg}, src2 : Regs \cup {NoReg}]
NoOp == [kind |-> "none", dst |-> NoReg, src0 |-> NoReg, src1 |-> NoReg, src2 |-> NoReg]

ASSUME DepsAssumption ==
  /\ Regs \subseteq Nat /\ Regs # {}
  /\ Ops \subseteq Op /\ Cases \subseteq Coincidences
  /\ "flush" \notin Allowed /\ N <= 16

VARIABLES
  op,       \* the operands in the data registers of each entry
  dis_op,   \* the operands of the stalled instructions
  table,    \* mreg_effected_map_table: the entry of the youngest writer
  depd,     \* depd[e][k]: the entry that source k of e waits for
  dstm,     \* dstm_depd_vec: the entries that read what e overwrites
  alu_ex1,  \* mat_alu_ex1_inst_vld
  alu_dst,  \* mat_alu_ex1_dstm_idx, NoReg until the first instruction
  open,     \* ghost: the instructions that are not finished
  before,   \* ghost: before[e]: those of them before e in program order
  started,  \* ghost: those of them that have started
  writer,   \* ghost: the youngest writer of each register until it finishes
  raw, war  \* ghosts: what e must wait for, as <<entry, "start" or "finish">>

deps == <<op, dis_op, table, depd, dstm, alu_ex1, alu_dst, open, before,
          started, writer, raw, war>>
Sources == {"src0", "src1", "src2"}
NoDeps == [k \in Sources |-> NoEntry]

DInit ==
  /\ Init
  /\ op = [e \in Entry |-> NoOp] /\ dis_op = <<>>
  /\ table = [r \in Regs |-> NoEntry]
  /\ depd = [e \in Entry |-> NoDeps] /\ dstm = [e \in Entry |-> {}]
  /\ alu_ex1 = FALSE /\ alu_dst = NoReg
  /\ open = {} /\ before = [e \in Entry |-> {}] /\ started = {}
  /\ writer = [r \in Regs |-> NoEntry] /\ raw = [e \in Entry |-> {}]
  /\ war = [e \in Entry |-> {}]

-----------------------------------------------------------------------------
(* Signals. *)

reads(o) == {o[k] : k \in Sources} \ {NoReg}
matrix_src_dest_rdy == {e \in vld \ frz : depd[e] = NoDeps /\ dstm[e] = {}}
macc_type(o) == o.kind = "cal" /\ o.src2 # NoReg

\* Line wakeups and finishes, as sets of entry indices.
line_wakeup(wake) == (IF wake = {} THEN {} ELSE {Idx(wake)})
                     \cup (IF alu_ex1 THEN {Idx(alu_iq)} ELSE {})
mat_finish(fin) == (IF fin = {} THEN {} ELSE {Idx(fin)})
                   \cup (IF alu_finish THEN {Idx(alu_iq)} ELSE {})

\* The entry a creation writes into the table; with no free entry, or when the
\* queue is full, the index is 0.
widx(ins, k) == IF dp_en(ins, k) THEN Idx(IF k = 1 THEN create0_in ELSE create1_in) ELSE 0

\* The clear of the arithmetic unit is not qualified by its finish.
Cleared(r, fin) ==
  \/ \E e \in fin : op[e].dst = r /\ table[r] = Idx(fin)
  \/ alu_dst = r /\ table[r] = Idx(alu_iq)

\* Written while dispatch stalls, too; the younger instruction has priority.
Table(ops, fin) ==
  [r \in Regs |->
     IF Len(ops) >= 2 /\ ops[2].dst = r THEN widx(ops, 2)
     ELSE IF Len(ops) >= 1 /\ ops[1].dst = r THEN widx(ops, 1)
     ELSE IF Cleared(r, fin) THEN NoEntry ELSE table[r]]

-----------------------------------------------------------------------------
(* The dependency registers of the entries. *)

Created(ops, e) == ops[IF from1(ops, e) THEN 2 ELSE 1]
Lookup(r) == IF r = NoReg THEN NoEntry ELSE table[r]

\* Mutant: the second source of an accumulation is woken by a line.
Depd_line(ops, stall, fin, wake) ==
  [e \in Entry |-> [k \in Sources |->
     IF e \in create_en(ops, stall) THEN Lookup(Created(ops, e)[k])
     ELSE IF depd[e][k] \in mat_finish(fin) \cup line_wakeup(wake) THEN NoEntry
     ELSE depd[e][k]]]
\* Mutant: a finish does not wake.
Depd_no_finish(ops, stall, fin, wake) ==
  [e \in Entry |-> [k \in Sources |->
     IF e \in create_en(ops, stall) THEN Lookup(Created(ops, e)[k])
     ELSE IF ~(k = "src1" /\ macc_type(op[e])) /\ depd[e][k] \in line_wakeup(wake)
     THEN NoEntry ELSE depd[e][k]]]
Depd(ops, stall, fin, wake) ==
  [e \in Entry |-> [k \in Sources |->
     IF e \in create_en(ops, stall) THEN Lookup(Created(ops, e)[k])
     ELSE IF depd[e][k] \in mat_finish(fin) \cup
               (IF k = "src1" /\ macc_type(op[e]) THEN {} ELSE line_wakeup(wake))
     THEN NoEntry ELSE depd[e][k]]]

\* Mutant: a destination is compared with the destinations of the queue.
create_match_dst(r) == {f \in vld : op[f].dst = r}
\* id_dstm_idx_create_match: the valid entries that read register r.
create_match(r) == {f \in vld : r \in reads(op[f])}

\* The branches of one if: the first event of the cycle is seen.
Dstm(ops, stall, fin, wake) ==
  [e \in Entry |->
     IF e \in create_en(ops, stall) THEN create_match(Created(ops, e).dst)
     ELSE dstm[e] \ (IF wake # {} THEN {Idx(wake)}
                     ELSE IF alu_ex1 THEN {Idx(alu_iq)}
                     ELSE IF fin # {} THEN {Idx(fin)}
                     ELSE mat_finish(fin))]

-----------------------------------------------------------------------------
(* Ghosts: the dependencies of the program.  An instruction starts with its *)
(* first wakeup.                                                            *)

begun(wake) == wake \cup (IF alu_ex1 THEN alu_iq ELSE {})
ended(fin)  == fin \cup (IF alu_finish THEN alu_iq ELSE {})

\* The unfinished instructions before creation k.
Older(k, fin) == (open \ ended(fin)) \cup (IF k = 2 THEN create0_in ELSE {})
OpOf(ops, f) == IF f \in create0_in THEN ops[1] ELSE op[f]
\* The youngest writer of register r, nobody when it has finished.
Writer(ops, k, fin, r) ==
  IF r = NoReg THEN {}
  ELSE IF k = 2 /\ ops[1].dst = r THEN create0_in
  ELSE {writer[r]} \ (ended(fin) \cup {NoEntry})
Readers(ops, k, fin, r) ==
  {f \in Older(k, fin) : r \in reads(OpOf(ops, f))}

Raw(ops, k, fin, wake) ==
  LET o == ops[k]
      writers == UNION {Writer(ops, k, fin, r) : r \in reads(o)}
  IN  {<<w, "start">> : w \in writers \ (started \cup begun(wake))}
      \cup {<<w, "finish">> : w \in IF macc_type(o) THEN Writer(ops, k, fin, o.src1) ELSE {}}
War(ops, k, fin, wake) ==
  {<<f, "start">> : f \in Readers(ops, k, fin, ops[k].dst) \ (started \cup begun(wake))}

Done(waits, fin, wake) ==
  {w \in waits : w[1] \notin ended(fin) /\ (w[2] = "start" => w[1] \notin begun(wake))}

Ghosts(ops, stall, fin, wake) ==
  LET created(e) == e \in create_en(ops, stall)
      nth(e) == IF from1(ops, e) THEN 2 ELSE 1
  IN  /\ open' = (open \ ended(fin)) \cup create_en(ops, stall)
      /\ before' = [e \in Entry |-> IF created(e) THEN Older(nth(e), fin)
                                   ELSE before[e] \ ended(fin)]
      /\ started' = ((started \cup begun(wake)) \ ended(fin)) \ create_en(ops, stall)
      /\ writer' = [r \in Regs |->
           LET new == {k \in 1 .. creates(ops, stall) : ops[k].dst = r}
           IN  IF 2 \in new THEN CHOOSE e \in create1_in : TRUE
               ELSE IF 1 \in new THEN CHOOSE e \in create0_in : TRUE
               ELSE IF writer[r] \in ended(fin) THEN NoEntry ELSE writer[r]]
      /\ raw' = [e \in Entry |-> IF created(e) THEN Raw(ops, nth(e), fin, wake)
                                ELSE Done(raw[e], fin, wake)]
      /\ war' = [e \in Entry |-> IF created(e) THEN War(ops, nth(e), fin, wake)
                                ELSE Done(war[e], fin, wake)]

-----------------------------------------------------------------------------
(* One clock edge: that of the queue, with the operands of the dispatched   *)
(* instructions, and at most one line wakeup from the LSU.                  *)

\* The arithmetic instruction that has started to write the second source of a
\* created accumulation: the table has lost it.
busy(ops, e, fin) ==
  LET o == Created(ops, e)
  IN  macc_type(o) /\ \E w \in Writer(ops, IF from1(ops, e) THEN 2 ELSE 1, fin, o.src1) :
                        w \in started /\ op[w].kind = "cal"

OpSeqs == IF dis_op # <<>> THEN {dis_op}
          ELSE {<<>>} \cup {<<o>> : o \in Ops}
               \cup (IF "dual" \in Allowed THEN Ops \X Ops ELSE {})

\* What the queue sees of the dispatched instructions.
Dispatched(ops) == [i \in 1 .. Len(ops) |-> [kind |-> ops[i].kind, epoch |-> epoch]]

Coincidence(ops, stall, fin, wake) ==
  LET new == create_en(ops, stall)
  IN  /\ stall => "stall" \in Cases
      /\ new # {} /\ line_wakeup(wake) \cup mat_finish(fin) # {} => "wakeup" \in Cases
      /\ (\E e \in new : Created(ops, e).dst = alu_dst /\ e = Idx(alu_iq)) => "stale" \in Cases
      /\ (\E e \in new : busy(ops, e, fin)) => "busy" \in Cases

DClock(ops, stall, srcrdy, fail, fin, wake) ==
  /\ Coincidence(ops, stall, fin, wake)
  /\ Clock(Dispatched(ops), stall, srcrdy, fail, fin)
  /\ op' = [e \in Entry |-> IF e \in create_dp_en(ops) THEN Created(ops, e) ELSE op[e]]
  /\ dis_op' = IF stall THEN ops ELSE <<>>
  /\ table' = Table(ops, fin)
  /\ depd' = Depd(ops, stall, fin, wake)
  /\ dstm' = Dstm(ops, stall, fin, wake)
  /\ alu_ex1' = launched("cal", fail)
  /\ alu_dst' \in IF rf.vld /\ rf.inst.kind = "cal" THEN {op[e].dst : e \in rf.entry}
                  ELSE {alu_dst}
  /\ Ghosts(ops, stall, fin, wake)

\* A line wakeup or a finish of the LSU: of a load, stores send none.
Answers == {{}} \cup {{e} : e \in {f \in lsu : op[f].dst # NoReg}}

DNext == \E ops \in OpSeqs, stall \in BOOLEAN, srcrdy \in SUBSET matrix_src_dest_rdy,
            fail \in BOOLEAN, fin \in Answers, wake \in Answers :
           DClock(ops, stall, srcrdy, fail, fin, wake)

DSpec == DInit /\ [][DNext]_<<vars, deps>>

-----------------------------------------------------------------------------
(* Properties. *)

\* A reader is launched only after the youngest older writer of each register it
\* reads has started, and has finished for the second source of an accumulation,
\* whatever has happened to the table in between.
RawOrder == rf.vld => \A e \in rf.entry : raw[e] = {}

\* A writer is launched only after every older reader of its register started.
WarOrder == rf.vld => \A e \in rf.entry : war[e] = {}

\* No wakeup is missed: a source waits for an unfinished older instruction only.
SourcesComeTrue ==
  \A e \in vld \ frz, k \in Sources :
    depd[e][k] # NoEntry => depd[e][k] \in before[e]

\* "create the entry that maps a register to the queue entry which wrote it last"
\* (the comment on the inputs of the table): the table names the youngest writer
\* of a register until that writer has finished.
MapsLastWriter == \A r \in Regs : writer[r] # NoEntry => table[r] = writer[r]
=============================================================================
