# Verification of the openC910 matrix extension

This directory holds TLA+ models of the matrix extension that this repository
adds to the openC910 core, and of the simulation environment it is run in:
modules, TLC configurations and proofs for the TLA+ proof system (TLAPS). Paths
below are relative to the repository's `src/`; `RTL` stands for
`C910_RTL_FACTORY/gen_rtl`, `MAT` for `RTL/matrix`, `TB` for
`smart_run/logical/tb`.

## 1. The system

### 1.1 Components

| Component | Code | State it keeps | Operations | Model |
|---|---|---|---|---|
| Dispatch to the matrix pipe | `RTL/idu/rtl/ct_idu_ir_ctrl.sv`, `ct_idu_is_ctrl.v` | instructions held in IS | present up to two matrix instructions a cycle, stall, flush | part of `MatIssueQueue` |
| Matrix issue queue (MIQ) | `MAT/ct_mat_idu_is_miq.sv`, `ct_mat_idu_is_miq_entry.sv` | 12 entries: valid, frozen, age vector, instruction, dependency vectors; `miq_entry_cnt` | create, issue, launch pass/fail, pop (RF, finish), wake up, flush | `MatIssueQueue`, the dependencies in `MatDeps` |
| Register effect mapping | `MAT/mreg_effected_mapping.sv` | the entry of the youngest writer of each matrix register | look up and write at dispatch, clear at finish | `MatDeps` |
| Register-file stage, pipe 8 | `RTL/idu/rtl/ct_idu_rf_ctrl.v` | valid bit, one-hot entry, instruction | launch, fail, flush | `MatIssueQueue` |
| Configuration unit | `MAT/ct_mat_exu_config_unit.sv` | ex1 register; sizeM, sizeN, sizeK | write the sizes one cycle after launch | `MatIssueQueue` (which mcfg wrote), `MatLsq` (values) |
| Arithmetic unit | `MAT/ct_mat_exu_arithmetic_unit.sv` | row counter `ex_finish_count`, issue-queue entry, destination register | count rows, wake up, finish | `MatIssueQueue`, `MatDeps` (destination, wakeup) |
| Matrix load/store queue | `MAT/ct_mat_exu_ldst_unit.sv` | 8 entries: valid, frozen, age vector, row and byte counters, address | create, bypass, issue, replay, pop of a beat, finish, flush | `MatLsq` |
| LSU hooks | `RTL/lsu/rtl/ct_lsu_ctrl.v`, `ct_lsu_ld_ag.v`, `ct_lsu_ld_dc.v`, `ct_lsu_ld_da.v`, `ct_lsu_lfb.v`, `ct_lsu_top.v` | scalar load pipeline, the matrix bits of the wakeup queue of the line-fill buffer | accept, replay, put to sleep and wake, pop, refuse, flush | `inflight`, `depd` and the inputs of `MatLsq` |
| Physical registers | `RTL/rtu/rtl/ct_rtu_pst_preg.v`, `ct_rtu_pst_preg_entry.sv`, `ct_rtu_retire.v`, `RTL/idu/rtl/ct_idu_ir_rt.v` | life cycle and write-back state of each register, four allocation registers, speculative rename table, flush state machine | allocate, rename, dispatch, write back, retire, release, flush | `PhysRegs` |
| Architectural state mirror | `TB/sim_csrc/reg.cpp` | copies of the rename table and of the register file | DPI calls of the entries and the register file, `read_hart_reg` | `PhysRegs` |
| Debugger | `TB/sim_csrc/sdb.cpp`, `watchpoint.cpp` | two lists of watchpoints, old values | `c`, `si`, `w`, `d`, `p`, `x`, `q`, end of input | `Sdb` |
| Expression evaluator | `TB/sim_csrc/expr.cpp` | token array, `bad_expr` | `expr` | `Expr` |
| Simulation control | `TB/sim_csrc/hart_exec.cpp`, `TB/sim_main.cpp` | `sim_state`, batch flag | cycle, retire and illegal-opcode callbacks, exit status | `Sdb` |
| Function tracer | `TB/sim_csrc/ftrace.cpp` | tree of function symbols, depth, list of traced calls | load symbols, search, record a call or a return | `Ftrace` |
| Matrix operand and RF decoders | `MAT/ct_idu_is_mat_src_decd.sv`, `ct_mat_idu_rf_pipe8_decd.sv` | none | which registers an instruction reads and writes | the operands of `MatDeps` |
| Matrix subsystem top, register file | `MAT/` | matrix rows | wiring, multiplexers, a DPI call | not modelled: combinational or payload |
| Differential tester, disassembler, log | `TB/sim_csrc/difftest.cpp`, `disasm.cpp` | | the comparison is commented out | not modelled |
| Scalar core, L2, SoC demo | the rest | | | not modelled: the vendor's RTL |

### 1.2 How they interact

    dispatch --create0/create1--> MIQ --issue--> RF (pipe 8) --launch--> config unit
       ^                           ^  ^            |   |                (sizes)
       +------ full (stall) -------+  |          fail  +--> arithmetic unit (rows)
                                      +-- finish / pop ---- load/store queue <--> LSU
    RTU flush (front end, back end) reaches all of them

All of it is clocked by one clock. In simulation `gated_clk_cell` passes the
clock through, so every register is written on every edge and a step of the
hardware models is one clock edge; the inputs of that edge (what is dispatched,
which operands are ready, what the LSU answers, whether the RTU flushes) are
chosen with `\E`. Handlers are not interleaved as in software: the difficulty is
what happens when several events meet in ONE edge.

The physical registers and their mirror lie beside the matrix pipe: every
instruction with an integer destination, matrix ones included, takes one from
the allocator, and `reg.cpp` learns of retirements and results by calls from
inside the design, from which the debugger's `$reg` expressions read.

The debugger is one thread. Its difficulty is history: a global flag, lists and
modes that earlier commands left behind, and callbacks from the design that
write the same `sim_state` within a cycle.

### 1.3 What makes each component correct

- MIQ: the age vectors order the unfinished instructions; exactly one is issued;
  no instruction is issued past an older mcfg; none is issued twice; the counter
  that stalls dispatch covers what is in the queue; what waits is issued.
- Dependencies: a reader starts after the writer it reads has started (or
  finished, where it reads a register as a whole), a writer after the readers of
  what it overwrites; nobody waits for a wakeup that has passed.
- Load/store queue: age order, one grant, a request for each beat and one only,
  the counters of an entry agree, an entry is given up when the LSU has popped
  its last beat and not before, two never in one cycle, no answer reaches the
  next owner of an entry, every load ends unless the LSU refuses it.
- Physical registers: none is lost or owned twice through renaming, retirement
  and every flush; each architectural register has exactly one; after a flush
  renaming goes on from the retired state; a flush does not overtake results;
  the mirror shows what the program has retired.
- Debugger: watchpoints are neither lost nor shared between the lists, changes
  are noticed, a continue stops for a cause, an aborted program stays aborted.
- Evaluator: a well-formed expression has the value of the usual binding rules.
- Tracer: the search for an address ends at a function that contains it, a
  return is printed at the depth of its call.

The full list of hazards, each with the line where it bites and the properties
that cover it, is in `PROJECT.json`.

## 2. Modules

| Module | What it is |
|---|---|
| `MatLsq` | the load/store queue, one entry per matrix load or store, with the LSU as its surroundings |
| `MatLoads` | abstract specification: a load costs a fixed number of beats, delivered one at a time, and then its place is free (or it is flushed) |
| `MatLsqProofs` | theorems about `MatLsq`: types, age order and arbitration; requests, counters and refinement |
| `MatIssueQueue` | the issue queue, the RF stage, the configuration unit, the arithmetic unit's row counter, the RTU flush state machine and, as a set of entries, the load/store side |
| `MatIssueQueueProofs` | theorems about `MatIssueQueue`: types, order of issue and counter; the mcfg barrier |
| `MatDeps` | extends `MatIssueQueue` by the matrix registers an instruction reads and writes: table of youngest writers, dependency registers, wakeups |
| `MatDepsProofs` | theorems about `MatDeps`: it implements `MatIssueQueue`; order of reads and writes, wakeups |
| `PhysRegs`, `PhysRegsProofs` | life cycle of the integer physical registers, rename table, flush machine, and their mirror in the simulator; theorems |
| `Sdb`, `SdbProofs` | command loop, watchpoint pool, execution loop, callbacks, exit; theorems |
| `Expr`, `ExprProofs` | the evaluator over tokens and its reference semantics; theorem |
| `Ftrace`, `FtraceProofs` | symbol tree and call trace; theorems |
| `Induction` | lemmas about numbers up to a bound and about functions defined by recursion on them, for the proofs |
| `MCMatLsq`, `MCMatDeps`, `MCExpr`, `MCFtrace` | instances for TLC: sizes, operands, numbers, symbol tables |

### 2.1 `MatLsq`

`vld`, `frz`, `agevec`, `isld`, `sizeM`, `sizeK`, `row_cnt`, `col_cnt`, `move`
and `addr` are the registers of `mat_lsu_queue` (lines 558-859), with sets of
entries in place of bit vectors; `x_size` is the pair of configuration registers.
Two variables stand for the scalar side: `inflight[e]` counts the requests of `e`
in the stages AG, DC and DA of the load pipeline, `depd` is the part of the wakeup
queue of the line-fill buffer that belongs to matrix entries. `lost` is a history
variable, see below. `Clock` is an edge without `rtu_yy_xx_flush`, `Flush` one with
it: the flush clears valid bits, counters and `move`, and leaves `frz`, `agevec` and
the latched data to the ordinary update; in the LSU it clears the valid bits of AG,
DC and DA (`ct_lsu_ld_ag.v:634`, `ct_lsu_ld_dc.v:914`, `ct_lsu_ld_da.v:1225`) and the
wakeup queue (`ct_lsu_lfb.v:1766`), each by its own register. `create_in`,
`issue_en`, `bypass`, `ld_req`, `entry_finish` are the combinational signals of
the same names. Addresses are counted in beats from the base, the payload of an
access is not represented.

What the LSU does with requests in a cycle is one of `Answers`:

- `fin`, at most one: the pop of DA (`ld_da_mat_ldst_pop_vld`,
  `ct_lsu_ld_da.v:2648`), which the queue counts as a beat. It rises on a hit, and
  on a miss as soon as the read buffer has taken the request: a popped beat need not
  have its data. The read buffer keeps no name of a matrix entry, so what it holds
  answers nobody later, also across a flush.
- `rep`, any set: a request that is offered and not taken (no fire in RF, stall in
  AG) or one in the pipeline that is replayed at once (DC wakeup, DA `secd`).
- `wait`: discarded in DA because the read buffer or the line-fill buffer works on
  the same index; the entry goes to the wakeup queue. `wake` empties that queue, all
  of it, into the replays.
- `lose`: refused. DA restarts a request for a full read buffer, a fence, the store
  queue or the write buffer, DC for a full load queue or a busy TLB, and none of
  these is a term of `lsu_mat_ldst_wakeup` (`ct_lsu_ctrl.v:1202-1214`); the signals
  that report them to the matrix side (`lsu_mat_ldst_rb_full` and the like) are wires
  nobody reads. The entry stays frozen; `lost` remembers it.

Two assumptions about the surroundings are parameters, so that runs can be made
with and without them: `CfgInFlight` (an mcfg may write the sizes while the queue
holds entries) and `ReplayOnBypass` (entries other than the bypassed one may be
replayed in a bypass cycle).

### 2.2 `MatIssueQueue`

A step is one edge of MIQ, RF and the units. `vld`, `frz`, `agevec`, `data` and
`cnt` are the queue; `rf` is the stage register of pipe 8; `cfg_ex1` and `x_epoch`
are the configuration unit; `alu_iq` and `alu_cnt` the arithmetic unit; `lsu` the
entries with a load or store on the LSU side; `dis` the instructions a stall
keeps in IS; `flush` the state of the RTU's flush state machine. An instruction is
its unit (`kind`) and its `epoch`, the number of mcfg instructions up to it in
program order: sizes matter only through which mcfg wrote them. `agevec` is kept
empty for entries that are not valid (their bits are rewritten at creation before
anything reads them); `data` is stale in an entry that left, as in the code,
because the mcfg barrier reads it without looking at `vld`.

Two details of the code that decide much of the behaviour and are kept: the pop
vectors are the AND of the one-hot finish indices of the two units (`ex_pop`), and
the updates of the age vector are the branches of one `if` (`Agevec`), so that a
finish is not seen in the cycle of an mcfg pop.

`Allowed` names what the surroundings may do: `dual` (two instructions in a
cycle), `overrun` (dispatch although the counter leaves no place), `flush`,
`alu_fail` (a failed launch of an arithmetic instruction), `pop_with_finish` (an
mcfg pop in the cycle of a finish pop). The passing runs exclude the last three
where a property depends on it; section 4.2 says what happens otherwise.

### 2.3 `MatDeps`

The state of `MatIssueQueue` and, with it, `op` (the operands in the data
registers of an entry), `table` (`mreg_effected_map_table`), `depd` (the three
source dependency registers of an entry), `dstm` (`dstm_depd_vec`, the readers of
what it overwrites), `alu_ex1` and `alu_dst` (registers of the arithmetic unit
that make its wakeup and its clear of the table). `DClock` is the clock edge of
`MatIssueQueue` in conjunction with the updates of these registers: the operands
that are ready, an input there, are computed here. Two details decide much and
are kept: the table is written while dispatch stalls and cleared by the
arithmetic unit in each cycle, not only at a finish (`Table`, `Cleared`); and
`Dstm` is a chain of else-ifs that sees one event of a cycle.

Ghosts say what the program asks for: `open` is the set of the unfinished
instructions and `before[e]` those of them that come before `e` in program
order, `started` those that have begun to work, `writer` the youngest unfinished
writer of each register, and `raw[e]`, `war[e]` what an instruction must wait
for, computed from program order when it is created and never from the table.

`Cases` names coincidences a run may admit: `stall` (dispatch stalls with matrix
instructions in it), `wakeup` (a unit wakes or finishes something in the cycle
of a creation), `stale` (an instruction enters the entry, and writes the register,
that the arithmetic unit's registers still name), `busy` (an accumulation is
created while an arithmetic instruction that writes its second source has
started and not finished: the table has lost that one). Flushes are left out.

### 2.4 `PhysRegs`

`life` and `wb` are the two state machines of an entry
(`ct_rtu_pst_preg_entry.sv`), `info` its `dst_reg` and `rel_preg`; `alloc` the
four allocation registers fed by three searches (`d0`, `d1`, `d2`,
`dealloc_preg`); `rt` the speculative rename table; `is` and `rob` the renamed and
the dispatched instructions; `flush`, `async` and `stall` the flush state machine
of `ct_rtu_retire.v` with its asynchronous case and the stall of the front end
behind an executed mispredicted jump. `table` is the mirror's rename table,
written by the entry that enters RETIRE (`SyncTable`); `owed[p]` is the number of
results still to be written to `p`, so the mirror of the register file holds the
right value iff it is 0 (a result killed by an asynchronous flush is nobody's: the
core's own register file does not get it either). `arch` is a ghost: the register
of the last retired writer of each architectural register. A step is one edge: any
packet that the IR stage may rename, dispatch or not, up to `RetireWidth`
retirements, one event of the flush machine, any set of write-backs, any set of
registers a waiting store still reads. Register 0, the constant of x0, is left
out; x32, which links the parts of a split instruction, is kept (`Temp`).

### 2.5 `Sdb`

`pool` is `head`, `free_` and the `next` links; `Walk` follows them, and
`Traverse` makes a `Visit` at each watchpoint it meets. `proc` says where the
program is: at the prompt, in `execute()`, out of the main loop with one clock
edge to go (`sim_exit`, whose callbacks may still write the state that the exit
status is made of), at its end, or ended by the assertion of `new_wp`. There are
two flags called `is_batch_mode`, one in `sdb.cpp` (`batch_opt`) and one in
`hart_exec.cpp` (`batch`). `Cycle` is one `cycle_step` with the callbacks it
makes, the traversal of the watchpoints and the test that ends `execute()`. The
design is reduced to the values of the expressions, which change arbitrarily in a
cycle, and to the callbacks `illegal` and `hart_commitInst` in either order.

### 2.6 `Expr`

Tokens are typed one by one, `expr` evaluates them, `Again` goes on with the next
expression, keeping `bad_expr`. `eval`, `main_op`, `surrounded` and `unbalanced`
(the two results of `check_parentheses`) follow the code, `eval` as a recursive
function of the segment and the flag; `scan_flag` is what the search for the main
operator leaves in `bad_expr`. `converted` is the outcome of the conversion of stars
in place: of a row of stars every second one becomes a dereference. The reference
(`Meaning`) is written independently: the operator applied last is the rightmost of
the loosest ones outside all parentheses. It has the binding of C and not its short
circuit: both sides of `&&` are evaluated, so `0 && 1/0` divides by zero.
`Sdb` uses what is checked here: a well-formed expression of several tokens
succeeds whatever `bad_expr` was, and clears it.

### 2.7 `Ftrace`

`tree` is the sequence of symbol nodes in order of insertion, with links to the
left and right; `depth` and `more_deeper` are the static variables of
`make_ftracenode`, `head` the list it extends. `init_ftrace` loads any symbol table
after the check for the two sections it needs. An ELF file has several string
tables and the code reads the names from the first one
(`TB/sim_csrc/ftrace.cpp:92-98`), not from the one the symbol table means: a name of
the model is the table it was read from and the symbol whose offset was used, and
the section orders of the run have either table first. What is found of an address
is therefore its node; its name is right only when the table read is the right one.
The 1280 bytes of `total_string`, into which a longer table is read all the same
(lines 109-110), are left out. `trace` looks the target up and
records a call or a return; `trace_unknown` is the target of no function, whose
null name the code copies. `open` is a ghost: the depths recorded for the calls
that have not returned.

## 3. Runs

| Run | Instance | What it shows |
|---|---|---|
| `lsq_beats` | 2 entries; sizes 1x12, 2x8 and 2x12 bytes; fair | age vectors are a total order without stale bits, one grant and a grant whenever an entry waits; a frozen load has a request or was refused, a waiting one has none; no request, in the pipeline or asleep, without an owner, across flushes; no two finish together; row counter, byte counter and address agree; no edge reorders survivors; implements `MatLoads`; every load leaves that is not refused |
| `lsq_bypass` | 2 entries, `ReplayOnBypass` | violation: a replay of another entry in a bypass cycle thaws the bypassed entry, whose request is sent twice |
| `miq_order` | 3 entries, `dual`, rows of 1 and 2 cycles, two mcfg | age order of unfinished instructions; exactly one issue; the mcfg barrier, mcfg in order; single issue; the counter covers the queue |
| `miq_after_flush` | 2 entries, `dual` and `flush`, fair | barrier and single issue across every kind of flush; what waits is issued or flushed |
| `miq_leak` | 3 entries | violation: finished instructions stay in their entries |
| `miq_full` | 3 entries, `dual`, `overrun` | violation: the counter passes the number of entries |
| `mat_deps` | 3 entries, 2 registers, six kinds of operands, rows of 1 and 4 cycles | reads follow writes, writes follow reads, no wakeup is missed |
| `mat_deps_stale` | the same with rows of 1 cycle, case `stale` | violation: the table loses the youngest writer |
| `phys_regs` | 1 architectural register and x32, 4 physical ones, 2 instructions renamed and 3 retired a cycle; fair | one mapping, one owner, exact mirror, renaming from the retired state, no flush before the results, nobody waits for a killed result, released ones become free |
| `sdb` | 3 watchpoints, one expression of each class | pool partition, no leftovers, no missed change of compound expressions, abort is final, a continue stops for a cause |
| `expr` | up to 9 tokens, 2 numbers, 5 operators, words of 4 bits | values agree with the reference; only a division by zero ends the process |
| `ftrace` | up to 3 symbols over 3 addresses, 7 calls and returns, depth wraps at 2 | the search finds a function that covers the address; returns match calls |

### 3.1 Bounds, and why they are enough

- Entries. The entries of both queues are symmetric but for the choice of a free
  one (lowest, highest), and the age relation is pairwise with one transitive
  clause: three entries show every relation among instructions that wait,
  execute and finish. Three also separates creation 0 (lowest free) from creation 1
  (highest free) with a survivor between them. What concerns the counters of one
  entry (`lsq_beats`) and what a flush leaves (`miq_after_flush`) needs one entry
  and another that takes part in the same cycle: two. The age order of the
  load/store queue is proved for every number of entries, so its run does not
  need a third.
- `MaxReq` = 2 requests of one entry in the load pipeline: the code relies on one; a second
  one is what the properties exclude. The LSU refuses a third.
- Sizes: 12 bytes give a partial beat, two rows a reload of the byte counter.
- `MaxCfg` (1 or 2) bounds the mcfg instructions dispatched; two are needed for
  one to overtake another.
- `CntMod` = 8 for 3 entries stands for 16 for 12: the counter wraps below zero
  and has room above the number of entries.
- `Rows` are the cycles of an arithmetic instruction, 1 and 2: finish in the cycle
  after the launch, and a count in between. In `mat_deps` they are 1 and 4: a
  reader can be created, issued and launched while the writer still counts.
- `Regs` = {0, 1} and `MCOps`: loads of both registers, a store, a sum and a product
  that read one register twice, and an accumulation whose second source (read as a
  whole) is the other: every pair of instructions conflicts in some way, and three
  entries hold a writer, its reader and the next writer.
- `NA` = 1, `NP` = 4, `Width` = 2: the architectural registers do not interact
  except through the free list, so one of them and x32 are enough for
  renaming; four physical registers are one mapped and three in flight, which
  retire in one cycle (`RetireWidth` = 3, the code's), and the searches of the
  allocator run dry; two instructions are the first and the second writer of a
  packet. The seven invariants are proved for every number of registers and both
  widths, so the run is there to refute mistakes, not to cover cases.
- Three watchpoints: deletion at the head, in the middle and at the end of a list.
- Nine tokens are the shortest length at which pairs of parentheses that are no
  pairs occur on both sides of an operator, as in `((3))-(0)`, which makes the
  search for the main operator overwrite `bad_expr`. `AnyLen` = 3 admits every
  malformed string of up to three tokens before it, `Modulus` = 16 stands for 2^64.
- Three symbols: a node, its child and a grandchild on the other side, in every
  order of the file, with aliases and empty symbols. `Max` = 2 stands for
  65535: seven steps wrap the depth in both directions.

### 3.2 Fairness

- `MatLsq`: weak fairness of `Tick` (the clock runs and there is no flush for
  ever); strong fairness of `Accepts(e)` and `Pops(e)`: a request that is offered
  again and again is taken at last, and one that is in DA again and again is popped
  at last; weak fairness of `Wakes(e)`: the wakeup queue is emptied when the read
  buffer or line-fill buffer it waits for has worked, which the scalar core relies on
  in the same queue. What makes a request replayed (RF no-fire, AG stall, DC, a line
  fill in progress) ends by the LSU's own progress. One case is an assumption: a
  beat that crosses 16 bytes is sent as a first half every time (`secd` is tied to 0,
  `ct_lsu_ld_ag.v:764`), so `secd` of DA replays it until the cache buffer merges the
  two halves (`ct_lsu_ld_da.v:2569-2575`). Nothing is assumed about refused requests:
  `LoadsFinish` excepts them, and `LostWaitsForFlush` says that they wait for a flush.
- `MatIssueQueue`: strong fairness of `AllReady` (operands of all waiting
  instructions are ready in some cycle, again and again: producers finish) and
  of `Passes(e)` (a launch does not fail each time). Nothing is assumed about
  dispatch, finish or flush.
- `PhysRegs`: results that are owed arrive, and a store that reads a released
  register leaves the queue in the end: `[]<>` of the states in which nothing is
  due, which is weak fairness of steps that are possible in every cycle. Nothing is
  assumed about retirement or flushes.
- `MatDeps`, `Sdb`, `Expr` and `Ftrace` state no liveness: when instructions
  start and end is up to parts that are not modelled there, and nothing obliges a
  user to type.

Deadlock is checked in the hardware models. `Sdb`, `Expr` and `Ftrace` end (exit,
an assertion, a division by zero, a null name, the bound of the trace), so their
runs do not check it.

## 4. What holds and what does not

### 4.1 Disagreements shown by runs

1. `lsq_bypass`: `mat_lsq_create_frz` takes any replay in a bypass cycle for a
   replay of the bypass (`MAT/ct_mat_exu_ldst_unit.sv:249`).
2. `miq_leak`: an entry is popped only when the finish indices of two unrelated
   units agree (`MAT/ct_mat_idu_is_miq.sv:529`).
3. `miq_full`: the full signal of the queue is missing from the stall of dispatch
   (`RTL/idu/rtl/ct_idu_is_ctrl.v:1793`).
4. `mat_deps_stale`: the arithmetic unit clears the table of youngest writers in
   every cycle with the register and the entry it last worked on
   (`MAT/ct_mat_idu_is_miq.sv:1053`). The run has rows of one cycle, so that what
   is lost is a writer that has nothing to do with the unit any more; with longer
   rows the same line loses the writer that the unit is counting.

A fifth disagreement is a theorem and no run. The comments on
`ld_da_mat_ldst_rb_full` and `ld_da_mat_ldst_wait_fence` (`ct_lsu_ld_da.v:2640` and
2643) say that a refused entry stays frozen until the read buffer is no longer full,
or the fence is over, and is then woken. No such wakeup reaches the queue:
`LostWaitsForFlush` says that the entry stays as it is until a flush. And the
comment on `ctrl_entry_finish` (`MAT/ct_mat_exu_ldst_unit.sv:809`) takes counters at 0
for the return of the data of the last row; they say that the last beat has been
popped, which after a miss comes before its data.

### 4.2 What the assumptions of the passing runs keep out

The passing runs state what the code does under assumptions; without them TLC
refutes these properties, as anyone can see by changing one constant:

- `CfgInFlight = TRUE` in `MatLsqBeats.cfg`: `CountersAgree` fails, because each
  further row is reloaded from the configuration register.
- a pair `<<0, 0>>` in `SizesReal`: `NoOrphanRequest` fails, because an entry of no
  rows ends in the cycle after its request was sent.
- `pop_with_finish` in `MatIssueQueueOrder.cfg`: `AgeOrder` fails, because the bit
  of the finished entry stays.
- `alu_fail` in `MatIssueQueueOrder.cfg`: `IssuedOnce`, `CounterCovers`,
  `AgeOrder`, `OneIssue` and `CfgBarrier` fail, because the arithmetic unit latches
  on the gated-clock select, which a failed launch raises too
  (`RTL/idu/rtl/ct_idu_rf_ctrl.v:1529`), and finishes an instruction that waits.
- `flush` and `CounterCovers` or `CountInRange`: the row counter is not flushed and
  its finish decrements a cleared counter.
- `flush` with rows of more than one cycle: the arithmetic unit is still busy with
  an entry that was flushed when the next instruction takes that entry.
  `IssuedOnce` and `CfgBarrier` fail with `Rows = {2}`, `AgeOrder` with three
  entries and `Rows = {1, 3}`.
- `Cases = {"wakeup"}` in `MatDeps.cfg`: `RawOrder` and `WarOrder` hold,
  `SourcesComeTrue` fails: the branch that creates an entry wins over the
  wakeup (`MAT/ct_mat_idu_is_miq_entry.sv:421`), and the reader waits for a
  wakeup that has passed.
- `Cases = {"stall"}`: `SourcesComeTrue` fails, because a stalled dispatch has
  already written itself into the table (`MAT/ct_mat_idu_is_miq.sv:1027`), and so
  does `RawOrder`: an instruction that reads the register it writes finds there
  the entry that was free while it stalled. It is created in another one, and the
  instruction that takes the first releases it.
- `Cases = {"stale"}`: `RawOrder` fails, because the readers of the erased writer
  do not wait; `WarOrder` and `SourcesComeTrue` hold.
- `Cases = {"busy"}`: `RawOrder` fails, because the accumulation finds no writer of
  its second source and starts while that one is still writing rows; `WarOrder`
  and `SourcesComeTrue` hold.
- `Allowed = {"dual"}` in `MatDeps.cfg`: `RawOrder` and `WarOrder` fail for the
  second instruction of a cycle, whose lookups do not see the first
  (`MAT/ct_mat_idu_is_miq.sv:1030`).

Hazards that the listed properties cover in part or not at all, each with its note in
`PROJECT.json`: a failed launch of an arithmetic instruction and a flush while one
counts several rows (excluded above, `IssuedOnce` covers the rest); an arithmetic
instruction that overwrites the row counter of another one, which never finishes; a
reader's bit in `dstm` that the chain of else-ifs does not clear, so that its writer
waits for ever (`WarOrder` says that no writer is early); `ABORT` overwritten by `STOP`
within a cycle.

Facts about the code met on the way and stated as no property, since no document
says what should happen: two writers of one register are not ordered
(`MAT/ct_mat_idu_is_miq_entry.sv:615`), a flush does not reset the table of
youngest writers, an mcfg does not wait for older instructions that read the
sizes, a store in the load/store queue never finishes, and its queue has fewer
entries than the issue queue that fills it. In the debugger, a single token does
not reset `bad_expr` (`TB/sim_csrc/expr.cpp:220`), so after a malformed expression
a watchpoint on one register is blind; `CompoundNotMissed` therefore speaks of
several tokens. The edge that `sim_exit` makes behind the last command
(`TB/sim_csrc/hart_exec.cpp:68`) may turn `QUIT` into `STOP` or `ABORT`, and
`ABORT` into `STOP`, before the exit status is made of it. In the tracer, a
function inside another one can be missed (`Separate` excludes it), names come
from the first string table of the file, and an address without a name makes
`make_ftracenode` copy a null pointer (`TB/sim_csrc/ftrace.cpp:155`).

## 5. What is proved

The proofs hold for every value of the constants that the named assumptions
admit.

| Theorem | Assumes | Statement |
|---|---|---|
| `MatLsqProofs`: `TypeCorrect` | `LsqAssumption` | `[]TypeOK`: counters stay natural numbers although they are decremented by 1 and by a beat, `inflight` stays within its bound |
| `AgeOrderCorrect` | | `[]AgeOrder` |
| `OneGrantCorrect` | | `[]OneGrant` |
| `GrantIfReadyCorrect` | | `[]GrantIfReady`: whenever an entry waits one is granted |
| `AgePreservedCorrect` | | `AgePreserved`: no edge reorders survivors, a new entry is the youngest |
| `FrozenHasRequestCorrect`, `ThawedHasNoRequestCorrect`, `NoOrphanRequestCorrect`, `OneFinishCorrect`, `LostWaitsForFlushCorrect` | `Surroundings`: `~ReplayOnBypass`, sizes above 0 | requests: where they are, whose they are across flushes, what becomes of refused ones; one finish at a time |
| `CountersAgreeCorrect`, `ImplementsLoadsCorrect` | moreover `~CfgInFlight` | the counters agree; every edge is a step or a stutter of `MatLoads` |
| `MatIssueQueueProofs`: `TypeCorrect` | `MiqAssumption` | `[]TypeOK`, whatever the surroundings do |
| `AgeOrderCorrect`, `OneIssueCorrect`, `IssuedOnceCorrect`, `CfgBarrierCorrect` | `Mild`: `Allowed \subseteq {"dual", "flush"}`, `N <= 16`, and `Rows \subseteq {0, 1}` if the RTU may flush | age order, single grants, single issue and the mcfg barrier, across flushes too |
| `CounterCoversCorrect` | `Calm`: `Allowed \subseteq {"dual"}`, `N <= 16` | the counter |
| `PhysRegsProofs`: `TypeCorrect`, `OneMappingCorrect`, `OneOwnerCorrect`, `MirrorExactCorrect`, `RenameFollowsRetiredCorrect`, `FlushAfterWriteBackCorrect`, `WaitsForResultCorrect` | `PregsAssumption` | the seven invariants of `PhysRegs` |
| `MatDepsProofs`: `ImplementsQueueCorrect` | `MiqAssumption`, `DepsAssumption` | `DSpec => Spec`: the queue whose matrix operands are modelled implements the one whose ready operands are an input |
| `WarOrderCorrect` | moreover `OneByOne`: `Allowed = {}` | `[]WarOrder`, for every `Cases` |
| `RawOrderCorrect` | moreover `Kept`: `Cases \subseteq {"wakeup"}` | `[]RawOrder` |
| `SourcesComeTrueCorrect` | `Calm`; `Quiet`: `Cases \subseteq {"stale", "busy"}` | `[]SourcesComeTrue` |
| `SdbProofs`: `PoolPartitionCorrect`, `UsedAreValidCorrect`, `CompoundNotMissedCorrect`, `ContinueStopsForCauseCorrect`, `AbortIsFinalCorrect` | `SdbAssumption` | the five properties of `Sdb` |
| `ExprProofs`: `ValuesAgreeCorrect` | `ExprAssumption` | `[]ValuesAgree`, for expressions of every length |
| `FtraceProofs`: `SearchFindsCoverCorrect`, `MatchingDepthCorrect` | `FtraceAssumption` | the two properties of `Ftrace` |

`N <= 16` is the width of an entry index (`Idx` encodes one-hot vectors in four
bits); with more entries the pops would go to other entries.

Arguments:

- *Age order of the load/store queue.* `AgeOrder` is inductive together with
  `TypeOK`. A survivor loses exactly the bits of the entries that finish in the
  edge, a created entry takes the valid entries that do not, and an edge creates
  at most one entry, so between two survivors nothing changes and between a
  survivor and the new entry exactly one bit is set. Without the clause that no
  bit names an entry that has left it is not inductive: the bit would name the
  next owner of the entry. `OneGrant` follows from totality, `GrantIfReady` from
  a least element: the sets of older ready entries are finite and strict
  inclusion among them is well founded.
- *Requests.* The invariant `Requests` says where the one request of an entry is:
  nowhere while the entry waits; in the pipeline, asleep in the wakeup queue or
  refused, and only one of them, while it is frozen; popped when the next one is due
  (`move`) or nothing is left to fetch; and that rows and bytes are left until its
  last beat has been popped. `AnswerOf` says what an answer does to one entry. Sizes
  above 0 are needed because a request is sent before anything looks at the size,
  `~ReplayOnBypass` because of 4.1.1. An edge pops at most one request and an entry
  that finishes leaves at the next edge (`FinishStep`), hence `OneFinish`; a refused
  entry has no request, so nothing the LSU can answer names it: `LostWaitsForFlush`.
- *Counters and refinement.* The invariant `Counters` says that the sizes an entry
  latched are those of the configuration registers, and that its address is the
  number of beats its two counters say were popped, less a pending move. The
  refinement maps an edge that pops a beat of `e` to `MatLoads!Step` with `back =
  {e}`.
- *Order of issue.* `AgeOrder` of the issue queue is inductive only together with
  `Placed`: an issued instruction is in exactly one of RF, LSU and arithmetic
  unit, is frozen, RF holds what its entry holds, and a valid mcfg waits or is in
  RF. `EdgeOf` says what an edge does to these sets, `LiveAfter` that the
  unfinished instructions after an edge are those before without the ending ones
  and with the new ones. `OneIssue` then follows as above.
- *Flushes of the issue queue.* Across a flush neither part is kept: when the queue
  is cleared the units still name entries of it. `FlushInv` therefore has two cases,
  `Ordered` (`Placed` and `AgeOrder`) and `Flushed`, the empty queue, RF stage and
  dispatch between the flush of the front end and that of the back end, which also
  clears the LSU. `Placed` itself allows one `Leftover`: the queue is empty, and the
  arithmetic unit, which nothing flushes, is in its last cycle. With rows of one
  cycle it is idle before an entry can be issued again; with more, its finish meets
  a new instruction, and TLC refutes what the theorems state (section 4); hence the
  hypothesis on `Rows` in `Mild`. `Epochs` (below) may be lost while `Flushed`
  holds, and the flush of the back end restores it: dispatch goes on from the sizes
  that were written last (`EpochFlush`).
- *The counter.* `EndingCounted`: what ends in a cycle is one entry of each of
  three disjoint sets, so the counter loses as much as `live`; `CreationsCounted`:
  it gains at least as much. It never wraps, because it covers what is
  subtracted and dispatch adds no more than the queue takes.
- *The mcfg barrier.* The invariant `Epochs` relates program order to the queue:
  sizes are written in program order, the mcfg instructions in the queue come
  later and in the order of their age, an instruction finds the mcfg it needs
  among the older entries or its sizes written, and what is in RF has no older
  mcfg in the queue.
- *Dependencies.* `ImplementsQueueCorrect` maps every step to the step of the
  queue with the same choices (`Shown`: what the queue sees of a stalled packet is
  what the packet says), so the types and the order of `MatIssueQueue` are at
  hand for the rest (`Base`, with `Latched`: what an entry latched is of the kind
  of its instruction). `CreationIs` and `EdgeIs` say what an edge does: what ends
  has been issued, indices are the entries they encode, what reaches RF had its
  dependencies cleared. Each property then has an invariant that relates the
  registers to the ghosts. `WarInv`: `dstm` covers `war`. `SrcInv`: the table
  names unfinished writers of its registers, which is what makes a lookup
  meaningful, and while the arithmetic unit counts it names the register its
  instruction writes, so that its finish takes the entry out of the table.
  `RawInv`: a writer that has not started, and a load until it ends, is in the
  table (`Mapped`), and what an instruction must wait for is in one of its
  dependency registers, in that of the second source if it is a finish
  (`Covered`). `Mapped` is where the hypotheses enter: in the case `stale` a new
  writer is not in the table, in the case `busy` the started one must be, with two
  creations a cycle the lookup comes before the write.
- *Physical registers.* The properties are not inductive one by one; `Inv` is.
  `Chain` says of every instruction in flight what `RenameFollowsRetired` says
  outside a flush, also while a mispredicted jump waits in front of a stalled
  rename stage: what it releases is the preg of the writer before it, or the mapped
  one. From it follows `Released`, what each of the instructions that retire in one
  cycle releases, and from that `MappedNext`: after the edge a register is mapped
  to the last of its writers among them, whose predecessors were released in the
  edge in which they retired. That gives `Mirror` (the table of the simulator names
  the one mapped preg, which gives `OneMapping`), and, with what remains in flight
  shifted by the retirements (`FlightNext`), `Chain` and `RtLast` again. `Phase`
  says that IS and reorder buffer are empty by the time the back end is flushed, so
  that dropping every waiting and allocated preg loses none (`OneOwner`) and the
  recovered rename table starts an empty chain. `Wrote` ties the results owed to
  the write-back states: a preg is owed at most one, which is why the flush
  machine, which looks at the states, does not overtake results; `WaitsForResult` is
  its converse.
- *Watchpoints.* The invariant has a witness: an enumeration of all watchpoints
  cut in two (`Linked`), the used ones first, along which the links run. Setting a
  watchpoint rotates one element from the cut to the front (`NewLinked`), deleting
  one moves it from its place to the cut (`FreeLinked`), so both lists end and
  nothing is on both. The traversal is then a function on the positions of the used
  part (`TraverseStep`); each visit touches one watchpoint only, and a compound
  expression succeeds whatever the flag of the evaluator is, which gives
  `CompoundNotMissed` and, since a trigger needs a change, `ContinueStopsForCause`.
  `Awake`: `execute()` is left in the cycle in which the program stops running.
- *Symbol tree.* The tree is built by insertions only, so a link leads to a node
  inserted later (the rank on which the search is a recursion) and every node is
  reached from the first by the turns its own insertion took. The search takes the
  turn of the insertion until it meets a node that covers the address, because
  symbols that do not overlap lie on the side the comparison of the first bytes
  says. `Nested`: the depths of the open calls are consecutive modulo the width of
  the counter and end at the present depth, or one above it after a return.
- *Expressions.* A `Segment` is a part of a well-formed expression in which operands
  and operators alternate and no parenthesis is left open, stated by the depth at
  its ends. Two lemmas relate the code's way of looking at parentheses to the
  grammar's: a segment of several tokens has an operator outside all parentheses
  unless one pair surrounds it (`SurroundedHasNone`, `OthersHaveOne`), and some pair
  that the code tries around an operator fits iff parentheses are open there
  (`EnclosedIs`). The scan keeps the rightmost of the loosest operators met so far,
  so it ends with the operator the grammar applies last (`MainOpIs`), which cuts
  the segment into segments (`InnerSegment`, `OuterSegments`). `EvalCorrect` is an
  induction on the length: what `eval` leaves in `bad_expr` is the flag it was given
  if the segment is a single token, and clear otherwise. The flag that the scan
  sets by calling `check_parentheses` for pairs that are no pairs is therefore
  harmless: one of the two operands has several tokens, or there is no parenthesis
  to try (`ScanFlagFalse`).
- *Recursive functions.* `Walk`, `Traverse`, the insertion, the searches, `eval` and
  `Meaning` are functions defined by recursion on a bounded number or on a rank.
  `Induction` gives what their proofs need, in terms of sets: a set of numbers up
  to a bound that holds 0 and is closed under successor is all of them (`Induct`),
  likewise for a rank (`RankInduct`), and a recursion that descends a rank, iterates
  a step, or depends on several arguments of lower rank has a solution
  (`Recursion`, `Iterate`, `Fixpoint`).

Only model-checked: liveness, which is out of the prover's reach.

## 6. Not modelled

- The scalar pipeline behind the LSU hooks and the rest of the vendor's core: its
  answers are inputs, with the requests it holds and the wakeup queue of the
  line-fill buffer as state (2.1). The read buffer is left out, and with it the time
  at which the data of a popped beat arrive.
- In the IS stage, `iu_yy_xx_cancel`, which drops a stalled dispatch behind a
  mispredicted jump (`RTL/idu/rtl/ct_idu_is_ctrl.v:1020`, 1113): `Presented` of
  `MatIssueQueue` presents a stalled packet again or loses it to a flush. And the
  partial dispatch of a packet with the shift of what is left
  (`RTL/idu/rtl/ct_idu_ir_ctrl.sv:1007-1021`): `Stages` of `PhysRegs` dispatches the
  packet in IS as a whole.
- One-hot multiplexers, the operation-class decoder and the completion bus:
  combinational, without state of their own. Of the operand decoder the models
  keep which registers are read and written.
- What the arithmetic instructions compute and what the matrix registers hold: in
  the repository they are a trace call and a payload; the unit only counts rows.
- Floating-point physical registers: their entry module and their two calls to the
  mirror have the same text as the integer ones of `PhysRegs`.
- Flushes in `MatDeps`. The table of youngest writers is not flushed at all, so
  the properties of `MatDeps` do not hold across one (4.2).
- The composition of the issue queue and the load/store queue, beyond the set of
  entries `lsu` in `MatIssueQueue`: nothing in the code keeps the one from
  overrunning the other, and no document says what should happen then.
- Callbacks that copy pipeline state for display (`info IR`, `info RF`), logging
  and wave dumps; the end of the simulator by a second `$finish` of the testbench;
  `difftest.cpp` (its comparison is commented out) and `disasm.cpp` (calls of a
  library); in `ftrace.cpp` the fixed
  length of the printed line and of `total_string`.

## 7. What remains

1. Dependencies across a flush, once the code defines what the table should hold
   after one.
2. The load/store side of the issue queue as an instance of `MatLsq` when dispatch
   is kept within its entries.
