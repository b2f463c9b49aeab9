------------------------------- MODULE MatLsq -------------------------------
(***************************************************************************)
(* The matrix load/store queue of the matrix execution unit                *)
(* (ct_mat_exu_ldst_unit.sv and its per-entry module mat_lsu_queue).       *)
(*                                                                         *)
(* An entry is one matrix load or store.  A load is cut into requests of   *)
(* Beat bytes that are sent to the scalar LSU one after the other: the     *)
(* next request leaves when the LSU has popped the previous one.           *)
(* The oldest unfrozen entry is issued; an instruction that arrives while  *)
(* no entry waits for issue is sent in the cycle that creates it (bypass). *)
(* The LSU pops a request (on a hit, and on a miss as soon as the read     *)
(* buffer has taken it), replays it, which thaws the entry, puts it on the *)
(* wakeup queue of the line-fill buffer and replays it later, or refuses   *)
(* it with a signal that is wired to nothing.                              *)
(*                                                                         *)
(* Every register is written on a clock edge, so a step of this module is  *)
(* one edge; the inputs of the edge are chosen with \E.                    *)
(***************************************************************************)
EXTENDS Integers

CONSTANTS
  N,              \* entries of the queue, MATRIX_LSIQ_ENTRY (8 in the code)
  Sizes,          \* the <<sizeM, sizeK>> pairs software configures
  MaxReq,         \* bound: requests of one entry the load pipeline can hold
  CfgInFlight,    \* may sizeM/sizeK be rewritten while the queue holds entries?
  ReplayOnBypass  \* may the LSU replay other entries in a bypass cycle?

Entry == 0 .. N - 1
Beat  == 8        \* bytes of one LSU request

ASSUME LsqAssumption ==
  /\ N \in Nat \ {0}
  /\ Sizes \subseteq Nat \X Nat
  /\ Sizes # {}
  /\ MaxReq \in Nat \ {0}
  /\ CfgInFlight \in BOOLEAN
  /\ ReplayOnBypass \in BOOLEAN

VARIABLES
  vld,       \* the valid entries
  frz,       \* the frozen entries: issued, waiting for the LSU
  agevec,    \* agevec[e]: the entries older than e
  isld,      \* the entries that hold a load (optype[0]); the others hold a store
  sizeM,     \* sizeM[e]: rows, latched when e was created
  sizeK,     \* sizeK[e]: bytes per row, latched when e was created
  row_cnt,   \* rows e still has to fetch, the current one included
  col_cnt,   \* bytes e still has to fetch of the current row
  move,      \* move_to_next: a beat was popped and another must be sent
  addr,      \* curr_addr - src0 of e, in units of Beat
  x_size,    \* the configuration registers <<x_sizeM, x_sizeK>>
  inflight,  \* inflight[e]: requests of e in the load pipeline (AG, DC, DA)
  depd,      \* the entries whose bit of the lfb_wakeup_queue is set
  lost       \* history: the entries whose request was refused and not replayed

vars == <<vld, frz, agevec, isld, sizeM, sizeK, row_cnt, col_cnt, move, addr,
          x_size, inflight, depd, lost>>

Init ==
  /\ vld = {} /\ frz = {} /\ move = {} /\ isld = {}
  /\ agevec = [e \in Entry |-> {}]
  /\ sizeM = [e \in Entry |-> 0] /\ sizeK = [e \in Entry |-> 0]
  /\ row_cnt = [e \in Entry |-> 0] /\ col_cnt = [e \in Entry |-> 0]
  /\ addr = [e \in Entry |-> 0]
  /\ x_size \in Sizes
  /\ inflight = [e \in Entry |-> 0]
  /\ depd = {} /\ lost = {}

-----------------------------------------------------------------------------
(* Combinational signals. *)

raw_rdy == vld \ frz

\* Grant: ready and no older entry is ready.
issue_en == {e \in raw_rdy : agevec[e] \cap raw_rdy = {}}

\* The lowest free entry, none when the queue is full: nothing stops an
\* instruction that arrives then, and no entry is created for it.
create_in == {e \in Entry \ vld : \A f \in Entry \ vld : e <= f}

entry_finish == {e \in vld : row_cnt[e] = 0 /\ col_cnt[e] = 0}

\* inst: what pipe 8 launches in this cycle ("none", "ld", "st").
Insts == {"none", "ld", "st"}
create(inst) == IF inst = "none" THEN {} ELSE create_in
bypass(inst) == inst # "none" /\ raw_rdy = {}

\* mat_lsq_lsu_entry and the entry whose request is a load (mat_lsq_lsu_ld_sel).
lsu_entry(inst) == IF bypass(inst) THEN create_in ELSE issue_en
ld_req(inst) ==
  IF bypass(inst) THEN (IF inst = "ld" THEN create_in ELSE {})
                  ELSE issue_en \cap isld

-----------------------------------------------------------------------------
(* The LSU seen from the queue.  An answer a tells what becomes of the       *)
(* requests in one cycle:                                                    *)
(*   fin   popped in DA, data at hand or not                                 *)
(*   wait  discarded in DA on an index hit: goes to the wakeup queue         *)
(*   lose  refused in DA (read buffer full, fence, store queue or write      *)
(*         buffer) or in DC (load queue full, TLB busy)                      *)
(*   rep   replayed, be it the request offered now (RF no-fire, AG stall) or *)
(*         one in the pipeline (DC wakeup, DA secd)                          *)
(*   wake  the wakeup queue, all of it, when the line it waits for has come  *)

OneOf(S)  == {{}} \cup {{e} : e \in S}
One(b)    == IF b THEN 1 ELSE 0
pipeline  == {e \in Entry : inflight[e] > 0}

held(inst, e) == inflight[e] + One(e \in ld_req(inst))
gone(a, e)    == One(e \in a.fin \cup a.wait) + One(e \in a.lose)

\* lsu_mat_ldst_wakeup: the refusals are no part of it.
replayed(a) == a.rep \cup a.wake

Answers(inst) ==
  {a \in [fin  : OneOf(pipeline),  wait : OneOf(pipeline),
          lose : SUBSET pipeline,  wake : {{}, depd},
          rep  : SUBSET (pipeline \cup lsu_entry(inst))] :
     /\ a.fin = {} \/ a.wait = {}
     /\ \A e \in pipeline : gone(a, e) <= inflight[e]
     /\ \A e \in a.rep : \/ held(inst, e) > gone(a, e)
                         \/ e \in lsu_entry(inst) \ ld_req(inst)
     /\ \A e \in ld_req(inst) : inflight[e] = MaxReq => e \in a.rep
     /\ bypass(inst) /\ ~ReplayOnBypass => replayed(a) \subseteq create_in}

Inflight(inst, a) ==
  [e \in Entry |->
     LET left == held(inst, e) - gone(a, e)
     IN  IF e \in a.rep /\ left > 0 THEN left - 1 ELSE left]

\* Mutant: a flush leaves the wakeup queue as it is.
Depd_no_flush(flush, a) == (depd \ a.wake) \cup a.wait
Depd(flush, a) == IF flush THEN {} ELSE (depd \ a.wake) \cup a.wait

-----------------------------------------------------------------------------
(* Register updates of one clock edge. *)

\* Mutants: a replayed entry stays frozen; a bypassed entry is left thawed.
Frz_no_replay(inst, a) ==
  {e \in Entry :
     IF e \in create(inst) THEN bypass(inst) /\ replayed(a) = {}
     ELSE e \notin move /\ e \in frz \cup issue_en}
Frz_no_bypass(inst, a) ==
  {e \in Entry : /\ e \notin create(inst) \cup replayed(a) \cup move
                 /\ e \in frz \cup issue_en}

\* A created entry starts frozen when its own request left in this cycle; the
\* code takes any replay as the sign that the bypass failed.
Frz(inst, a) ==
  {e \in Entry :
     IF e \in create(inst) THEN bypass(inst) /\ replayed(a) = {}
     ELSE e \notin replayed(a) \cup move /\ e \in frz \cup issue_en}

\* Mutant: an edge at which an instruction arrives gives no entry up.
Vld_arrival_first(inst) ==
  IF inst = "none" THEN vld \ entry_finish ELSE vld \cup create(inst)
Vld(inst) == (vld \ entry_finish) \cup create(inst)

\* Mutants: survivors keep the bits of finished entries; a new entry takes
\* nobody for older.
Agevec_stale(inst) ==
  [e \in Entry |-> IF e \in create(inst) THEN vld \ entry_finish ELSE agevec[e]]
Agevec_youngest(inst) ==
  [e \in Entry |-> IF e \in create(inst) THEN {} ELSE agevec[e] \ entry_finish]

Agevec(inst) ==
  [e \in Entry |-> IF e \in create(inst) THEN vld \ entry_finish
                                         ELSE agevec[e] \ entry_finish]

\* The data part of a created entry.
Latch(inst) ==
  /\ isld' = IF inst = "ld" THEN isld \cup create(inst) ELSE isld \ create(inst)
  /\ sizeM' = [e \in Entry |-> IF e \in create(inst) THEN x_size[1] ELSE sizeM[e]]
  /\ sizeK' = [e \in Entry |-> IF e \in create(inst) THEN x_size[2] ELSE sizeK[e]]

\* Mutant: a row ends only when nothing at all was left of it.
RowEnds_exact(e) == col_cnt[e] = 0
\* A popped beat ends a row when no more than Beat bytes of it were left.
RowEnds(e) == col_cnt[e] <= Beat

RowCnt(inst, a) ==
  [e \in Entry |->
     IF e \in create(inst) THEN x_size[1]
     ELSE IF e \in a.fin /\ RowEnds(e) /\ row_cnt[e] # 0 THEN row_cnt[e] - 1
     ELSE row_cnt[e]]

\* Mutant: the column counter is not reloaded for the next row.
ColCnt_no_reload(inst, a) ==
  [e \in Entry |->
     IF e \in create(inst) THEN x_size[2]
     ELSE IF e \in a.fin THEN IF ~RowEnds(e) THEN col_cnt[e] - Beat ELSE 0
     ELSE col_cnt[e]]

\* The next row is reloaded from the configuration register, not from sizeK.
ColCnt(inst, a) ==
  [e \in Entry |->
     IF e \in create(inst) THEN x_size[2]
     ELSE IF e \in a.fin THEN IF ~RowEnds(e) THEN col_cnt[e] - Beat
                            ELSE IF row_cnt[e] # 1 THEN x_size[2] ELSE 0
     ELSE col_cnt[e]]

\* Mutant: the entry is not thawed for its next row.
Move_within_row(a) == {e \in a.fin : ~RowEnds(e)}
Move(a) == {e \in a.fin : ~RowEnds(e) \/ row_cnt[e] # 1}

Addr(inst) ==
  [e \in Entry |-> IF e \in create(inst) THEN 0
                   ELSE IF e \in move THEN addr[e] + 1 ELSE addr[e]]

\* An mcfg instruction writes the size registers.
Configure(inst) ==
  x_size' \in IF CfgInFlight \/ (vld = {} /\ inst = "none") THEN Sizes ELSE {x_size}

-----------------------------------------------------------------------------
(* A clock edge without and with rtu_yy_xx_flush.  The flush clears the valid *)
(* bits and the counters, and in the LSU the valid bits of AG, DC and DA and  *)
(* the wakeup queue; frz, agevec and the latched data are not reset.  What   *)
(* the read buffer holds survives it, without the name of an entry.          *)

Clock(inst, a) ==
  /\ vld' = Vld(inst)
  /\ frz' = Frz(inst, a)
  /\ agevec' = Agevec(inst)
  /\ Latch(inst)
  /\ row_cnt' = RowCnt(inst, a)
  /\ col_cnt' = ColCnt(inst, a)
  /\ move' = Move(a)
  /\ addr' = Addr(inst)
  /\ Configure(inst)
  /\ inflight' = Inflight(inst, a)
  /\ depd' = Depd(FALSE, a)
  /\ lost' = (lost \cup a.lose) \ (replayed(a) \cup move \cup entry_finish)

Flush(inst, a) ==
  /\ vld' = {}
  /\ frz' = Frz(inst, a)
  /\ agevec' = Agevec(inst)
  /\ Latch(inst)
  /\ row_cnt' = [e \in Entry |-> 0]
  /\ col_cnt' = [e \in Entry |-> 0]
  /\ move' = {}
  /\ addr' = [e \in Entry |-> 0]
  /\ Configure(inst)
  /\ inflight' = [e \in Entry |-> 0]
  /\ depd' = Depd(TRUE, a)
  /\ lost' = {}

Next == \E inst \in Insts : \E a \in Answers(inst) : Clock(inst, a) \/ Flush(inst, a)

Spec == Init /\ [][Next]_vars

\* The clock keeps running; a line that is waited for comes and the queue is
\* woken; an entry that offers its request again and again is accepted at last,
\* and popped at last if its request is in DA again and again.  Nothing is said
\* of a request that was refused, nothing has to be created and nothing to be
\* flushed.
Edge(P(_, _)) ==
  \E inst \in Insts : \E a \in Answers(inst) : Clock(inst, a) /\ P(inst, a)
Tick       == Edge(LAMBDA inst, a : TRUE)
Pops(e)    == Edge(LAMBDA inst, a : e \in a.fin)
Accepts(e) == Edge(LAMBDA inst, a : e \in ld_req(inst) \ a.rep)
Wakes(e)   == Edge(LAMBDA inst, a : e \in a.wake)

Fairness ==
  /\ WF_vars(Tick)
  /\ \A e \in Entry : SF_vars(Pops(e)) /\ SF_vars(Accepts(e)) /\ WF_vars(Wakes(e))

FairSpec == Spec /\ Fairness
-----------------------------------------------------------------------------
(* Properties. *)

\* Type invariant.  A row or column counter never leaves the configured range.
TypeOK ==
  /\ vld \subseteq Entry /\ frz \subseteq Entry
  /\ move \subseteq Entry /\ isld \subseteq Entry
  /\ agevec \in [Entry -> SUBSET Entry]
  /\ sizeM \in [Entry -> Nat] /\ sizeK \in [Entry -> Nat]
  /\ row_cnt \in [Entry -> Nat] /\ col_cnt \in [Entry -> Nat]
  /\ addr \in [Entry -> Nat]
  /\ x_size \in Sizes
  /\ inflight \in [Entry -> 0 .. MaxReq]
  /\ depd \subseteq Entry /\ lost \subseteq Entry

\* The age vectors of the valid entries are a strict total order over them,
\* with no bit left for an entry that is gone: creation reads vld and
\* entry_finish of the same cycle, while every survivor clears its own bits.
AgeOrder ==
  /\ \A e \in vld : agevec[e] \subseteq vld \ {e}
  /\ \A e, f \in vld : e # f => (e \in agevec[f] <=> f \notin agevec[e])
  /\ \A e, f, g \in vld : e \in agevec[f] /\ f \in agevec[g] => e \in agevec[g]

\* The arbiter never grants two entries in a cycle.
OneGrant == \A e, f \in issue_en : e = f

\* The arbiter grants whenever an entry waits: no cycle of age bits blocks all.
GrantIfReady == raw_rdy # {} => issue_en # {}

\* Survivors keep their relative age over a clock edge, and an entry created at
\* the edge is younger than all of them.
AgePreserved ==
  [][\A e, f \in vld' :
       /\ e \in vld \ entry_finish /\ f \in vld \ entry_finish
            => (e \in agevec'[f] <=> e \in agevec[f])
       /\ e \in vld \ entry_finish /\ f \notin vld => e \in agevec'[f]]_vars

\* A frozen load has a request in the LSU, in the pipeline or in the wakeup
\* queue, or it was just popped, or it is one whose request was refused: no
\* replay, wakeup or move is lost on the side of the queue.
FrozenHasRequest ==
  \A e \in vld \cap frz \cap isld :
    e \in pipeline \cup depd \cup move \cup entry_finish \cup lost

\* An entry that waits to be issued has no request in the LSU: the comment on
\* mat_lsq_create_frz says that a replay makes the bypass fail.
ThawedHasNoRequest == raw_rdy \cap (pipeline \cup depd) = {}

\* A request that the LSU can still pop or replay belongs to an entry that is
\* valid and not given up at the next edge, across flushes as well: the answer
\* is never counted for, and never thaws, the entry's next owner.
NoOrphanRequest == pipeline \cup depd \subseteq vld \ entry_finish

\* Two entries never finish in one cycle: the one-hot multiplexers of the
\* completion would OR their issue-queue indices and destination registers.
OneFinish == \A e, f \in entry_finish : e = f

Beats(b) == (b + Beat - 1) \div Beat
Total(e) == sizeM[e] * Beats(sizeK[e])
\* Beats still to come, read from the counters.
Remaining(e) ==
  IF row_cnt[e] = 0 THEN 0
  ELSE (row_cnt[e] - 1) * Beats(sizeK[e]) + Beats(col_cnt[e])

\* The three counters of an entry agree: the address has advanced once per
\* popped beat, a pending move being the only lag.
CountersAgree ==
  \A e \in vld \ entry_finish :
    addr[e] + (IF e \in move THEN 1 ELSE 0) = Total(e) - Remaining(e)

\* The queue implements MatLoads: whatever the sizes, a load costs exactly
\* sizeM * ceil(sizeK / Beat) popped beats and then gives up its entry.
Loads == INSTANCE MatLoads WITH
  Place <- Entry, live <- vld, todo <- [e \in Entry |-> Remaining(e)],
  Amounts <- {s[1] * Beats(s[2]) : s \in Sizes}
ImplementsLoads == Loads!Spec

\* Every load leaves the queue, or its request was refused.
LoadsFinish == \A e \in Entry : (e \in vld \cap isld) ~> (e \notin vld \/ e \in lost)

\* A load whose request was refused stays, frozen, until a flush: the queue
\* has no input that would thaw it.
LostWaitsForFlush == [][vld' = {} \/ lost \subseteq lost' \cap vld' \cap frz']_vars
=============================================================================
