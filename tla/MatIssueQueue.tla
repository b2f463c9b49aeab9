--------------------------- MODULE MatIssueQueue ---------------------------
(***************************************************************************)
(* The matrix issue queue (ct_mat_idu_is_miq.sv, ct_mat_idu_is_miq_entry.sv)*)
(* with the register-file stage of pipe 8 it feeds and the units behind it. *)
(*                                                                         *)
(* Two instructions can be dispatched into the queue in a cycle.  The oldest*)
(* ready entry that has no older mcfg is issued: it freezes and goes to the *)
(* register-file stage (RF), where its launch passes or fails.  A failed    *)
(* launch thaws the entry.  A launched mcfg leaves the queue at once; a load*)
(* or store leaves when the LSU side reports its finish, an arithmetic      *)
(* instruction when the row counter of the arithmetic unit runs out.        *)
(*                                                                         *)
(* Which operands are ready is an input here (srcrdy).  A step is one clock *)
(* edge.  Sizes are abstracted: what matters is WHICH mcfg wrote them, so an*)
(* instruction carries the number of mcfg instructions before it (epoch).   *)
(***************************************************************************)
EXTENDS Integers, FiniteSets, Sequences

CONSTANTS
  N,       \* entries of the queue (12 in the code)
  CntMod,  \* miq_entry_cnt counts modulo this (16 in the code)
  Rows,    \* the values sizeM takes, the cycles of an arithmetic instruction
  MaxCfg,  \* bound: mcfg instructions dispatched
  Allowed  \* what the surroundings may do, a subset of Events

Entry == 0 .. N - 1

\* "dual": two instructions are dispatched in one cycle; "overrun": one is
\* dispatched although miq_entry_cnt leaves no place for it; "flush": the RTU
\* flushes; "alu_fail": the launch of an arithmetic instruction fails in RF;
\* "pop_with_finish": an mcfg pops in a cycle in which a finish pops an entry.
Events == {"dual", "overrun", "flush", "alu_fail", "pop_with_finish"}

ASSUME MiqAssumption ==
  /\ N \in Nat \ {0}
  /\ CntMod \in Nat /\ CntMod > N
  /\ Rows \subseteq Nat /\ Rows # {}
  /\ MaxCfg \in Nat
  /\ Allowed \subseteq Events

\* An instruction: its unit and its epoch.
Kinds == {"cal", "lsu", "cfg"}
Inst  == [kind : Kinds, epoch : 0 .. MaxCfg]
Reset == [kind |-> "none", epoch |-> 0]

VARIABLES
  vld,      \* the valid entries
  frz,      \* the valid entries that are frozen: issued
  agevec,   \* agevec[e]: the entries older than e (kept empty when e is not valid)
  data,     \* data[e]: the instruction latched in e, stale when e is not valid
  cnt,      \* miq_entry_cnt
  rf,       \* the RF stage of pipe 8: [vld, entry (one-hot, a set), inst]
  cfg_ex1,  \* the epochs of the mcfg in ex1 of the configuration unit, at most one
  x_epoch,  \* the epoch of the mcfg that last wrote the size registers
  lsu,      \* entries with a load or store in the load/store unit
  alu_iq,   \* mat_alu_ex1_iq_entry, a set
  alu_cnt,  \* ex_finish_count
  dis,      \* the instructions stalled in dispatch, <<>> when none is
  epoch,    \* mcfg instructions dispatched so far in program order
  flush     \* flush_cur_state of the RTU

vars == <<vld, frz, agevec, data, cnt, rf, cfg_ex1, x_epoch, lsu, alu_iq,
          alu_cnt, dis, epoch, flush>>

Init ==
  /\ vld = {} /\ frz = {} /\ cnt = 0
  /\ agevec = [e \in Entry |-> {}]
  /\ data = [e \in Entry |-> Reset]
  /\ rf = [vld |-> FALSE, entry |-> {}, inst |-> Reset]
  /\ cfg_ex1 = {} /\ x_epoch = 0
  /\ lsu = {} /\ alu_iq = {} /\ alu_cnt = 0
  /\ dis = <<>> /\ epoch = 0 /\ flush = "idle"

-----------------------------------------------------------------------------
(* Signals: issue. *)

\* Mutant: an mcfg that is issued does not block any more.
mcfg_waiting == {e \in vld \ frz : data[e].kind = "cfg"}
\* Not qualified by vld: a stale mcfg blocks whoever still has its age bit.
mcfg == {e \in Entry : data[e].kind = "cfg"}

entry_ready(srcrdy) == (vld \ frz) \cap srcrdy

issue_en(srcrdy) ==
  {e \in entry_ready(srcrdy) : /\ agevec[e] \cap entry_ready(srcrdy) = {}
                               /\ agevec[e] \cap mcfg = {}}
\* The RF stage becomes valid on this signal, which ignores older ready entries.
xx_issue_en(srcrdy) == \E e \in entry_ready(srcrdy) : agevec[e] \cap mcfg = {}

(* Signals: launch from RF, finish and pop. *)

launched(kind, fail) == rf.vld /\ ~fail /\ rf.inst.kind = kind
rf_pop_vld(fail) == launched("cfg", fail)

\* ct_mat_src_oh_binary: the OR of the indices of a one-hot vector, 0 if empty.
Idx(S) == LET bit(j) == IF \E e \in S : (e \div j) % 2 = 1 THEN j ELSE 0
          IN  bit(1) + bit(2) + bit(4) + bit(8)

alu_finish == alu_cnt = 1

\* Mutant: both indices pop, the one of an idle unit as well.
ex_pop_either(fin) ==
  IF fin # {} \/ alu_finish THEN {Idx(fin), Idx(alu_iq)} ELSE {}
\* The entries popped by a finish: the AND of the one-hot finish vectors of the
\* two units.  A unit that finishes nothing shows the index it happens to hold.
ex_pop(fin) ==
  IF fin # {} \/ alu_finish THEN {Idx(fin)} \cap {Idx(alu_iq)} ELSE {}

(* Signals: creation. *)

full == cnt = N
\* Creation 0 takes the lowest free entry, creation 1 the highest.
create0_in == {e \in Entry \ vld : \A f \in Entry \ vld : e <= f}
create1_in == {e \in Entry \ vld : \A f \in Entry \ vld : e >= f}

creates(ins, stall) == IF stall THEN 0 ELSE Len(ins)
create_en(ins, stall) ==
  (IF creates(ins, stall) >= 1 THEN create0_in ELSE {}) \cup
  (IF creates(ins, stall) = 2 THEN create1_in ELSE {})
\* The data registers are written even while dispatch stalls.
dp_en(ins, k) == Len(ins) >= k /\ ~full
create_dp_en(ins) ==
  (IF dp_en(ins, 1) THEN create0_in ELSE {}) \cup
  (IF dp_en(ins, 2) THEN create1_in ELSE {})

\* miq_entry_create_sel: the lower half takes creation 0 when it is selected
\* for it, the upper half creation 1.
from1(ins, e) == IF e < N \div 2 THEN ~(dp_en(ins, 1) /\ e \in create0_in)
                                 ELSE dp_en(ins, 2) /\ e \in create1_in

\* What a created entry must not take for older: what ends in the same cycle.
ending(fail, fin) == (IF rf_pop_vld(fail) THEN rf.entry ELSE {})
                     \cup (IF fin # {} THEN {Idx(fin)} ELSE {})
                     \cup (IF alu_finish THEN {Idx(alu_iq)} ELSE {})

\* Mutants: a created entry takes an entry that pops in the same cycle for
\* older; the second of two created entries does not see the first.
CreateAge_stale(ins, fail, fin, e) ==
  (vld \cup (IF from1(ins, e) THEN create0_in ELSE {})) \ {e}
CreateAge_single(ins, fail, fin, e) == (vld \ ending(fail, fin)) \ {e}

CreateAge(ins, fail, fin, e) ==
  ((vld \ ending(fail, fin))
    \cup (IF from1(ins, e) THEN create0_in ELSE {})) \ {e}

-----------------------------------------------------------------------------
(* The surroundings: what is dispatched and the answers of the units. *)

flush_fe == flush \in {"fe", "fe_be"}   \* rtu_idu_flush_fe or rtu_idu_flush_is
flush_be == flush \in {"be", "fe_be"}   \* rtu_yy_xx_flush

KindSeqs == {<<>>} \cup {<<k>> : k \in Kinds} \cup
            (IF "dual" \in Allowed THEN Kinds \X Kinds ELSE {})
cfgs(ks, i) == Cardinality({j \in 1 .. i : ks[j] = "cfg"})
Tagged(ks) ==
  [i \in 1 .. Len(ks) |-> [kind |-> ks[i], epoch |-> epoch + cfgs(ks, i)]]

\* Stalled instructions are presented again; none is dispatched while the RTU
\* waits to flush the back end.
Presented ==
  IF dis # <<>> THEN {dis}
  ELSE {Tagged(ks) : ks \in {ks \in KindSeqs :
          /\ ks # <<>> => flush \in {"idle", "fe", "fe_be"}
          /\ epoch + cfgs(ks, Len(ks)) <= MaxCfg}}

Inputs(ins, stall, fail, fin) ==
  /\ stall => ins # <<>>
  /\ creates(ins, stall) > 0 /\ "overrun" \notin Allowed =>
       /\ cnt + creates(ins, stall) <= N
       /\ creates(ins, stall) <= Cardinality(Entry \ vld)
  /\ fail => rf.vld /\ (rf.inst.kind = "cal" => "alu_fail" \in Allowed)
  /\ fin \subseteq lsu
  /\ rf_pop_vld(fail) /\ ex_pop(fin) # {} => "pop_with_finish" \in Allowed

-----------------------------------------------------------------------------
(* Register updates of one clock edge. *)

Vld(ins, stall, fail, fin) ==
  IF flush_fe THEN {}
  ELSE (vld \ (IF rf_pop_vld(fail) THEN rf.entry \cup ex_pop(fin) ELSE ex_pop(fin)))
       \cup create_en(ins, stall)

Frz(ins, stall, srcrdy, fail) ==
  ((frz \cup issue_en(srcrdy)) \ (IF fail THEN rf.entry ELSE {}))
  \ create_en(ins, stall)

\* Mutant: the survivors keep the bit of an mcfg that pops.
Agevec_keep(ins, stall, fail, fin) ==
  [e \in Entry |-> IF e \in create_en(ins, stall) THEN CreateAge(ins, fail, fin, e)
                                               ELSE agevec[e] \ ex_pop(fin)]
\* The branches of one if: a finish in the cycle of an mcfg pop is not seen.
Agevec(ins, stall, fail, fin) ==
  [e \in Entry |->
     IF e \in create_en(ins, stall) THEN CreateAge(ins, fail, fin, e)
     ELSE agevec[e] \ (IF rf_pop_vld(fail) THEN rf.entry ELSE ex_pop(fin))]

Data(ins) ==
  [e \in Entry |-> IF e \in create_dp_en(ins)
                   THEN ins[IF from1(ins, e) THEN 2 ELSE 1] ELSE data[e]]

\* Mutant: an mcfg pop is counted as two.
Cnt_pop_twice(ins, stall, fail, fin) ==
  IF flush_fe \/ flush_be THEN 0
  ELSE (cnt + creates(ins, stall) - (IF rf_pop_vld(fail) THEN 2 ELSE 0)
        - Cardinality(fin) - (IF alu_finish THEN 1 ELSE 0)) % CntMod
Cnt(ins, stall, fail, fin) ==
  IF flush_fe \/ flush_be THEN 0
  ELSE (cnt + creates(ins, stall) - (IF rf_pop_vld(fail) THEN 1 ELSE 0)
        - Cardinality(fin) - (IF alu_finish THEN 1 ELSE 0)) % CntMod

\* Mutant: the RF stage survives a flush of the front end.
Rf_no_flush(srcrdy) ==
  IF ~xx_issue_en(srcrdy)
  THEN {[vld |-> FALSE, entry |-> {}, inst |-> Reset]}
  ELSE {[vld |-> TRUE, entry |-> issue_en(srcrdy), inst |-> i] :
          i \in IF Cardinality(issue_en(srcrdy)) = 1
                THEN {data[e] : e \in issue_en(srcrdy)} ELSE Inst}
\* With no or several entries granted the instruction read is X.
Rf(srcrdy) ==
  IF flush_fe \/ ~xx_issue_en(srcrdy)
  THEN {[vld |-> FALSE, entry |-> {}, inst |-> Reset]}
  ELSE {[vld |-> TRUE, entry |-> issue_en(srcrdy), inst |-> i] :
          i \in IF Cardinality(issue_en(srcrdy)) = 1
                THEN {data[e] : e \in issue_en(srcrdy)} ELSE Inst}

FlushNext ==
  IF "flush" \notin Allowed THEN {"idle"}
  ELSE {"fe_be"} \cup CASE flush = "idle" -> {"idle", "fe"}
                        [] flush \in {"fe", "wait"} -> {"wait", "be"}
                        [] OTHER -> {"idle"}

\* The configuration unit: ex1, then the size registers.
Configure(fail) ==
  /\ cfg_ex1' = IF launched("cfg", fail) /\ ~flush_be THEN {rf.inst.epoch} ELSE {}
  /\ x_epoch' \in IF cfg_ex1 = {} THEN {x_epoch} ELSE cfg_ex1

\* Mutant: the counter does not stop at 0.
Arith_no_stop ==
  LET sel == rf.vld /\ rf.inst.kind = "cal"
  IN  /\ alu_iq' = IF sel THEN rf.entry ELSE alu_iq
      /\ alu_cnt' \in IF sel THEN Rows ELSE {alu_cnt - 1}
\* The arithmetic unit: its registers follow the gated-clock select, which is
\* raised by a failed launch as well, and are not flushed.
Arith ==
  LET sel == rf.vld /\ rf.inst.kind = "cal"
  IN  /\ alu_iq' = IF sel THEN rf.entry ELSE alu_iq
      /\ alu_cnt' \in IF sel THEN Rows ELSE {IF alu_cnt = 0 THEN 0 ELSE alu_cnt - 1}

Clock(ins, stall, srcrdy, fail, fin) ==
  /\ Inputs(ins, stall, fail, fin)
  /\ vld' = Vld(ins, stall, fail, fin)
  /\ frz' = Frz(ins, stall, srcrdy, fail) \cap vld'
  /\ agevec' = [e \in Entry |-> IF e \in vld' THEN Agevec(ins, stall, fail, fin)[e]
                                               ELSE {}]
  /\ data' = Data(ins)
  /\ cnt' = Cnt(ins, stall, fail, fin)
  /\ rf' \in Rf(srcrdy)
  /\ Configure(fail)
  /\ Arith
  /\ lsu' = IF flush_be THEN {}
            ELSE (lsu \ fin) \cup (IF launched("lsu", fail) THEN rf.entry ELSE {})
  /\ dis' = IF stall /\ ~flush_fe THEN ins ELSE <<>>
  /\ epoch' = IF flush_be THEN x_epoch'
              ELSE epoch + (IF dis = <<>> THEN cfgs([i \in DOMAIN ins |-> ins[i].kind],
                                                    Len(ins)) ELSE 0)
  /\ flush' \in FlushNext

Next == \E ins \in Presented, stall \in BOOLEAN, srcrdy \in SUBSET (vld \ frz),
           fail \in BOOLEAN, fin \in {{}} \cup {{e} : e \in lsu} :
          Clock(ins, stall, srcrdy, fail, fin)

Spec == Init /\ [][Next]_vars

\* Again and again all operands are ready in one cycle (AllReady), and the
\* launch of an entry does not fail each time it is in RF (Passes).
Step(Chosen(_, _)) ==
  \E ins \in Presented, stall \in BOOLEAN, srcrdy \in SUBSET (vld \ frz),
     fail \in BOOLEAN, fin \in {{}} \cup {{e} : e \in lsu} :
    Chosen(srcrdy, fail) /\ Clock(ins, stall, srcrdy, fail, fin)
AllReady == LET all(srcrdy, fail) == srcrdy = vld \ frz /\ srcrdy # {} IN Step(all)
Passes(e) == LET passes(srcrdy, fail) == rf.vld /\ e \in rf.entry /\ ~fail
             IN  Step(passes)

FairSpec == Spec /\ SF_vars(AllReady) /\ \A e \in Entry : SF_vars(Passes(e))

-----------------------------------------------------------------------------
(* Properties. *)

TypeOK ==
  /\ vld \subseteq Entry /\ frz \subseteq vld
  /\ agevec \in [Entry -> SUBSET Entry]
  /\ data \in [Entry -> Inst \cup {Reset}]
  /\ cnt \in 0 .. CntMod - 1
  /\ rf \in [vld : BOOLEAN, entry : SUBSET Entry, inst : Inst \cup {Reset}]
  /\ cfg_ex1 \in SUBSET (0 .. MaxCfg) /\ x_epoch \in 0 .. MaxCfg
  /\ lsu \subseteq Entry /\ alu_iq \subseteq Entry /\ alu_cnt \in Nat
  /\ dis \in {<<>>} \cup (UNION {[1 .. k -> Inst] : k \in {1, 2}})
  /\ epoch \in 0 .. MaxCfg
  /\ flush \in {"idle", "fe", "wait", "be", "fe_be"}

\* The entries whose instruction has not finished: waiting for issue, in RF, or
\* in a unit.
live == {e \in vld : \/ e \notin frz
                     \/ rf.vld /\ e \in rf.entry
                     \/ e \in lsu
                     \/ alu_cnt > 0 /\ e \in alu_iq}

\* "each bit 1 means the entry at that position is older, 0 the contrary" (the
\* comment on the age vector): over the unfinished entries the vectors are a
\* strict total order, and no bit names an entry that has left.
AgeOrder ==
  /\ \A e \in live : agevec[e] \subseteq vld \ {e}
  /\ \A e, f \in live : e # f => (e \in agevec[f] <=> f \notin agevec[e])
  /\ \A e, f, g \in live : e \in agevec[f] /\ f \in agevec[g] => e \in agevec[g]

\* Whichever operands are ready, a cycle that makes the RF stage valid grants
\* exactly one entry: two, or none, would latch an X instruction.
OneIssue ==
  \A r \in SUBSET (vld \ frz) :
    xx_issue_en(r) => Cardinality(issue_en(r)) = 1

\* "an older mcfg that has not been issued blocks the issue": an instruction
\* reaches RF only when every mcfg before it in program order has written the
\* size registers, and mcfg instructions execute in program order.
CfgBarrier ==
  rf.vld => IF rf.inst.kind = "cfg" THEN \A c \in cfg_ex1 \cup {x_epoch} : c < rf.inst.epoch
                                    ELSE x_epoch >= rf.inst.epoch

\* Outside a flush, what is in RF or in the LSU is frozen and nothing the
\* arithmetic unit works on waits for issue: no instruction is issued twice and
\* none has taken the entry of one under way.
IssuedOnce ==
  flush = "idle" =>
    /\ rf.vld => rf.entry \subseteq frz /\ rf.entry \cap lsu = {}
    /\ lsu \subseteq frz
    /\ alu_cnt > 0 => alu_iq \cap (vld \ frz) = {}

\* The counter never says less than the number of unfinished instructions.
CounterCovers == cnt >= Cardinality(live) /\ cnt <= N

\* Every instruction that waits in the queue is issued: age bits and the mcfg
\* barrier block it for a while only.
WaitingIssues == \A e \in Entry : (e \in vld \ frz) ~> (e \notin vld \ frz)

(* What comments of the code say, and the code does not do. *)

\* "popped from the ex stage" (the comment on the branches of vld taken at a
\* finish): no entry stays valid once its instruction has finished.
FinishedArePopped == vld = live

\* "after flush fe/is, the rf may wrongly pop before rtu_yy_xx_flush: need flush
\* also when rtu_yy_xx_flush" (the comment on the counter), and "full is used to
\* stall dispatch": outside a flush the counter says no more than there is.
CountInRange == flush = "idle" => cnt <= N
=============================================================================
