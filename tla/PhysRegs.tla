------------------------------ MODULE PhysRegs ------------------------------
(***************************************************************************)
(* The integer physical registers of a C910 core between rename and        *)
(* release, and the copy of the architectural registers that the simulator *)
(* keeps of them:                                                          *)
(*   ct_rtu_pst_preg.v        four allocation registers, allocator,        *)
(*                            release vector                               *)
(*   ct_rtu_pst_preg_entry.sv life cycle and write-back state of one preg  *)
(*   ct_idu_ir_rt.v           speculative rename table and its recovery    *)
(*   ct_rtu_retire.v          flush state machine, which waits for the     *)
(*                            write-back of what has retired               *)
(*   reg.cpp                  int_renameTable and int_regfile, written by  *)
(*                            DPI calls from the entries and from the      *)
(*                            register file                                *)
(* Floating-point registers have an entry module of the same text          *)
(* (ct_rtu_pst_vreg_entry.sv) and the same two calls.                      *)
(*                                                                         *)
(* The state is that after the synchronous reset: the first registers are  *)
(* mapped.  Preg 0 is the constant of x0, never allocated and left out;    *)
(* here 0 is "no preg".  A step is one clock edge.  Its inputs are what    *)
(* the rest of the core does in the cycle.                                 *)
(***************************************************************************)
EXTENDS Integers, Sequences, FiniteSets

CONSTANTS
    NA,         \* architectural registers, x0 left out (31 in the code)
    NP,         \* physical registers, preg 0 left out (95)
    Width,      \* instructions with a destination renamed in one cycle (4)
    RetireWidth \* instructions retired in one cycle (3)

Arch  == 1..NA
Pregs == 1..NP
Slots == 0..3                   \* instructions of a packet, allocation registers
Temp  == NA + 1                 \* x32, between the parts of a split instruction
None  == 0

ASSUME PregsAssumption == /\ NA \in Nat \ {0} /\ NP \in Nat /\ NP > NA
                          /\ Width \in 1..4 /\ RetireWidth \in Nat

VARIABLES
    life,       \* life cycle state of each preg
    wb,         \* its write-back state: TRUE is WB, FALSE is IDLE
    info,       \* dst_reg and rel_preg of its entry
    alloc,      \* the four allocation registers
    rt,         \* speculative rename table
    is,         \* renamed instructions in the IS stage, in program order
    rob,        \* pregs of the dispatched instructions, oldest first
    flush,      \* state of the flush machine
    async,      \* retire_pst_async_flush
    stall,      \* idu_mispred_stall: a mispredicted jump has been executed
    table,      \* hart_rename_table.int_renameTable
    owed,       \* results still to be written to a preg: int_regfile holds the
                \* result of the last instruction that got the preg iff none is
                \* (what an asynchronous flush kills is nobody's result)
    arch        \* ghost: the preg of the last retired writer of each register

vars == <<life, wb, info, alloc, rt, is, rob, flush, async, stall, table, owed,
          arch>>

Least(S)    == IF S = {} THEN None ELSE CHOOSE p \in S : \A q \in S : p <= q
Greatest(S) == IF S = {} THEN None ELSE CHOOSE p \in S : \A q \in S : p >= q

\* The entry keeps dst_reg and rel_preg until the next creation; nothing reads
\* rel_preg after the retirement nor dst_reg after the release.
Unread == [dst |-> 0, rel |-> None]

Init ==
    /\ life  = [p \in Pregs |-> IF p <= NA THEN "RETIRE" ELSE "DEALLOC"]
    /\ wb    = [p \in Pregs |-> p <= NA]
    /\ info  = [p \in Pregs |-> [Unread EXCEPT !.dst = IF p <= NA THEN p ELSE 0]]
    /\ alloc = [i \in Slots |-> None]
    /\ rt    = [a \in Arch |-> a]
    /\ is = <<>> /\ rob = <<>>
    /\ flush = "IDLE" /\ async = FALSE /\ stall = FALSE
    /\ table = [a \in Arch |-> a]
    /\ owed  = [p \in Pregs |-> 0]
    /\ arch  = [a \in Arch |-> a]

-----------------------------------------------------------------------------
(* The flush state machine.                                                *)

yy_xx_flush == flush \in {"BE", "IS_BE", "FE_BE"}
flush_is    == flush \in {"IS", "IS_BE"}
flush_fe    == flush \in {"FE", "FE_BE"}

\* Everything that retires in this cycle, has retired or is released has
\* been written back (pst_retire_retired_reg_wb).
retired_reg_wb(retired) ==
    \A p \in Pregs : p \in retired \/ life[p] \in {"RETIRE", "RELEASE"} => wb[p]

\* Mutant: the back end is flushed without waiting for the write-back.
FlushNext_no_wait(event, retired, committed) ==
    IF event = "async" THEN "FE_BE"
    ELSE CASE flush = "IDLE" /\ event = "expt"    -> "FE"
           [] flush = "IDLE" /\ event = "mispred" -> "IS"
           [] flush \in {"IS", "FE"}              -> "BE"
           [] OTHER -> "IDLE"
\* `committed' is lsu_rtu_all_commit_data_vld.
FlushNext(event, retired, committed) ==
    LET empty == retired_reg_wb(retired) /\ committed
    IN IF event = "async" THEN "FE_BE"
       ELSE CASE flush = "IDLE" /\ event = "expt"    -> IF empty THEN "FE_BE" ELSE "FE"
              [] flush = "IDLE" /\ event = "mispred" -> IF empty THEN "IS_BE" ELSE "IS"
              [] flush \in {"IS", "FE", "WF_EMPTY"}  -> IF empty THEN "BE" ELSE "WF_EMPTY"
              [] OTHER -> "IDLE"

-----------------------------------------------------------------------------
(* The allocator.  Three searches over the free pregs feed four registers; *)
(* the last register takes what register 0 or 1 does not need.             *)

Free == {p \in Pregs : life[p] = "DEALLOC"}
d0 == Least(Free)
d1 == Greatest(Free)
d2 == Least(Free \ {d0})
vec0 == {d0} \ {None}
vec1 == {d1} \ {d0}
vec2 == {d2} \ {d1, None}

\* `invalid': the allocation registers that are empty or given away now.
dealloc_vld(invalid) ==
    (IF 0 \in invalid THEN vec0 ELSE {}) \cup
    (IF 1 \in invalid THEN vec1 ELSE {}) \cup
    (IF 2 \in invalid THEN vec2 ELSE {}) \cup
    (IF 3 \in invalid /\ ~({0, 1} \subseteq invalid)
     THEN IF 0 \in invalid THEN vec1 ELSE vec0 ELSE {})

\* Mutant: register 3 takes the first free preg although register 0 takes it.
dealloc_preg_shared(i, invalid) ==
    CASE i \in {0, 3} -> d0
      [] i = 1 -> IF Free \ {d0} = {} THEN None ELSE d1
      [] i = 2 -> IF Free \ {d0, d1} = {} THEN None ELSE d2

dealloc_preg(i, invalid) ==
    LET second == IF Free \ {d0} = {} THEN None ELSE d1
    IN CASE i = 0 -> d0
         [] i = 1 -> second
         [] i = 2 -> IF Free \ {d0, d1} = {} THEN None ELSE d2
         [] i = 3 -> IF 0 \notin invalid THEN d0
                     ELSE IF 1 \notin invalid THEN second ELSE None

Alloc(taken) ==
    LET invalid == {i \in Slots : alloc[i] = None \/ i \in taken}
    IN [i \in Slots |-> IF yy_xx_flush THEN None
                        ELSE IF i \in invalid THEN dealloc_preg(i, invalid)
                        ELSE alloc[i]]

-----------------------------------------------------------------------------
(* Rename, dispatch, write-back.                                           *)

\* The slots S in program order.
InOrder(S) ==
    CHOOSE s \in [1..Cardinality(S) -> S] : \A i, j \in DOMAIN s : i < j => s[i] < s[j]

\* Mutant: a second writer of the packet releases what the first one should.
Renamed_same(S, d) ==
    LET slot == InOrder(S)
    IN [n \in 1..Len(slot) |->
          LET i == slot[n]
          IN [preg |-> alloc[i], dst |-> d[i],
              rel |-> IF d[i] = Temp THEN alloc[i] ELSE rt[d[i]]]]
\* The instructions at slots S with destinations d, in program order.  An
\* instruction releases what its destination was mapped to; a part of a split
\* instruction that writes x32 releases its own preg.
Renamed(S, d) ==
    LET slot == InOrder(S)
        earlier(i) == {j \in S : j < i /\ d[j] = d[i]}
    IN [n \in 1..Len(slot) |->
          LET i == slot[n]
          IN [preg |-> alloc[i], dst |-> d[i],
              rel |-> IF d[i] = Temp THEN alloc[i]
                      ELSE IF earlier(i) = {} THEN rt[d[i]]
                      ELSE alloc[Greatest(earlier(i))]]]

\* Mutant: an asynchronous flush does not recover the table.
RenameTable_async(S, d) ==
    [a \in Arch |->
        IF yy_xx_flush /\ ~async THEN CHOOSE p \in Pregs : life[p] = "RETIRE" /\ info[p].dst = a
        ELSE LET writers == {i \in S : d[i] = a}
             IN IF writers = {} THEN rt[a] ELSE alloc[Greatest(writers)]]

RenameTable(S, d) ==
    [a \in Arch |->
        IF yy_xx_flush THEN CHOOSE p \in Pregs : life[p] = "RETIRE" /\ info[p].dst = a
        ELSE LET writers == {i \in S : d[i] = a}
             IN IF writers = {} THEN rt[a] ELSE alloc[Greatest(writers)]]

\* A packet is renamed when the registers it needs are valid and nothing
\* stalls the IR stage.
CanRename(S, dispatched) ==
    /\ \A i \in S : alloc[i] # None
    /\ flush = "IDLE" /\ ~stall
    /\ is = <<>> \/ dispatched

\* Mutant: a released preg is free at once, its result may still be on its way.
LifeNext_no_wait(p, granted, created, retired, released, masked) ==
    CASE life[p] = "DEALLOC" ->
              IF p \in granted /\ ~yy_xx_flush THEN "WF_ALLOC" ELSE "DEALLOC"
      [] life[p] = "WF_ALLOC" ->
              IF yy_xx_flush THEN "DEALLOC"
              ELSE IF p \in created THEN "ALLOC" ELSE "WF_ALLOC"
      [] life[p] = "ALLOC" ->
              IF yy_xx_flush \/ p \in released THEN "DEALLOC"
              ELSE IF p \in retired THEN "RETIRE" ELSE "ALLOC"
      [] OTHER -> IF p \in released THEN "DEALLOC" ELSE life[p]

\* The life cycle of a preg over one edge (lifecycle_next_state).
LifeNext(p, granted, created, retired, released, masked) ==
    LET wb_masked == wb[p] /\ p \notin masked
    IN CASE life[p] = "DEALLOC" ->
              IF p \in granted /\ ~yy_xx_flush THEN "WF_ALLOC" ELSE "DEALLOC"
         [] life[p] = "WF_ALLOC" ->
              IF yy_xx_flush THEN "DEALLOC"
              ELSE IF p \in created THEN "ALLOC" ELSE "WF_ALLOC"
         [] life[p] = "ALLOC" ->
              IF yy_xx_flush THEN "DEALLOC"
              ELSE IF p \in released THEN IF wb_masked THEN "DEALLOC" ELSE "RELEASE"
              ELSE IF p \in retired THEN "RETIRE" ELSE "ALLOC"
         [] life[p] = "RETIRE" ->
              IF p \in released THEN IF wb_masked THEN "DEALLOC" ELSE "RELEASE"
              ELSE "RETIRE"
         [] life[p] = "RELEASE" -> IF wb_masked THEN "DEALLOC" ELSE "RELEASE"

\* Mutant: an asynchronous flush leaves the write-back states alone.
WbNext_no_async(p, created, written) ==
    IF p \in created THEN FALSE
    ELSE IF wb[p] THEN life[p] # "DEALLOC"
    ELSE p \in written

\* Its write-back state (wb_cur_state).
WbNext(p, created, written) ==
    IF async THEN TRUE
    ELSE IF p \in created THEN FALSE
    ELSE IF wb[p] THEN life[p] # "DEALLOC"
    ELSE p \in written

\* Mutant: the simulator is told of a retirement before the write-back only.
SyncTable_unwritten(life1) ==
    [a \in Arch |->
        LET entered == {p \in Pregs : /\ life1[p] = "RETIRE" /\ life[p] = "ALLOC"
                                      /\ info[p].dst = a /\ ~wb[p]}
        IN IF entered = {} THEN table[a] ELSE CHOOSE p \in entered : TRUE]
\* sync_int_rename_table: called by the entry whose x_dreg has become non-zero.
SyncTable(life1) ==
    [a \in Arch |->
        LET entered == {p \in Pregs : /\ life1[p] = "RETIRE" /\ life[p] # "RETIRE"
                                      /\ info[p].dst = a}
        IN IF entered = {} THEN table[a] ELSE CHOOSE p \in entered : TRUE]

\* read_hart_reg reads the copy of this preg.
read_hart_reg(a) == table[a]

\* Results that nobody will write: those of instructions killed by the flush,
\* with an asynchronous flush those of retired loads, too.
Abandoned == {p \in Pregs : \/ yy_xx_flush /\ life[p] \notin {"RETIRE", "RELEASE"}
                            \/ async}

\* write_int_phyRegfile: called with each write of the register file.
WriteFile(created, written) ==
    [p \in Pregs |-> IF p \in Abandoned THEN 0
                     ELSE owed[p] + (IF p \in created THEN 1 ELSE 0)
                                  - (IF p \in written THEN 1 ELSE 0)]

\* The architectural registers after n retirements, as the program sees them.
Retired(n) ==
    [a \in Arch |->
        LET writers == {i \in 1..n : info[rob[i]].dst = a}
        IN IF writers = {} THEN arch[a] ELSE rob[Greatest(writers)]]

(* One clock edge.  Inputs: the packet S, d in the IR stage, whether the IS *)
(* stage dispatches; `n' instructions retire, `event' is what the oldest    *)
(* one or the debugger asks of the flush machine or that the jump unit      *)
(* cancels the front end, the results written, the pregs a waiting store    *)
(* still reads (x_dealloc_mask) and whether the LSU has its committed data. *)

Rename(S, d) ==
    /\ alloc' = Alloc(S)
    /\ rt'    = RenameTable(S, d)

Stages(S, d, dispatch, n, event) ==
    LET rob_flush == event \in {"expt", "mispred", "async"} \/ flush_is \/ flush_fe
    IN /\ is'  = IF flush_fe \/ event = "cancel" THEN <<>>
                 ELSE IF S # {} THEN Renamed(S, d)
                 ELSE IF dispatch THEN <<>> ELSE is
       /\ rob' = IF rob_flush THEN <<>>
                 ELSE SubSeq(rob, n + 1, Len(rob)) \o
                      IF dispatch THEN [j \in 1..Len(is) |-> is[j].preg] ELSE <<>>
       /\ arch' = Retired(n)

Flush(event, retired) ==
    /\ flush' \in {FlushNext(event, retired, committed) : committed \in BOOLEAN}
    /\ async' = (event = "async")
    /\ stall' = (~yy_xx_flush /\ (stall \/ event = "cancel"))

Entries(granted, created, retired, released, written, masked) ==
    /\ life' = [p \in Pregs |-> LifeNext(p, granted, created, retired, released, masked)]
    /\ wb'   = [p \in Pregs |-> WbNext(p, created, written)]
    /\ info' = [p \in Pregs |->
                  IF p \in created
                  THEN LET j == CHOOSE j \in 1..Len(is) : is[j].preg = p
                       IN [dst |-> is[j].dst, rel |-> is[j].rel]
                  ELSE CASE life'[p] = "ALLOC"  -> info[p]
                         [] life'[p] = "RETIRE" -> [info[p] EXCEPT !.rel = None]
                         [] OTHER               -> Unread]
    /\ table' = SyncTable(life')
    /\ owed'  = WriteFile(created, written)

\* What the surroundings may do.  Only the oldest instruction starts a flush,
\* alone: a mispredicted jump that has been executed retires (it writes no
\* register that the model follows), another instruction with an exception does
\* not, one that asks for a flush does (n = 1).  Nothing retires while the
\* machine flushes.
Events(n) ==
    {"none", "async"} \cup
    (IF flush = "IDLE" /\ n <= 1 THEN {"expt"} ELSE {}) \cup
    (IF flush = "IDLE" /\ n <= 1 /\ stall THEN {"mispred"} ELSE {}) \cup
    (IF flush = "IDLE" /\ ~stall THEN {"cancel"} ELSE {})

Retirable == IF flush = "IDLE" THEN {n \in 0..RetireWidth : n <= Len(rob)} ELSE {0}

Packets == {<<>>} \cup UNION {[S -> 1..Temp] : S \in {S \in SUBSET Slots : S # {} /\ Cardinality(S) <= Width}}

\* The pregs that leave the free list, get an instruction, retire, are released.
granting(S)        == dealloc_vld({i \in Slots : alloc[i] = None \/ i \in S})
creating(dispatch) == IF dispatch THEN {is[j].preg : j \in 1..Len(is)} ELSE {}
retiring(n)        == {rob[i] : i \in 1..n}
releasing(n)       == {info[p].rel : p \in retiring(n)}

\* What an edge does beside renaming.
Clock(packet, dispatch, n, event, written, masked) ==
    LET S == DOMAIN packet
    IN /\ Stages(S, packet, dispatch, n, event)
       /\ Flush(event, retiring(n))
       /\ Entries(granting(S), creating(dispatch), retiring(n), releasing(n), written, masked)

Next ==
    \E packet \in Packets, dispatch \in IF is = <<>> THEN {FALSE} ELSE BOOLEAN :
        /\ packet # <<>> => CanRename(DOMAIN packet, dispatch)
        /\ Rename(DOMAIN packet, packet)
        /\ \E n \in Retirable :
             \E event \in Events(n), written \in SUBSET {p \in Pregs : owed[p] > 0},
                masked \in SUBSET {p \in Pregs : wb[p] /\ (p \in releasing(n) \/ life[p] = "RELEASE")} :
                 Clock(packet, dispatch, n, event, written, masked)

Spec == Init /\ [][Next]_vars

\* Weak fairness of the two things the surroundings owe a preg, either possible
\* in every cycle in which it is due: the instruction that is executed writes its
\* result, and the stores that read a released preg leave the queue.
Fairness ==
    \A p \in Pregs : []<>(owed[p] = 0) /\ []<>~(life[p] = "RELEASE" /\ wb[p])

FairSpec == Spec /\ Fairness

-----------------------------------------------------------------------------
(* Properties.                                                             *)

LifeStates == {"DEALLOC", "WF_ALLOC", "ALLOC", "RETIRE", "RELEASE"}
Results == [preg : Pregs, dst : 1..Temp, rel : Pregs]

\* The registers of the entries, the allocator and the mirror keep their types.
TypeOK ==
    /\ life \in [Pregs -> LifeStates] /\ wb \in [Pregs -> BOOLEAN]
    /\ info \in [Pregs -> [dst : 0..Temp, rel : 0..NP]]
    /\ alloc \in [Slots -> Pregs \cup {None}]
    /\ rt \in [Arch -> Pregs] /\ table \in [Arch -> Pregs]
    /\ is \in Seq(Results) /\ rob \in Seq(Pregs)
    /\ owed \in [Pregs -> 0..1] /\ arch \in [Arch -> Pregs]
    /\ flush \in {"IDLE", "IS", "FE", "WF_EMPTY", "IS_BE", "FE_BE", "BE"}
    /\ async \in BOOLEAN /\ stall \in BOOLEAN

InAlloc == {p \in Pregs : \E i \in Slots : alloc[i] = p}
InIs    == {p \in Pregs : \E j \in 1..Len(is) : is[j].preg = p}
InRob   == {p \in Pregs : \E j \in 1..Len(rob) : rob[j] = p}
Mapped(a) == {p \in Pregs : life[p] = "RETIRE" /\ info[p].dst = a}
Flushing == stall \/ flush # "IDLE"

\* Every architectural register is held by exactly one retired preg, through
\* retirements of two writers of one register in a cycle and every flush.  The
\* recovery of the rename table encodes the entries one-hot and relies on it.
OneMapping == \A a \in Arch : Cardinality(Mapped(a)) = 1

\* No preg is handed out twice and none is lost: a preg that waits for its
\* instruction is in exactly one allocation register or in the IS stage, an
\* allocated one belongs to exactly one instruction in flight.  A preg whose
\* instruction was cancelled is out of every list only until the flush.
OneOwner ==
    /\ \A i, j \in Slots : i # j /\ alloc[i] # None => alloc[i] # alloc[j]
    /\ InAlloc \cap InIs = {}
    /\ \A i, j \in 1..Len(is) : i # j => is[i].preg # is[j].preg
    /\ \A i, j \in 1..Len(rob) : i # j => rob[i] # rob[j]
    /\ \A p \in InAlloc \cup InIs : life[p] = "WF_ALLOC"
    /\ \A p \in InRob : life[p] = "ALLOC"
    /\ ~Flushing => /\ \A p \in Pregs : life[p] = "WF_ALLOC" => p \in InAlloc \cup InIs
                    /\ \A p \in Pregs : life[p] = "ALLOC" => p \in InRob

\* What the debugger reads (read_hart_reg) is the result of the last retired
\* writer, except while that result is on its way to the register file.
MirrorExact ==
    \A a \in Arch : LET p == read_hart_reg(a)
                    IN  p = arch[a] /\ (owed[p] = 0 \/ ~wb[p])

\* The instructions in flight in program order, and the preg that holds register
\* a before the j-th of them: that of the last writer before it.
InFlight ==
    [j \in 1 .. Len(rob) + Len(is) |->
        IF j > Len(rob) THEN is[j - Len(rob)]
        ELSE [preg |-> rob[j], dst |-> info[rob[j]].dst, rel |-> info[rob[j]].rel]]
Holder(a, j) ==
    LET writers == {k \in 1 .. j - 1 : InFlight[k].dst = a}
    IN IF writers = {} THEN Mapped(a) ELSE {InFlight[Greatest(writers)].preg}

\* Every instruction releases what held its register before it, and the
\* speculative table names what holds a register after all of them: after any
\* flush renaming goes on from the retired state.
RenameFollowsRetired ==
    ~Flushing =>
        /\ \A j \in 1..Len(InFlight) : InFlight[j].dst # Temp =>
              Holder(InFlight[j].dst, j) = {InFlight[j].rel}
        /\ \A a \in Arch : Holder(a, Len(InFlight) + 1) = {rt[a]}

\* A synchronous flush of the back end waits until every retired and released
\* preg has its result: no write of a retired load is under way when the
\* pipelines are flushed.
FlushAfterWriteBack ==
    yy_xx_flush /\ ~async =>
        \A p \in Pregs : life[p] \in {"RETIRE", "RELEASE"} => wb[p] /\ owed[p] = 0

\* A preg in use that has no result is owed one: no flush kills the write that
\* it waits for and leaves it waiting, which would keep it out of the free list
\* for ever once it is released.
WaitsForResult ==
    \A p \in Pregs : life[p] \in {"ALLOC", "RETIRE", "RELEASE"} /\ ~wb[p] => owed[p] = 1

\* A released preg comes back to the free list, whatever flushes come between
\* its release and the write that it may still wait for.
ReleasedAreFreed == \A p \in Pregs : life[p] = "RELEASE" ~> life[p] = "DEALLOC"
=============================================================================
