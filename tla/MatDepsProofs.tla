---------------------------- MODULE MatDepsProofs ----------------------------
(***************************************************************************)
(* Proofs about MatDeps: it implements the issue queue, and its three       *)
(* invariants, for every set of registers and of instructions, every number *)
(* of rows and every queue of up to 16 entries.                             *)
(***************************************************************************)
EXTENDS MatDeps, MatIssueQueueProofs, Induction

-----------------------------------------------------------------------------
(* The queue underneath.  What is dispatched has an operand record and is   *)
(* no mcfg.                                                                 *)

dvars == <<vars, deps>>

\* What dispatch may hold.
OpPacket(ops) ==
  \/ ops = <<>>
  \/ \E o \in Ops : ops = <<o>>
  \/ "dual" \in Allowed /\ \E o, p \in Ops : ops = <<o, p>>

Kind(ops) == [i \in DOMAIN ops |-> ops[i].kind]

LEMMA OpKinds == \A o \in Ops : o.kind \in Kinds /\ o.kind # "cfg"
  BY DepsAssumption DEF Op, Kinds

\* The queue sees a packet of as many instructions, of their kinds, that belong
\* to the present epoch.
LEMMA DispatchedIs ==
  ASSUME TypeOK, NEW ops, OpPacket(ops)
  PROVE  /\ Packet(Dispatched(ops)) /\ Len(Dispatched(ops)) = Len(ops)
         /\ Kind(Dispatched(ops)) = Kind(ops) /\ Kind(ops) \in KindSeqs
         /\ Len(Kind(ops)) = Len(ops) /\ cfgs(Kind(ops), Len(ops)) = 0
         /\ Tagged(Kind(ops)) = Dispatched(ops)
         /\ \A i \in 1 .. Len(ops) : Dispatched(ops)[i].kind = ops[i].kind
  <1>0. epoch \in 0 .. MaxCfg /\ MaxCfg \in Nat
    BY MiqAssumption DEF TypeOK
  <1>1. CASE ops = <<>>
    <2>1. Dispatched(ops) = <<>> /\ Kind(ops) = <<>> /\ Len(ops) = 0
      BY <1>1 DEF Dispatched, Kind
    <2>2. Kind(<<>>) = <<>> /\ Tagged(<<>>) = <<>>
      BY DEF Kind, Tagged
    <2>. QED BY <1>1, <2>1, <2>2, CfgsOfNone DEF Packet, KindSeqs
  <1>2. ASSUME NEW o \in Ops, ops = <<o>>
        PROVE  /\ Packet(Dispatched(ops)) /\ Len(Dispatched(ops)) = Len(ops)
               /\ Kind(Dispatched(ops)) = Kind(ops) /\ Kind(ops) \in KindSeqs
               /\ Len(Kind(ops)) = Len(ops) /\ cfgs(Kind(ops), Len(ops)) = 0
               /\ Tagged(Kind(ops)) = Dispatched(ops)
               /\ \A i \in 1 .. Len(ops) : Dispatched(ops)[i].kind = ops[i].kind
    <2> DEFINE a == [kind |-> o.kind, epoch |-> epoch]
    <2>1. Dispatched(ops) = <<a>> /\ Kind(ops) = <<o.kind>> /\ Len(ops) = 1
      BY <1>2 DEF Dispatched, Kind
    <2>2. Kind(<<a>>) = <<o.kind>>
      BY DEF Kind
    <2>3. cfgs(<<o.kind>>, 1) = 0
      BY CfgsOfOne, OpKinds
    <2>4. Tagged(<<o.kind>>) = <<a>>
      BY <1>0, <2>3 DEF Tagged
    <2>5. a \in Inst
      BY <1>0, OpKinds DEF Inst
    <2>6. <<o.kind>> \in KindSeqs
      BY OpKinds DEF KindSeqs
    <2>. QED BY <1>2, <2>1, <2>2, <2>3, <2>4, <2>5, <2>6 DEF Packet
  <1>3. ASSUME "dual" \in Allowed, NEW o \in Ops, NEW p \in Ops, ops = <<o, p>>
        PROVE  /\ Packet(Dispatched(ops)) /\ Len(Dispatched(ops)) = Len(ops)
               /\ Kind(Dispatched(ops)) = Kind(ops) /\ Kind(ops) \in KindSeqs
               /\ Len(Kind(ops)) = Len(ops) /\ cfgs(Kind(ops), Len(ops)) = 0
               /\ Tagged(Kind(ops)) = Dispatched(ops)
               /\ \A i \in 1 .. Len(ops) : Dispatched(ops)[i].kind = ops[i].kind
    <2> DEFINE a == [kind |-> o.kind, epoch |-> epoch]
               b == [kind |-> p.kind, epoch |-> epoch]
    <2>1. Dispatched(ops) = <<a, b>> /\ Kind(ops) = <<o.kind, p.kind>> /\ Len(ops) = 2
      BY <1>3 DEF Dispatched, Kind
    <2>2. Kind(<<a, b>>) = <<o.kind, p.kind>>
      BY DEF Kind
    <2>3. cfgs(<<o.kind, p.kind>>, 1) = 0 /\ cfgs(<<o.kind, p.kind>>, 2) = 0
      BY CfgsOfTwo, OpKinds
    <2>4. Tagged(<<o.kind, p.kind>>) = <<a, b>>
      BY <1>0, <2>3 DEF Tagged
    <2>5. a \in Inst /\ b \in Inst
      BY <1>0, OpKinds DEF Inst
    <2>6. <<o.kind, p.kind>> \in KindSeqs
      BY <1>3, OpKinds DEF KindSeqs
    <2>. QED BY <1>3, <2>1, <2>2, <2>3, <2>4, <2>5, <2>6 DEF Packet
  <1>. QED BY <1>1, <1>2, <1>3 DEF OpPacket

\* The two descriptions of the stalled instructions agree, nothing is flushed.
Shown == OpPacket(dis_op) /\ dis = Dispatched(dis_op) /\ flush = "idle"

\* A step of the dependencies is one of the queue.
LEMMA QueueStep ==
  ASSUME TypeOK, Shown, NEW ops \in OpSeqs, NEW stall \in BOOLEAN,
         NEW srcrdy \in SUBSET matrix_src_dest_rdy, NEW fail \in BOOLEAN,
         NEW fin \in Answers, NEW wake \in Answers,
         DClock(ops, stall, srcrdy, fail, fin, wake)
  PROVE  /\ OpPacket(ops) /\ Dispatched(ops) \in Presented
         /\ srcrdy \in SUBSET waiting /\ fin \in Fins /\ wake \in Fins
         /\ Clock(Dispatched(ops), stall, srcrdy, fail, fin)
         /\ Shown'
  <1>1. OpPacket(ops)
    BY DEF OpSeqs, OpPacket, Shown
  <1>2. srcrdy \in SUBSET waiting /\ fin \in Fins /\ wake \in Fins
    BY DEF matrix_src_dest_rdy, waiting, Answers, Fins
  <1>3. Clock(Dispatched(ops), stall, srcrdy, fail, fin)
    BY DEF DClock
  <1>4. epoch \in Nat /\ epoch <= MaxCfg /\ MaxCfg \in Nat
    BY MiqAssumption DEF TypeOK
  <1>5. dis_op # <<>> => dis # <<>> /\ ops = dis_op
    BY DispatchedIs DEF Shown, OpSeqs, Dispatched, OpPacket
  <1>6. dis_op = <<>> => dis = <<>>
    BY DEF Shown, Dispatched
  <1>7. Dispatched(ops) \in Presented
    <2>1. CASE dis_op # <<>>
      BY <1>5, <2>1 DEF Presented, Shown
    <2>2. CASE dis_op = <<>>
      <3>1. Kind(ops) \in KindSeqs /\ Tagged(Kind(ops)) = Dispatched(ops)
            /\ epoch + cfgs(Kind(ops), Len(Kind(ops))) <= MaxCfg
        BY <1>1, <1>4, DispatchedIs
      <3>. QED BY <1>6, <2>2, <3>1 DEF Presented, Shown
    <2>. QED BY <2>1, <2>2
  <1>8. epoch' = epoch /\ flush' = "idle"
    <2>1. cfgs(Kind(Dispatched(ops)), Len(Dispatched(ops))) = 0
      BY <1>1, DispatchedIs
    <2>2. ~flush_be /\ flush' \in {"idle"}
      BY <1>3, DepsAssumption DEF Shown, flush_be, Clock, FlushNext
    <2>. QED BY <1>3, <1>4, <2>1, <2>2 DEF Clock, Kind
  <1>9. Shown'
    <2>1. dis' = IF stall THEN Dispatched(ops) ELSE <<>>
      BY <1>3 DEF Clock, flush_fe, Shown
    <2>2. dis_op' = IF stall THEN ops ELSE <<>>
      BY DEF DClock
    <2>3. OpPacket(dis_op')
      BY <1>1, <2>2 DEF OpPacket
    <2>4. dis' = [i \in 1 .. Len(dis_op') |-> [kind |-> dis_op'[i].kind, epoch |-> epoch']]
      <3>1. CASE stall
        BY <1>8, <2>1, <2>2, <3>1 DEF Dispatched
      <3>2. CASE ~stall
        <4>1. dis' = <<>> /\ dis_op' = <<>> /\ Len(dis_op') = 0
          BY <2>1, <2>2, <3>2
        <4>. QED BY ONLY <4>1
      <3>. QED BY <3>1, <3>2
    <2>5. OpPacket(dis_op)'
      BY <2>3 DEF OpPacket
    <2>6. dis' = Dispatched(dis_op)'
      BY ONLY <2>4 DEF Dispatched
    <2>. QED BY <1>8, <2>5, <2>6 DEF Shown
  <1>. QED BY <1>1, <1>2, <1>3, <1>7, <1>9

\* Every behaviour of the dependencies is one of the queue: they decide which
\* operands are ready and nothing else.
THEOREM ImplementsQueueCorrect == DSpec => Spec
  <1>1. DInit => Init /\ Shown
    BY DEF DInit, Init, Shown, OpPacket, Dispatched
  <1>2. TypeOK /\ Shown /\ [DNext]_dvars => [Next]_vars /\ Shown'
    <2> SUFFICES ASSUME TypeOK, Shown, [DNext]_dvars PROVE [Next]_vars /\ Shown'
      OBVIOUS
    <2>1. CASE DNext
      <3>1. PICK ops \in OpSeqs, stall \in BOOLEAN, srcrdy \in SUBSET matrix_src_dest_rdy,
                 fail \in BOOLEAN, fin \in Answers, wake \in Answers :
                   DClock(ops, stall, srcrdy, fail, fin, wake)
        BY <2>1 DEF DNext
      <3>2. /\ Dispatched(ops) \in Presented /\ srcrdy \in SUBSET waiting /\ fin \in Fins
            /\ Clock(Dispatched(ops), stall, srcrdy, fail, fin) /\ Shown'
        BY <3>1, QueueStep
      <3>. QED BY <3>2 DEF Next, waiting, Fins
    <2>2. CASE UNCHANGED dvars
      <3>1. UNCHANGED vars /\ UNCHANGED <<dis, dis_op, epoch, flush>>
        BY <2>2 DEF dvars, deps, vars
      <3>. QED BY <3>1 DEF Shown, OpPacket, Dispatched
    <2>. QED BY <2>1, <2>2
  <1>3. Init => TypeOK
    BY MiqAssumption DEF Init, TypeOK, Inst, Reset
  <1>4. TypeOK /\ [Next]_vars => TypeOK'
    <2>1. TypeOK /\ Next => TypeOK'
      BY TypeStep DEF Next, Fins
    <2>2. TypeOK /\ UNCHANGED vars => TypeOK'
      BY DEF vars, TypeOK
    <2>. QED BY <2>1, <2>2
  <1>5. DSpec => [](TypeOK /\ Shown)
    BY <1>1, <1>2, <1>3, <1>4, PTL DEF DSpec, dvars
  <1>. QED BY <1>1, <1>2, <1>5, PTL DEF DSpec, Spec, dvars

-----------------------------------------------------------------------------
(* What an edge does to the registers of the dependencies, when the queue is *)
(* calm: there is no flush and no failed launch of an arithmetic instruction.*)

\* The operands of a valid entry are those of a dispatched instruction of the
\* kind that the queue holds; ex1 of the arithmetic unit names an entry.
Latched ==
  /\ op \in [Entry -> Ops \cup {NoOp}]
  /\ \A e \in vld : op[e] \in Ops /\ op[e].kind = data[e].kind
  /\ alu_ex1 \in BOOLEAN /\ (alu_ex1 => alu_iq # {})

Base == TypeOK /\ Order /\ Shown /\ Latched

\* The signals of creation look at the number of instructions only.
LEMMA SameCreation ==
  ASSUME NEW ops, NEW ins, Len(ins) = Len(ops), NEW stall
  PROVE  /\ create_en(ins, stall) = create_en(ops, stall)
         /\ creates(ins, stall) = creates(ops, stall)
         /\ create_dp_en(ins) = create_dp_en(ops)
         /\ \A e : from1(ins, e) <=> from1(ops, e)
  BY DEF create_en, creates, create_dp_en, dp_en, from1

\* A created entry takes the instruction meant for it.
Nth(ops, e) == IF from1(ops, e) THEN 2 ELSE 1

CreationIs(ops, stall) ==
  /\ create_en(ops, stall) \subseteq create_dp_en(ops)
  /\ create_dp_en(ops) \subseteq Entry \ vld
  /\ \A e \in create_dp_en(ops) :
       /\ Created(ops, e) = ops[Nth(ops, e)] /\ Created(ops, e) \in Ops
       /\ Dispatched(ops)[Nth(ops, e)].kind = Created(ops, e).kind
  /\ \A e \in create_en(ops, stall) :
       IF from1(ops, e) THEN e \in create1_in /\ e \notin create0_in ELSE e \in create0_in
  /\ \A e, f \in create_en(ops, stall) : (from1(ops, e) <=> from1(ops, f)) => e = f
  /\ creates(ops, stall) > 0 =>
       /\ creates(ops, stall) = Len(ops) /\ ~stall /\ ~full
       /\ create0_in \subseteq create_en(ops, stall) /\ create0_in # {}
  /\ creates(ops, stall) = 2 =>
       /\ create1_in \subseteq create_en(ops, stall) /\ create1_in # {}
       /\ create0_in \cap create1_in = {}

LEMMA DCreation ==
  ASSUME Base, NEW ops \in OpSeqs, NEW stall \in BOOLEAN,
         NEW srcrdy \in SUBSET matrix_src_dest_rdy, NEW fail \in BOOLEAN,
         NEW fin \in Answers, NEW wake \in Answers,
         DClock(ops, stall, srcrdy, fail, fin, wake)
  PROVE  CreationIs(ops, stall)
  <1> DEFINE ins == Dispatched(ops)
  <1>1. /\ OpPacket(ops) /\ ins \in Presented /\ fin \in Fins
        /\ Clock(ins, stall, srcrdy, fail, fin)
    BY QueueStep DEF Base
  <1>2. /\ Packet(ins) /\ Len(ins) = Len(ops)
        /\ \A i \in 1 .. Len(ops) : ins[i].kind = ops[i].kind
    BY <1>1, DispatchedIs DEF Base
  <1>3. Inputs(ins, stall, fail, fin)
    BY <1>1 DEF Clock
  <1> HIDE DEF ins
  <1>4. /\ create_en(ins, stall) = create_en(ops, stall)
        /\ creates(ins, stall) = creates(ops, stall)
        /\ create_dp_en(ins) = create_dp_en(ops)
        /\ \A e : from1(ins, e) <=> from1(ops, e)
    BY <1>2, SameCreation
  <1>5. /\ create_en(ins, stall) \subseteq Entry \ vld
        /\ create_en(ins, stall) \subseteq create_dp_en(ins)
        /\ \A c \in create_en(ins, stall) :
             IF from1(ins, c) THEN c \in create1_in /\ c \notin create0_in ELSE c \in create0_in
        /\ \A c, d \in create_en(ins, stall) : (from1(ins, c) <=> from1(ins, d)) => c = d
    BY <1>2, <1>3, Creation DEF Base, Order, Units
  <1>6. create_dp_en(ins) \subseteq Entry \ vld
    BY <1>2, DataTyped DEF Base
  <1>7. ASSUME NEW e \in create_dp_en(ops)
        PROVE  /\ Created(ops, e) = ops[Nth(ops, e)] /\ Created(ops, e) \in Ops
               /\ ins[Nth(ops, e)].kind = Created(ops, e).kind
    <2>1. Len(ops) >= 1 /\ (from1(ops, e) => Len(ops) >= 2)
      BY <1>1, <1>7 DEF create_dp_en, from1, dp_en, OpPacket
    <2>2. Nth(ops, e) \in 1 .. Len(ops)
      BY <1>1, <2>1 DEF Nth, OpPacket
    <2>3. \A i \in 1 .. Len(ops) : ops[i] \in Ops
      BY <1>1 DEF OpPacket
    <2>. QED BY <1>2, <2>2, <2>3 DEF Created, Nth
  <1>8. ASSUME creates(ops, stall) > 0
        PROVE  /\ creates(ops, stall) = Len(ops) /\ ~stall /\ ~full
               /\ create0_in \subseteq create_en(ops, stall) /\ create0_in # {}
               /\ creates(ops, stall) = 2 =>
                    /\ create1_in \subseteq create_en(ops, stall) /\ create1_in # {}
                    /\ create0_in \cap create1_in = {}
    <2>1. creates(ops, stall) = Len(ops) /\ ~stall /\ creates(ops, stall) \in {1, 2}
      BY <1>1, <1>8 DEF creates, OpPacket
    <2>2. cnt + creates(ops, stall) <= N /\ creates(ops, stall) <= Cardinality(Entry \ vld)
      BY <1>3, <1>4, <1>8 DEF Inputs, Base, Order, Units, Placed, Calm
    <2>3. ~full
      BY <2>1, <2>2, MiqAssumption DEF full, Base, TypeOK
    <2>4. Entry \ vld # {}
      <3>1. Cardinality({}) = 0
        BY FS_EmptySet
      <3>. QED BY <2>1, <2>2, <3>1
    <2>5. Entry \ vld \in SUBSET (0 .. N)
      BY MiqAssumption DEF Entry
    <2>6. /\ \E p \in Entry \ vld : \A q \in Entry \ vld : p <= q
          /\ \E p \in Entry \ vld : \A q \in Entry \ vld : p >= q
      BY <2>4, <2>5, Extremes, MiqAssumption
    <2>7. create0_in # {} /\ create1_in # {}
      BY <2>6 DEF create0_in, create1_in
    <2>8. creates(ops, stall) = 2 => create0_in \cap create1_in = {}
      <3>1. Cardinality(Entry \ vld) \in Nat
        BY FiniteParts
      <3>. QED BY <2>2, <3>1, TwoFree
    <2>. QED BY <2>1, <2>3, <2>7, <2>8 DEF create_en
  <1>9. creates(ops, stall) = 2 => creates(ops, stall) > 0
    OBVIOUS
  <1>. QED BY <1>4, <1>5, <1>6, <1>7, <1>8, <1>9 DEF ins, CreationIs

\* Line wakeups and finishes name exactly what begins and what ends; what ends
\* is in a unit, an entry leaves only at its end, and what is launched was
\* found ready.
EdgeIs(ops, stall, fin, wake) ==
  /\ mat_finish(fin) = ended(fin) /\ line_wakeup(wake) = begun(wake)
  /\ ended(fin) \subseteq lsu \cup inAlu /\ ended(fin) \subseteq frz
  /\ vld \ ended(fin) \subseteq vld' /\ vld' \subseteq vld \cup create_en(ops, stall)
  /\ create_en(ops, stall) \subseteq vld'
  /\ inRf' \subseteq matrix_src_dest_rdy
  /\ waiting' \subseteq (waiting \ inRf') \cup inRf \cup create_en(ops, stall)
  /\ \A e \in vld : op'[e] = op[e] /\ data'[e] = data[e]
  /\ \A e \in create_en(ops, stall) : op'[e] = Created(ops, e)

LEMMA DEdge ==
  ASSUME Base, NEW ops \in OpSeqs, NEW stall \in BOOLEAN,
         NEW srcrdy \in SUBSET matrix_src_dest_rdy, NEW fail \in BOOLEAN,
         NEW fin \in Answers, NEW wake \in Answers,
         DClock(ops, stall, srcrdy, fail, fin, wake)
  PROVE  EdgeIs(ops, stall, fin, wake)
  <1> DEFINE ins == Dispatched(ops)
             C == create_en(ops, stall)
  <1>1. /\ OpPacket(ops) /\ ins \in Presented /\ fin \in Fins /\ wake \in Fins
        /\ srcrdy \in SUBSET waiting
        /\ Clock(ins, stall, srcrdy, fail, fin)
    BY QueueStep DEF Base
  <1>2. Packet(ins) /\ Len(ins) = Len(ops)
    BY <1>1, DispatchedIs DEF Base
  <1>3. create_en(ins, stall) = C /\ create_dp_en(ins) = create_dp_en(ops)
    BY <1>2, SameCreation
  <1>4. /\ vld' = (vld \ Gone(fail, fin)) \cup C
        /\ waiting' = ((waiting \ issue_en(srcrdy)) \cup (IF fail THEN inRf ELSE {})) \cup C
        /\ inRf' = issue_en(srcrdy)
    <2>1. Edge(ins, stall, srcrdy, fail, fin)
      BY <1>1, OrderIs, EdgeOf DEF Base
    <2>. QED BY <1>3, <2>1 DEF Edge
  <1>5. ~rf_pop_vld(fail)
    BY OpKinds DEF Base, Order, Units, Placed, Latched, rf_pop_vld, launched, inRf, TypeOK
  <1>6. Ended(fin) = ended(fin) /\ ex_pop(fin) \subseteq ended(fin)
        /\ ended(fin) \subseteq lsu \cup inAlu
    BY <1>1, PopsEnded DEF Base, Order, Units, Ended, ended
  <1>7. \A S \in Fins : S # {} => S = {Idx(S)}
    BY IdxOf DEF Base, Order, Units, Placed, Calm, Fins, TypeOK
  <1>8. alu_iq # {} => alu_iq = {Idx(alu_iq)}
    BY IdxOf DEF Base, Order, Units, Placed, Calm
  <1>9. mat_finish(fin) = ended(fin) /\ line_wakeup(wake) = begun(wake)
    <2>1. alu_finish => alu_iq # {}
      BY DEF alu_finish, Base, Order, Units, Placed
    <2>2. alu_ex1 => alu_iq # {}
      BY DEF Base, Latched
    <2>. QED BY <1>1, <1>7, <1>8, <2>1, <2>2 DEF mat_finish, ended, line_wakeup, begun
  <1>10. create_dp_en(ops) \subseteq Entry \ vld /\ C \subseteq create_dp_en(ops)
    <2>1. CreationIs(ops, stall)
      BY DCreation
    <2>. QED BY <2>1 DEF CreationIs
  <1>11. \A e \in vld : op'[e] = op[e] /\ data'[e] = data[e]
    BY <1>1, <1>3, <1>10 DEF DClock, Clock, Data, Base, TypeOK
  <1>12. \A e \in C : op'[e] = Created(ops, e)
    BY <1>10 DEF DClock
  <1>13. issue_en(srcrdy) \subseteq matrix_src_dest_rdy
    BY DEF issue_en, entry_ready
  <1>14. ended(fin) \subseteq frz
    BY <1>6 DEF Base, Order, Units, Placed
  <1>. QED BY <1>4, <1>5, <1>6, <1>9, <1>11, <1>12, <1>13, <1>14 DEF Gone, EdgeIs

LEMMA LatchedStep ==
  ASSUME Base, NEW ops \in OpSeqs, NEW stall \in BOOLEAN,
         NEW srcrdy \in SUBSET matrix_src_dest_rdy, NEW fail \in BOOLEAN,
         NEW fin \in Answers, NEW wake \in Answers,
         DClock(ops, stall, srcrdy, fail, fin, wake)
  PROVE  Latched'
  <1> DEFINE ins == Dispatched(ops)
             C == create_en(ops, stall)
  <1>1. Clock(ins, stall, srcrdy, fail, fin) /\ Packet(ins) /\ Len(ins) = Len(ops)
    BY QueueStep, DispatchedIs DEF Base
  <1>2. create_dp_en(ins) = create_dp_en(ops) /\ \A e : from1(ins, e) <=> from1(ops, e)
    BY <1>1, SameCreation
  <1>3. /\ C \subseteq create_dp_en(ops)
        /\ create_dp_en(ops) \subseteq Entry \ vld
        /\ \A e \in create_dp_en(ops) : /\ Created(ops, e) \in Ops
                                        /\ ins[Nth(ops, e)].kind = Created(ops, e).kind
    <2>1. CreationIs(ops, stall)
      BY DCreation
    <2>. QED BY <2>1 DEF CreationIs
  <1>4. /\ vld' \subseteq vld \cup C
        /\ \A e \in vld : op'[e] = op[e] /\ data'[e] = data[e]
        /\ \A e \in C : op'[e] = Created(ops, e)
    <2>1. EdgeIs(ops, stall, fin, wake)
      BY DEdge
    <2>. QED BY <2>1 DEF EdgeIs
  <1>5. op' \in [Entry -> Ops \cup {NoOp}]
    <2>1. op' = [e \in Entry |-> IF e \in create_dp_en(ops) THEN Created(ops, e) ELSE op[e]]
      BY DEF DClock
    <2>2. op \in [Entry -> Ops \cup {NoOp}]
      BY DEF Base, Latched
    <2>. QED BY <1>3, <2>1, <2>2
  <1>6. \A e \in C : data'[e] = ins[Nth(ops, e)]
    BY <1>1, <1>2, <1>3 DEF Clock, Data, Nth
  <1>7. \A e \in vld' : op'[e] \in Ops /\ op'[e].kind = data'[e].kind
    <2>1. ASSUME NEW e \in vld PROVE op'[e] \in Ops /\ op'[e].kind = data'[e].kind
      BY <1>4 DEF Base, Latched
    <2>2. ASSUME NEW e \in C PROVE op'[e] \in Ops /\ op'[e].kind = data'[e].kind
      BY <1>3, <1>4, <1>6
    <2>. QED BY <1>4, <2>1, <2>2
  <1>8. alu_ex1' \in BOOLEAN /\ (alu_ex1' => alu_iq' # {})
    <2>1. alu_ex1' = launched("cal", fail)
      BY DEF DClock
    <2>2. launched("cal", fail) => alu_iq' = rf.entry /\ rf.entry # {}
      BY <1>1 DEF launched, Clock, Arith, Base, Order, Units, Placed
    <2>. QED BY <2>1, <2>2 DEF launched
  <1>. QED BY <1>5, <1>7, <1>8 DEF Latched

\* With one instruction dispatched in a cycle, creation 0 takes it.
OneByOne == Allowed = {}

LEMMA OneCreated ==
  ASSUME OneByOne, Base, NEW ops \in OpSeqs, NEW stall \in BOOLEAN,
         NEW srcrdy \in SUBSET matrix_src_dest_rdy, NEW fail \in BOOLEAN,
         NEW fin \in Answers, NEW wake \in Answers,
         DClock(ops, stall, srcrdy, fail, fin, wake)
  PROVE  /\ creates(ops, stall) \in {0, 1}
         /\ creates(ops, stall) = 0 => create_en(ops, stall) = {}
         /\ \A e \in create_en(ops, stall) :
              /\ creates(ops, stall) = 1 /\ Len(ops) = 1 /\ ~full
              /\ ~from1(ops, e) /\ Nth(ops, e) = 1 /\ Created(ops, e) = ops[1]
              /\ ops[1] \in Ops /\ create0_in = {e} /\ create_en(ops, stall) = {e}
  <1>1. OpPacket(ops) /\ ~("dual" \in Allowed)
    BY QueueStep DEF Base, OneByOne
  <1>2. creates(ops, stall) \in {0, 1}
    BY <1>1 DEF OpPacket, creates
  <1>3. creates(ops, stall) = 0 => create_en(ops, stall) = {}
    BY DEF create_en
  <1>4. creates(ops, stall) = 1 => create_en(ops, stall) = create0_in
    BY DEF create_en
  <1>5. CreationIs(ops, stall)
    BY DCreation
  <1>6. ASSUME NEW e \in create_en(ops, stall)
        PROVE  /\ creates(ops, stall) = 1 /\ Len(ops) = 1 /\ ~full
               /\ ~from1(ops, e) /\ Nth(ops, e) = 1 /\ Created(ops, e) = ops[1]
               /\ ops[1] \in Ops /\ create0_in = {e} /\ create_en(ops, stall) = {e}
    <2>1. creates(ops, stall) = 1 /\ e \in create0_in
      BY <1>2, <1>3, <1>4, <1>6
    <2>2. Len(ops) = 1 /\ ~full
      BY <1>5, <2>1 DEF CreationIs
    <2>3. ~from1(ops, e)
      BY <1>5, <1>6, <2>1 DEF CreationIs
    <2>4. Created(ops, e) = ops[1] /\ ops[1] \in Ops
      BY <1>5, <1>6, <2>3 DEF CreationIs, Nth
    <2>5. \A f \in create0_in : f = e
      BY <2>1, MiqAssumption DEF create0_in, Entry
    <2>. QED BY <1>4, <2>1, <2>2, <2>3, <2>4, <2>5 DEF Nth
  <1>. QED BY <1>2, <1>3, <1>6

-----------------------------------------------------------------------------
(* Invariants along the behaviours.                                          *)

\* The base holds throughout when the queue is calm.
LEMMA AlwaysBase == Calm /\ DSpec => []Base
  <1>1. DInit => Latched /\ Shown
    <2> SUFFICES ASSUME DInit PROVE Latched /\ Shown
      OBVIOUS
    <2>1. Latched
      BY DEF DInit, Init, Latched
    <2>2. Shown
      BY DEF DInit, Init, Shown, OpPacket, Dispatched
    <2>. QED BY <2>1, <2>2
  <1>2. Base /\ [DNext]_dvars => Shown' /\ Latched'
    <2> SUFFICES ASSUME Base, [DNext]_dvars PROVE Shown' /\ Latched'
      OBVIOUS
    <2>1. CASE DNext
      <3>1. PICK ops \in OpSeqs, stall \in BOOLEAN, srcrdy \in SUBSET matrix_src_dest_rdy,
                 fail \in BOOLEAN, fin \in Answers, wake \in Answers :
                   DClock(ops, stall, srcrdy, fail, fin, wake)
        BY <2>1 DEF DNext
      <3>2. Shown'
        BY <3>1, QueueStep DEF Base
      <3>. QED BY <3>1, <3>2, LatchedStep
    <2>2. CASE UNCHANGED dvars
      <3>1. UNCHANGED <<vld, data, alu_iq, dis, epoch, flush, op, dis_op, alu_ex1>>
        BY <2>2 DEF dvars, deps, vars
      <3>. QED BY <3>1 DEF Base, Shown, Latched, OpPacket, Dispatched
    <2>. QED BY <2>1, <2>2
  <1>3. Calm /\ DSpec => [](TypeOK /\ Order)
    BY ImplementsQueueCorrect, TypeCorrect, AlwaysOrder, PTL
  <1>4. TypeOK /\ Order /\ Shown /\ Latched <=> Base
    BY DEF Base
  <1>. QED BY <1>1, <1>2, <1>3, <1>4, PTL DEF DSpec, dvars

\* The unfinished instructions are in the queue.
LEMMA OpenStep ==
  ASSUME Base, open \subseteq vld, NEW ops \in OpSeqs, NEW stall \in BOOLEAN,
         NEW srcrdy \in SUBSET matrix_src_dest_rdy, NEW fail \in BOOLEAN,
         NEW fin \in Answers, NEW wake \in Answers,
         DClock(ops, stall, srcrdy, fail, fin, wake)
  PROVE  open' = (open \ ended(fin)) \cup create_en(ops, stall) /\ open' \subseteq vld'
  <1>1. open' = (open \ ended(fin)) \cup create_en(ops, stall)
    BY DEF DClock, Ghosts
  <1>2. vld \ ended(fin) \subseteq vld' /\ create_en(ops, stall) \subseteq vld'
    <2>1. EdgeIs(ops, stall, fin, wake)
      BY DEdge
    <2>. QED BY <2>1 DEF EdgeIs
  <1>. QED BY <1>1, <1>2

-----------------------------------------------------------------------------
(* Writers wait for readers.                                                 *)

\* An entry that waits has every older reader that has not started in its
\* vector; an issued one had none left.
WarInv ==
  /\ open \subseteq vld
  /\ war \in [Entry -> SUBSET (Entry \X {"start"})]
  /\ \A e \in waiting : \A f \in Entry : <<f, "start">> \in war[e] => f \in dstm[e]
  /\ \A e \in inRf : war[e] = {}

LEMMA WarStep ==
  ASSUME OneByOne, Base, WarInv, NEW ops \in OpSeqs, NEW stall \in BOOLEAN,
         NEW srcrdy \in SUBSET matrix_src_dest_rdy, NEW fail \in BOOLEAN,
         NEW fin \in Answers, NEW wake \in Answers,
         DClock(ops, stall, srcrdy, fail, fin, wake)
  PROVE  WarInv'
  <1> DEFINE C == create_en(ops, stall)
  <1>1. open' \subseteq vld'
    BY OpenStep DEF WarInv
  <1>2. \A e \in C : /\ ~from1(ops, e) /\ Created(ops, e) = ops[1] /\ create0_in = {e}
                     /\ e \in Entry /\ e \notin vld
    <2>1. \A e \in C : ~from1(ops, e) /\ Created(ops, e) = ops[1] /\ create0_in = {e}
      BY OneCreated
    <2>2. create0_in \subseteq Entry \ vld
      BY DEF create0_in
    <2>. QED BY <2>1, <2>2
  <1>3. /\ mat_finish(fin) = ended(fin) /\ line_wakeup(wake) = begun(wake)
        /\ inRf' \subseteq matrix_src_dest_rdy
        /\ waiting' \subseteq (waiting \ inRf') \cup inRf \cup C
    <2>1. EdgeIs(ops, stall, fin, wake)
      BY DEdge
    <2>. QED BY <2>1 DEF EdgeIs
  <1>4. \A e \in C : war'[e] = War(ops, 1, fin, wake) /\ dstm'[e] = create_match(ops[1].dst)
    BY <1>2 DEF DClock, Ghosts, Dstm
  <1>5. \A e \in Entry \ C : /\ war'[e] = Done(war[e], fin, wake)
                             /\ dstm[e] \ (begun(wake) \cup ended(fin)) \subseteq dstm'[e]
    <2>1. \A e \in Entry \ C : war'[e] = Done(war[e], fin, wake)
      BY DEF DClock, Ghosts
    <2>2. /\ wake # {} => Idx(wake) \in begun(wake)
          /\ alu_ex1 => Idx(alu_iq) \in begun(wake)
          /\ fin # {} => Idx(fin) \in ended(fin)
      BY <1>3 DEF line_wakeup, mat_finish
    <2>3. \A e \in Entry \ C :
            dstm'[e] = dstm[e] \ (IF wake # {} THEN {Idx(wake)}
                                  ELSE IF alu_ex1 THEN {Idx(alu_iq)}
                                  ELSE IF fin # {} THEN {Idx(fin)} ELSE mat_finish(fin))
      BY DEF DClock, Dstm
    <2>. QED BY <1>3, <2>1, <2>2, <2>3
  <1>6. war' \in [Entry -> SUBSET (Entry \X {"start"})]
    <2>1. war' = [e \in Entry |-> war'[e]]
      BY DEF DClock, Ghosts
    <2>2. ASSUME NEW e \in Entry \ C PROVE war'[e] \subseteq Entry \X {"start"}
      BY <1>5 DEF Done, WarInv
    <2>3. ASSUME NEW e \in C PROVE war'[e] \subseteq Entry \X {"start"}
      <3>1. Readers(ops, 1, fin, ops[1].dst) \subseteq Entry
        BY DEF Readers, Older, WarInv, Base, TypeOK
      <3>. QED BY <1>4, <3>1 DEF War
    <2>. QED BY <1>2, <2>1, <2>2, <2>3
  <1>7. ASSUME NEW e \in C, NEW f \in Entry, <<f, "start">> \in war'[e]
        PROVE  f \in dstm'[e]
    <2>1. f \in Readers(ops, 1, fin, ops[1].dst)
      BY <1>4, <1>7 DEF War
    <2>2. f \in open /\ f \in vld
      BY <2>1 DEF Readers, Older, WarInv
    <2>3. OpOf(ops, f) = op[f]
      BY <1>2, <1>7, <2>2 DEF OpOf
    <2>. QED BY <1>4, <1>7, <2>1, <2>2, <2>3 DEF Readers, create_match
  <1>8. \A e \in inRf : e \notin C /\ e \in Entry /\ war'[e] = {}
    <2>1. \A e \in inRf : e \in vld /\ e \in Entry /\ war[e] = {}
      BY DEF WarInv, Base, Order, Units, Placed, TypeOK
    <2>. QED BY <1>2, <1>5, <2>1 DEF Done
  <1>9. \A e \in inRf' : e \notin C /\ e \in Entry /\ war'[e] = {}
    <2>1. ASSUME NEW e \in inRf' PROVE e \in waiting /\ e \in Entry /\ dstm[e] = {}
      BY <1>3, <2>1 DEF matrix_src_dest_rdy, waiting, Base, TypeOK
    <2>2. ASSUME NEW e \in inRf' PROVE war[e] = {}
      BY <2>1, <2>2 DEF WarInv
    <2>3. \A e \in waiting : e \notin C
      BY <1>2 DEF waiting
    <2>. QED BY <1>5, <2>1, <2>2, <2>3 DEF Done
  <1>10. ASSUME NEW e \in waiting', NEW f \in Entry, <<f, "start">> \in war'[e]
         PROVE  f \in dstm'[e]
    <2>1. CASE e \in C
      BY <1>7, <1>10, <2>1
    <2>2. CASE e \in inRf
      BY <1>8, <1>10, <2>2
    <2>3. CASE e \in waiting /\ e \notin C
      <3>1. e \in Entry
        BY <2>3 DEF waiting, Base, TypeOK
      <3>2. <<f, "start">> \in war[e] /\ f \notin ended(fin) /\ f \notin begun(wake)
        BY <1>5, <1>10, <2>3, <3>1 DEF Done
      <3>3. f \in dstm[e]
        BY <2>3, <3>2 DEF WarInv
      <3>. QED BY <1>5, <2>3, <3>1, <3>2, <3>3
    <2>. QED BY <1>3, <1>10, <2>1, <2>2, <2>3
  <1>. QED BY <1>1, <1>6, <1>9, <1>10 DEF WarInv

\* A writer is launched only after every older reader of its register started,
\* whatever coincides, when one instruction is dispatched in a cycle.
THEOREM WarOrderCorrect == OneByOne /\ DSpec => []WarOrder
  <1>1. OneByOne => Calm
    BY DepsAssumption DEF OneByOne, Calm
  <1>2. DInit => WarInv
    BY DEF DInit, Init, WarInv, waiting, inRf
  <1>3. OneByOne /\ Base /\ WarInv /\ [DNext]_dvars => WarInv'
    <2>1. OneByOne /\ Base /\ WarInv /\ DNext => WarInv'
      BY WarStep DEF DNext
    <2>2. WarInv /\ UNCHANGED dvars => WarInv'
      <3> SUFFICES ASSUME WarInv, UNCHANGED dvars PROVE WarInv'
        OBVIOUS
      <3>1. UNCHANGED <<vld, frz, rf, open, war, dstm>>
        BY DEF dvars, deps, vars
      <3>. QED BY <3>1 DEF WarInv, waiting, inRf
    <2>. QED BY <2>1, <2>2
  <1>4. WarInv => WarOrder
    BY DEF WarInv, WarOrder, inRf
  <1>5. OneByOne => OneByOne'
    BY DEF OneByOne
  <1>. QED BY <1>1, <1>2, <1>3, <1>4, <1>5, AlwaysBase, PTL DEF DSpec, dvars

-----------------------------------------------------------------------------
(* No wakeup is missed.                                                      *)

\* Dispatch does not stall and nothing wakes or ends in a cycle of a creation.
Quiet == Cases \subseteq {"stale", "busy"}

\* The table names unfinished writers of its registers, a source that waits
\* names an unfinished older instruction, and while the arithmetic unit counts
\* it names the register its instruction writes: its finish clears the table.
SrcInv ==
  /\ open \subseteq vld
  /\ \A r \in Regs : table[r] # NoEntry => table[r] \in open /\ op[table[r]].dst = r
  /\ \A e \in waiting, k \in Sources : depd[e][k] # NoEntry => depd[e][k] \in before[e]
  /\ \A e \in inRf : depd[e] = NoDeps
  /\ alu_cnt > 0 => \A x \in alu_iq : op[x].dst = alu_dst

LEMMA OpParts ==
  ASSUME NEW o \in Ops
  PROVE  /\ o.dst \in Regs \cup {NoReg} /\ o.kind \in {"cal", "lsu"}
         /\ \A k \in Sources : o[k] \in Regs \cup {NoReg}
  BY DepsAssumption DEF Op, Sources

\* A creation names the new entry in the table.
LEMMA WidxOf ==
  ASSUME Base, NEW ops \in OpSeqs, NEW stall \in BOOLEAN,
         NEW srcrdy \in SUBSET matrix_src_dest_rdy, NEW fail \in BOOLEAN,
         NEW fin \in Answers, NEW wake \in Answers,
         DClock(ops, stall, srcrdy, fail, fin, wake), ~stall
  PROVE  \A k \in {1, 2} : Len(ops) >= k =>
           \E c \in create_en(ops, stall) :
             widx(ops, k) = c /\ Created(ops, c) = ops[k] /\ c \in (IF k = 1 THEN create0_in ELSE create1_in)
  <1>1. OpPacket(ops) /\ CreationIs(ops, stall)
    BY QueueStep, DCreation DEF Base
  <1>2. creates(ops, stall) = Len(ops) /\ Len(ops) \in {0, 1, 2}
    BY <1>1 DEF creates, OpPacket
  <1>3. \A c \in Entry : Idx({c}) = c
    BY IdxOf DEF Base, Order, Units, Placed, Calm
  <1>4. /\ \A c, d \in create0_in : c = d
        /\ \A c, d \in create1_in : c = d
        /\ create0_in \subseteq Entry /\ create1_in \subseteq Entry
    BY MiqAssumption DEF create0_in, create1_in, Entry
  <1>5. ASSUME Len(ops) >= 1
        PROVE  \E c \in create_en(ops, stall) :
                 widx(ops, 1) = c /\ Created(ops, c) = ops[1] /\ c \in create0_in
    <2>1. PICK c \in create0_in : c \in create_en(ops, stall)
      BY <1>1, <1>2, <1>5 DEF CreationIs
    <2>2. create0_in = {c} /\ ~full
      BY <1>1, <1>2, <1>4, <1>5, <2>1 DEF CreationIs
    <2>3. ~from1(ops, c)
      BY <1>1, <2>1 DEF CreationIs
    <2>4. Created(ops, c) = ops[1]
      BY <2>3 DEF Created
    <2>5. widx(ops, 1) = c
      BY <1>3, <1>4, <1>5, <2>2 DEF widx, dp_en
    <2>. QED BY <2>1, <2>4, <2>5
  <1>6. ASSUME Len(ops) >= 2
        PROVE  \E c \in create_en(ops, stall) :
                 widx(ops, 2) = c /\ Created(ops, c) = ops[2] /\ c \in create1_in
    <2>0. creates(ops, stall) = 2 /\ creates(ops, stall) > 0
      BY <1>2, <1>6
    <2>1. PICK c \in create1_in : c \in create_en(ops, stall) /\ c \notin create0_in
      BY <1>1, <2>0 DEF CreationIs
    <2>2. create1_in = {c} /\ ~full
      BY <1>1, <1>4, <2>0, <2>1 DEF CreationIs
    <2>3. from1(ops, c)
      BY <1>1, <2>1 DEF CreationIs
    <2>4. Created(ops, c) = ops[2]
      BY <2>3 DEF Created
    <2>5. widx(ops, 2) = c
      BY <1>3, <1>4, <1>6, <2>2 DEF widx, dp_en
    <2>. QED BY <2>1, <2>4, <2>5
  <1>. QED BY <1>5, <1>6

LEMMA SrcStep ==
  ASSUME Quiet, Base, SrcInv, NEW ops \in OpSeqs, NEW stall \in BOOLEAN,
         NEW srcrdy \in SUBSET matrix_src_dest_rdy, NEW fail \in BOOLEAN,
         NEW fin \in Answers, NEW wake \in Answers,
         DClock(ops, stall, srcrdy, fail, fin, wake)
  PROVE  SrcInv'
  <1> DEFINE C == create_en(ops, stall)
  <1>1. open' = (open \ ended(fin)) \cup C /\ open' \subseteq vld'
    <2>1. open \subseteq vld
      BY DEF SrcInv
    <2>. QED BY <2>1, OpenStep
  <1>2. EdgeIs(ops, stall, fin, wake)
    BY DEdge
  <1>3. CreationIs(ops, stall)
    BY DCreation
  <1>4. ~stall /\ (C # {} => ended(fin) = {})
    BY <1>2 DEF DClock, Coincidence, Quiet, EdgeIs
  <1>5. C \subseteq Entry \ vld
    BY <1>3 DEF CreationIs
  <1>6. \A k \in {1, 2} : Len(ops) >= k =>
          \E c \in C : widx(ops, k) = c /\ Created(ops, c) = ops[k]
    BY <1>4, WidxOf
  <1>7. ASSUME NEW r \in Regs, table'[r] # NoEntry
        PROVE  table'[r] \in open' /\ op'[table'[r]].dst = r
    <2>0. table'[r] = Table(ops, fin)[r]
      BY DEF DClock
    <2>1. CASE Len(ops) >= 2 /\ ops[2].dst = r
      <3>1. PICK c \in C : widx(ops, 2) = c /\ Created(ops, c) = ops[2]
        BY <1>6, <2>1
      <3>2. table'[r] = c
        BY <2>0, <2>1, <3>1 DEF Table
      <3>3. op'[c] = ops[2]
        BY <1>2, <3>1 DEF EdgeIs
      <3>. QED BY <1>1, <2>1, <3>2, <3>3
    <2>2. CASE ~(Len(ops) >= 2 /\ ops[2].dst = r) /\ Len(ops) >= 1 /\ ops[1].dst = r
      <3>1. PICK c \in C : widx(ops, 1) = c /\ Created(ops, c) = ops[1]
        BY <1>6, <2>2
      <3>2. table'[r] = c
        BY <2>0, <2>2, <3>1 DEF Table
      <3>3. op'[c] = ops[1]
        BY <1>2, <3>1 DEF EdgeIs
      <3>. QED BY <1>1, <2>2, <3>2, <3>3
    <2>3. CASE ~(Len(ops) >= 2 /\ ops[2].dst = r) /\ ~(Len(ops) >= 1 /\ ops[1].dst = r)
      <3>1. ~Cleared(r, fin) /\ table'[r] = table[r]
        BY <1>7, <2>0, <2>3 DEF Table
      <3>2. table[r] \in open /\ op[table[r]].dst = r /\ table[r] \in vld
        BY <1>7, <3>1 DEF SrcInv
      <3>3. ASSUME table[r] \in fin PROVE FALSE
        <4>1. fin = {table[r]} /\ table[r] \in Entry
          BY <3>2, <3>3 DEF Answers, Base, TypeOK
        <4>2. Idx(fin) = table[r]
          BY <4>1, IdxOf DEF Base, Order, Units, Placed, Calm
        <4>. QED BY <3>1, <3>2, <3>3, <4>2 DEF Cleared
      <3>4. ASSUME alu_finish, table[r] \in alu_iq PROVE FALSE
        <4>1. alu_dst = r
          BY <3>2, <3>4 DEF SrcInv, alu_finish
        <4>2. alu_iq = {table[r]} /\ table[r] \in Entry
          BY <3>4 DEF Base, Order, Units, Placed
        <4>3. Idx(alu_iq) = table[r]
          BY <4>2, IdxOf DEF Base, Order, Units, Placed, Calm
        <4>. QED BY <3>1, <4>1, <4>3 DEF Cleared
      <3>5. table[r] \notin ended(fin)
        BY <3>3, <3>4 DEF ended
      <3>6. op'[table[r]] = op[table[r]]
        BY <1>2, <3>2 DEF EdgeIs
      <3>. QED BY <1>1, <3>1, <3>2, <3>5, <3>6
    <2>. QED BY <2>1, <2>2, <2>3
  <1>8. ASSUME NEW e \in C, NEW k \in Sources, depd'[e][k] # NoEntry
        PROVE  depd'[e][k] \in before'[e]
    <2>1. Created(ops, e)[k] \in Regs \cup {NoReg}
      BY <1>3, OpParts DEF CreationIs
    <2>2. depd'[e][k] = Lookup(Created(ops, e)[k])
      BY <1>5 DEF DClock, Depd
    <2>3. depd'[e][k] \in open
      BY <1>8, <2>1, <2>2 DEF Lookup, SrcInv
    <2>4. open \subseteq before'[e]
      BY <1>4, <1>5 DEF DClock, Ghosts, Older
    <2>. QED BY <2>3, <2>4
  <1>9. ASSUME NEW e \in Entry \ C, NEW k \in Sources
        PROVE  /\ before'[e] = before[e] \ ended(fin)
               /\ depd'[e][k] = NoEntry \/ (depd'[e][k] = depd[e][k] /\ depd[e][k] \notin ended(fin))
    <2>1. before'[e] = before[e] \ ended(fin)
      BY DEF DClock, Ghosts
    <2>2. depd'[e][k] = IF depd[e][k] \in mat_finish(fin) \cup
                             (IF k = "src1" /\ macc_type(op[e]) THEN {} ELSE line_wakeup(wake))
                        THEN NoEntry ELSE depd[e][k]
      BY DEF DClock, Depd
    <2>3. mat_finish(fin) = ended(fin)
      BY <1>2 DEF EdgeIs
    <2>. QED BY <2>1, <2>2, <2>3
  <1>10. \A e \in Entry \ C : depd[e] = NoDeps => depd'[e] = NoDeps
    <2>1. ASSUME NEW e \in Entry \ C, depd[e] = NoDeps PROVE depd'[e] = NoDeps
      <3>1. \A k \in Sources : depd'[e][k] = NoEntry
        BY <1>9, <2>1 DEF NoDeps
      <3>2. depd'[e] = [k \in Sources |-> depd'[e][k]]
        BY DEF DClock, Depd
      <3>. QED BY <3>1, <3>2 DEF NoDeps
    <2>. QED BY <2>1
  <1>11. inRf \subseteq Entry \ C /\ waiting \subseteq Entry \ C
    BY <1>5 DEF Base, Order, Units, Placed, TypeOK, waiting
  <1>12. inRf' \subseteq waiting /\ \A e \in inRf' : depd'[e] = NoDeps
    <2>1. \A e \in inRf' : e \in waiting /\ depd[e] = NoDeps
      BY <1>2 DEF EdgeIs, matrix_src_dest_rdy, waiting
    <2>. QED BY <1>10, <1>11, <2>1
  <1>13. ASSUME NEW e \in waiting', NEW k \in Sources, depd'[e][k] # NoEntry
         PROVE  depd'[e][k] \in before'[e]
    <2>1. CASE e \in C
      BY <1>8, <1>13, <2>1
    <2>2. CASE e \in inRf
      <3>1. depd'[e] = NoDeps
        BY <1>10, <1>11, <2>2 DEF SrcInv
      <3>. QED BY <1>13, <3>1 DEF NoDeps
    <2>3. CASE e \in waiting
      <3>1. depd'[e][k] = depd[e][k] /\ depd[e][k] \notin ended(fin)
            /\ before'[e] = before[e] \ ended(fin)
        BY <1>9, <1>11, <1>13, <2>3
      <3>. QED BY <1>13, <2>3, <3>1 DEF SrcInv
    <2>. QED BY <1>2, <2>1, <2>2, <2>3 DEF EdgeIs
  <1>14. ASSUME alu_cnt' > 0, NEW x \in alu_iq' PROVE op'[x].dst = alu_dst'
    <2>0. Clock(Dispatched(ops), stall, srcrdy, fail, fin)
      BY DEF DClock
    <2>1. CASE rf.vld /\ rf.inst.kind = "cal"
      <3>1. alu_iq' = rf.entry
        BY <2>0, <2>1 DEF Clock, Arith
      <3>2. PICK m : rf.entry = {m} /\ m \in vld
        BY <2>1 DEF Base, Order, Units, Placed, TypeOK, inRf
      <3>3. alu_dst' = op[m].dst
        BY <2>1, <3>2 DEF DClock
      <3>. QED BY <1>2, <1>14, <3>1, <3>2, <3>3 DEF EdgeIs
    <2>2. CASE ~(rf.vld /\ rf.inst.kind = "cal")
      <3>1. alu_iq' = alu_iq /\ alu_cnt > 0 /\ alu_dst' = alu_dst
        BY <1>14, <2>0, <2>2 DEF DClock, Clock, Arith, Base, TypeOK
      <3>2. x \in vld
        BY <1>14, <3>1 DEF Base, Order, Units, Placed, inAlu, TypeOK
      <3>. QED BY <1>2, <1>14, <3>1, <3>2 DEF EdgeIs, SrcInv
    <2>. QED BY <2>1, <2>2
  <1>. QED BY <1>1, <1>7, <1>12, <1>13, <1>14 DEF SrcInv

\* A source waits for an unfinished older instruction only, also when two are
\* dispatched in a cycle.
THEOREM SourcesComeTrueCorrect == Calm /\ Quiet /\ DSpec => []SourcesComeTrue
  <1>1. DInit => SrcInv
    BY DEF DInit, Init, SrcInv, waiting, inRf
  <1>2. Quiet /\ Base /\ SrcInv /\ [DNext]_dvars => SrcInv'
    <2>1. Quiet /\ Base /\ SrcInv /\ DNext => SrcInv'
      BY SrcStep DEF DNext
    <2>2. SrcInv /\ UNCHANGED dvars => SrcInv'
      <3> SUFFICES ASSUME SrcInv, UNCHANGED dvars PROVE SrcInv'
        OBVIOUS
      <3>1. UNCHANGED <<vld, frz, rf, alu_cnt, alu_iq, open, table, op, depd, before, alu_dst>>
        BY DEF dvars, deps, vars
      <3>. QED BY <3>1 DEF SrcInv, waiting, inRf
    <2>. QED BY <2>1, <2>2
  <1>3. SrcInv => SourcesComeTrue
    BY DEF SrcInv, SourcesComeTrue, waiting
  <1>4. Quiet => Quiet'
    BY DEF Quiet
  <1>. QED BY <1>1, <1>2, <1>3, <1>4, AlwaysBase, PTL DEF DSpec, dvars

-----------------------------------------------------------------------------
(* Readers wait for writers.                                                 *)

\* No stall, and neither of the two ways in which the clear of the arithmetic
\* unit takes a writer from the table that a reader still has to wait for.
Kept == Cases \subseteq {"wakeup"}

\* A writer that has not started, and a load until it ends, is in the table;
\* only a started arithmetic instruction is open to the clear of its unit.
Mapped(r) ==
  /\ writer[r] \in vld
  /\ writer[r] \notin started \/ op[writer[r]].kind = "lsu" => table[r] = writer[r]
  /\ alu_dst = r /\ writer[r] \in alu_iq =>
       op[writer[r]].kind = "cal" /\ (alu_ex1 \/ writer[r] \in started)

\* One of the dependency registers of e covers what e must wait for.
Covered(e, w, t) ==
  \E k \in Sources : /\ depd[e][k] = w
                     /\ t = "finish" => k = "src1" /\ macc_type(op[e])

RawInv ==
  /\ \A r \in Regs : writer[r] # NoEntry => Mapped(r)
  /\ alu_dst \in Regs => alu_iq # {}
  /\ raw \in [Entry -> SUBSET (Entry \X {"start", "finish"})]
  /\ \A e \in waiting : \A w \in Entry, t \in {"start", "finish"} :
       <<w, t>> \in raw[e] => Covered(e, w, t)
  /\ \A e \in inRf : raw[e] = {}

\* The writers after an edge.
LEMMA WriterStep ==
  ASSUME OneByOne, Kept, Base, RawInv, NEW ops \in OpSeqs, NEW stall \in BOOLEAN,
         NEW srcrdy \in SUBSET matrix_src_dest_rdy, NEW fail \in BOOLEAN,
         NEW fin \in Answers, NEW wake \in Answers,
         DClock(ops, stall, srcrdy, fail, fin, wake),
         NEW r \in Regs, writer'[r] # NoEntry
  PROVE  \/ /\ writer'[r] \in create_en(ops, stall)
            /\ ops[1].dst = r /\ table'[r] = writer'[r]
         \/ /\ writer'[r] = writer[r] /\ writer[r] \in vld \ ended(fin)
            /\ table'[r] = IF Cleared(r, fin) THEN NoEntry ELSE table[r]
  <1>1. OpPacket(ops) /\ ~("dual" \in Allowed)
    BY QueueStep DEF Base, OneByOne
  <1>2. ~stall
    BY DEF DClock, Coincidence, Kept
  <1>3. Len(ops) \in {0, 1} /\ creates(ops, stall) = Len(ops)
    BY <1>1, <1>2 DEF OpPacket, creates
  <1>4. writer'[r] = LET new == {k \in 1 .. creates(ops, stall) : ops[k].dst = r}
                     IN  IF 2 \in new THEN CHOOSE e \in create1_in : TRUE
                         ELSE IF 1 \in new THEN CHOOSE e \in create0_in : TRUE
                         ELSE IF writer[r] \in ended(fin) THEN NoEntry ELSE writer[r]
    BY DEF DClock, Ghosts
  <1>5. table'[r] = Table(ops, fin)[r]
    BY DEF DClock
  <1>6. CASE Len(ops) = 1 /\ ops[1].dst = r
    <2>1. PICK c \in create_en(ops, stall) : widx(ops, 1) = c
      BY <1>2, <1>6, WidxOf
    <2>2. create0_in = {c}
      BY <2>1, OneCreated
    <2>3. writer'[r] = c
      BY <1>3, <1>4, <1>6, <2>2
    <2>4. table'[r] = c
      BY <1>5, <1>6, <2>1 DEF Table
    <2>. QED BY <1>6, <2>1, <2>3, <2>4
  <1>7. CASE ~(Len(ops) = 1 /\ ops[1].dst = r)
    <2>1. writer'[r] = IF writer[r] \in ended(fin) THEN NoEntry ELSE writer[r]
      BY <1>3, <1>4, <1>7
    <2>2. writer'[r] = writer[r] /\ writer[r] \notin ended(fin) /\ writer[r] # NoEntry
      BY <2>1
    <2>3. table'[r] = IF Cleared(r, fin) THEN NoEntry ELSE table[r]
      BY <1>3, <1>5, <1>7 DEF Table
    <2>. QED BY <2>2, <2>3 DEF RawInv, Mapped
  <1>. QED BY <1>3, <1>6, <1>7

LEMMA MappedStep ==
  ASSUME OneByOne, Kept, Base, RawInv, NEW ops \in OpSeqs, NEW stall \in BOOLEAN,
         NEW srcrdy \in SUBSET matrix_src_dest_rdy, NEW fail \in BOOLEAN,
         NEW fin \in Answers, NEW wake \in Answers,
         DClock(ops, stall, srcrdy, fail, fin, wake),
         NEW r \in Regs, writer'[r] # NoEntry
  PROVE  /\ writer'[r] \in vld'
         /\ writer'[r] \notin started' \/ op'[writer'[r]].kind = "lsu" => table'[r] = writer'[r]
         /\ alu_dst' = r /\ writer'[r] \in alu_iq' =>
              op'[writer'[r]].kind = "cal" /\ (alu_ex1' \/ writer'[r] \in started')
  <1> DEFINE C == create_en(ops, stall)
             w == writer[r]
  <1>1. EdgeIs(ops, stall, fin, wake)
    BY DEdge
  <1>2. C \subseteq Entry \ vld
    <2>1. CreationIs(ops, stall)
      BY DCreation
    <2>. QED BY <2>1 DEF CreationIs
  <1>3. \/ writer'[r] \in C /\ ops[1].dst = r /\ table'[r] = writer'[r]
        \/ /\ writer'[r] = w /\ w \in vld \ ended(fin) /\ w # NoEntry
           /\ table'[r] = IF Cleared(r, fin) THEN NoEntry ELSE table[r]
    BY WriterStep
  <1>4. Clock(Dispatched(ops), stall, srcrdy, fail, fin)
    BY DEF DClock
  <1>5. started' = ((started \cup begun(wake)) \ ended(fin)) \ C
    BY DEF DClock, Ghosts
  <1>6. \A x : alu_iq = {x} /\ x \in Entry => Idx(alu_iq) = x
    <2>1. N <= 16
      BY DEF Base, Order, Units, Placed, Calm
    <2>2. \A x \in Entry : Idx({x}) = x
      BY <2>1, IdxOf
    <2>. QED BY <2>2
  <1>7. r # NoReg
    BY DepsAssumption DEF NoReg
  <1>8. ASSUME rf.vld, rf.inst.kind = "cal"
        PROVE  /\ alu_ex1' /\ alu_iq' \subseteq vld
               /\ \A m \in alu_iq' : op'[m].kind = "cal"
    <2>1. PICK m : rf.entry = {m} /\ m \in vld /\ rf.inst = data[m]
      BY <1>8 DEF Base, Order, Units, Placed, TypeOK, inRf
    <2>2. alu_iq' = {m}
      BY <1>4, <1>8, <2>1 DEF Clock, Arith
    <2>3. ~fail
      BY <1>4, <1>8 DEF Clock, Inputs, OneByOne
    <2>4. alu_ex1'
      BY <1>8, <2>3 DEF DClock, launched
    <2>5. op'[m].kind = "cal"
      BY <1>1, <1>8, <2>1 DEF EdgeIs, Base, Latched
    <2>. QED BY <2>1, <2>2, <2>4, <2>5
  <1>9. ASSUME ~(rf.vld /\ rf.inst.kind = "cal")
        PROVE  alu_iq' = alu_iq /\ alu_dst' = alu_dst
    BY <1>4, <1>9 DEF DClock, Clock, Arith
  <1>10. CASE writer'[r] \in C /\ ops[1].dst = r /\ table'[r] = writer'[r]
    <2>1. writer'[r] \in vld'
      BY <1>1, <1>10 DEF EdgeIs
    <2>2. ASSUME alu_dst' = r, writer'[r] \in alu_iq' PROVE FALSE
      <3>1. CASE rf.vld /\ rf.inst.kind = "cal"
        BY <1>2, <1>8, <1>10, <2>2, <3>1
      <3>2. CASE ~(rf.vld /\ rf.inst.kind = "cal")
        <4>1. alu_dst = r /\ alu_iq = {writer'[r]} /\ writer'[r] \in Entry
          BY <1>9, <2>2, <3>2 DEF Base, Order, Units, Placed
        <4>2. Created(ops, writer'[r]).dst = alu_dst /\ writer'[r] = Idx(alu_iq)
          <5>1. Created(ops, writer'[r]) = ops[1]
            BY <1>10, OneCreated
          <5>. QED BY <1>6, <1>10, <4>1, <5>1
        <4>. QED BY <1>10, <4>2 DEF DClock, Coincidence, Kept
      <3>. QED BY <3>1, <3>2
    <2>. QED BY <1>10, <2>1, <2>2
  <1>11. CASE /\ writer'[r] = w /\ w \in vld \ ended(fin) /\ w # NoEntry
              /\ table'[r] = IF Cleared(r, fin) THEN NoEntry ELSE table[r]
    <2>1. w \in vld' /\ op'[w] = op[w] /\ w \notin C /\ w \in Entry
      BY <1>1, <1>2, <1>11 DEF EdgeIs, Base, TypeOK
    <2>2. Mapped(r)
      BY <1>11 DEF RawInv
    <2>3. w \in started \/ (alu_ex1 /\ w \in alu_iq) => w \in started'
      BY <1>5, <1>11, <2>1 DEF begun
    <2>4. ASSUME w \notin started' \/ op'[w].kind = "lsu" PROVE table'[r] = w
      <3>1. w \notin started \/ op[w].kind = "lsu"
        BY <2>1, <2>3, <2>4
      <3>2. table[r] = w
        BY <2>2, <3>1 DEF Mapped
      <3>3. ASSUME NEW e \in fin, table[r] = Idx(fin) PROVE FALSE
        <4>1. fin = {e} /\ e \in Entry
          BY <3>3 DEF Answers, Base, TypeOK
        <4>2. Idx(fin) = e
          BY <4>1, IdxOf DEF Base, Order, Units, Placed, Calm
        <4>. QED BY <1>11, <3>2, <3>3, <4>2 DEF ended
      <3>4. ASSUME alu_dst = r, table[r] = Idx(alu_iq) PROVE FALSE
        <4>1. alu_iq = {w}
          <5>1. PICK x \in Entry : alu_iq = {x}
            BY <3>4 DEF RawInv, Base, Order, Units, Placed
          <5>. QED BY <1>6, <3>2, <3>4, <5>1
        <4>2. op[w].kind = "cal" /\ (alu_ex1 \/ w \in started)
          BY <2>2, <3>4, <4>1 DEF Mapped
        <4>. QED BY <2>1, <2>3, <2>4, <4>1, <4>2
      <3>5. ~Cleared(r, fin)
        BY <3>3, <3>4 DEF Cleared
      <3>. QED BY <1>11, <3>2, <3>5
    <2>5. ASSUME alu_dst' = r, w \in alu_iq'
          PROVE  op'[w].kind = "cal" /\ (alu_ex1' \/ w \in started')
      <3>1. CASE rf.vld /\ rf.inst.kind = "cal"
        BY <1>8, <2>5, <3>1
      <3>2. CASE ~(rf.vld /\ rf.inst.kind = "cal")
        <4>1. alu_dst = r /\ w \in alu_iq
          BY <1>9, <2>5, <3>2
        <4>2. op[w].kind = "cal" /\ (alu_ex1 \/ w \in started)
          BY <2>2, <4>1 DEF Mapped
        <4>. QED BY <2>1, <2>3, <4>1, <4>2
      <3>. QED BY <3>1, <3>2
    <2>. QED BY <1>11, <2>1, <2>4, <2>5
  <1>. QED BY <1>3, <1>10, <1>11

\* What a created instruction must wait for is what it found in the table.
FoundFor(e, w, t) ==
  \E k \in Sources : /\ depd'[e][k] = w
                     /\ t = "finish" => k = "src1" /\ macc_type(op'[e])

\* What an instruction waits for: the start of some, the finish of others.
LEMMA TaggedIs ==
  ASSUME NEW A, NEW B, NEW p \in {<<x, "start">> : x \in A} \cup {<<x, "finish">> : x \in B}
  PROVE  \/ p = <<p[1], "start">> /\ p[2] = "start" /\ p[1] \in A
         \/ p = <<p[1], "finish">> /\ p[2] = "finish" /\ p[1] \in B
  <1>1. CASE p \in {<<x, "start">> : x \in A}
    <2>1. PICK x \in A : p = <<x, "start">>
      BY <1>1
    <2>2. p[1] = x /\ p[2] = "start"
      BY <2>1
    <2>. QED BY <2>1, <2>2
  <1>2. CASE p \in {<<x, "finish">> : x \in B}
    <2>1. PICK x \in B : p = <<x, "finish">>
      BY <1>2
    <2>2. p[1] = x /\ p[2] = "finish"
      BY <2>1
    <2>. QED BY <2>1, <2>2
  <1>. QED BY <1>1, <1>2

LEMMA RawCreated ==
  ASSUME OneByOne, Kept, Base, RawInv, NEW ops \in OpSeqs, NEW stall \in BOOLEAN,
         NEW srcrdy \in SUBSET matrix_src_dest_rdy, NEW fail \in BOOLEAN,
         NEW fin \in Answers, NEW wake \in Answers,
         DClock(ops, stall, srcrdy, fail, fin, wake),
         NEW e \in create_en(ops, stall),
         NEW w, NEW t \in {"start", "finish"}, <<w, t>> \in raw'[e]
  PROVE  w \in Entry /\ FoundFor(e, w, t)
  <1> DEFINE o == ops[1]
  <1>1. EdgeIs(ops, stall, fin, wake)
    BY DEdge
  <1>2. ~from1(ops, e) /\ Created(ops, e) = o /\ o \in Ops /\ create_en(ops, stall) = {e}
    BY OneCreated
  <1>3. e \in Entry
    <2>1. CreationIs(ops, stall)
      BY DCreation
    <2>. QED BY <2>1 DEF CreationIs
  <1>4. raw'[e] = Raw(ops, 1, fin, wake) /\ op'[e] = o
        /\ \A k \in Sources : depd'[e][k] = Lookup(o[k])
    BY <1>1, <1>2, <1>3 DEF DClock, Ghosts, Depd, EdgeIs
  <1>5. \A k \in Sources : o[k] \in Regs \cup {NoReg}
    BY <1>2, OpParts
  <1>6. ASSUME NEW r, w \in Writer(ops, 1, fin, r)
        PROVE  r # NoReg /\ w = writer[r] /\ w # NoEntry
    BY <1>6 DEF Writer
  <1>7. CASE t = "start" /\ \E r \in reads(o) : /\ w \in Writer(ops, 1, fin, r)
                                                /\ w \notin started \cup begun(wake)
    <2>1. PICK k \in Sources : /\ o[k] # NoReg /\ w \in Writer(ops, 1, fin, o[k])
                               /\ w \notin started
      BY <1>7 DEF reads
    <2>2. o[k] \in Regs /\ w = writer[o[k]] /\ w # NoEntry
      BY <1>5, <1>6, <2>1
    <2>3. Mapped(o[k])
      BY <2>2 DEF RawInv
    <2>4. table[o[k]] = w /\ w \in Entry
      BY <2>1, <2>2, <2>3 DEF Mapped, Base, TypeOK
    <2>5. depd'[e][k] = w
      BY <1>4, <2>1, <2>4 DEF Lookup
    <2>. QED BY <1>7, <2>4, <2>5 DEF FoundFor
  <1>8. CASE t = "finish" /\ macc_type(o) /\ w \in Writer(ops, 1, fin, o.src1)
    <2>0. "src1" \in Sources /\ o.src1 = o["src1"]
      BY DEF Sources
    <2>1. o.src1 \in Regs /\ w = writer[o.src1] /\ w # NoEntry
      BY <1>5, <1>6, <1>8, <2>0
    <2>2. Mapped(o.src1)
      BY <2>1 DEF RawInv
    <2>3. w \in vld /\ w \in Entry /\ op[w].kind \in {"cal", "lsu"}
      BY <2>1, <2>2, OpParts DEF Mapped, Base, TypeOK, Latched
    <2>4. ~busy(ops, e, fin)
      BY DEF DClock, Coincidence, Kept
    <2>5. ~(w \in started /\ op[w].kind = "cal")
      BY <1>2, <1>8, <2>4 DEF busy
    <2>6. table[o.src1] = w
      BY <2>1, <2>2, <2>3, <2>5 DEF Mapped
    <2>7. depd'[e]["src1"] = w
      BY <1>4, <1>6, <1>8, <2>0, <2>6 DEF Lookup
    <2>. QED BY <1>4, <1>8, <2>0, <2>3, <2>7 DEF FoundFor
  <1>9. \/ t = "start" /\ \E r \in reads(o) : /\ w \in Writer(ops, 1, fin, r)
                                              /\ w \notin started \cup begun(wake)
        \/ t = "finish" /\ macc_type(o) /\ w \in Writer(ops, 1, fin, o.src1)
    <2> DEFINE A == (UNION {Writer(ops, 1, fin, r) : r \in reads(o)}) \ (started \cup begun(wake))
               B == IF macc_type(o) THEN Writer(ops, 1, fin, o.src1) ELSE {}
    <2>1. raw'[e] = {<<x, "start">> : x \in A} \cup {<<x, "finish">> : x \in B}
      BY <1>4 DEF Raw
    <2> HIDE DEF A, B
    <2>2. <<w, t>> \in {<<x, "start">> : x \in A} \cup {<<x, "finish">> : x \in B}
      BY <2>1
    <2>6. <<w, t>>[1] = w /\ <<w, t>>[2] = t
      OBVIOUS
    <2>5. (t = "start" /\ w \in A) \/ (t = "finish" /\ w \in B)
      BY <2>2, <2>6, TaggedIs
    <2>3. w \in A => \E r \in reads(o) : w \in Writer(ops, 1, fin, r) /\ w \notin started \cup begun(wake)
      BY DEF A
    <2>4. w \in B => macc_type(o) /\ w \in Writer(ops, 1, fin, o.src1)
      BY DEF B
    <2>. QED BY <2>3, <2>4, <2>5
  <1>. QED BY <1>7, <1>8, <1>9

LEMMA RawStep ==
  ASSUME OneByOne, Kept, Base, RawInv, NEW ops \in OpSeqs, NEW stall \in BOOLEAN,
         NEW srcrdy \in SUBSET matrix_src_dest_rdy, NEW fail \in BOOLEAN,
         NEW fin \in Answers, NEW wake \in Answers,
         DClock(ops, stall, srcrdy, fail, fin, wake)
  PROVE  RawInv'
  <1> DEFINE C == create_en(ops, stall)
  <1>1. EdgeIs(ops, stall, fin, wake)
    BY DEdge
  <1>2. C \subseteq Entry \ vld
    <2>1. CreationIs(ops, stall)
      BY DCreation
    <2>. QED BY <2>1 DEF CreationIs
  <1>3. ASSUME NEW r \in Regs, writer'[r] # NoEntry PROVE Mapped(r)'
    BY <1>3, MappedStep DEF Mapped
  <1>4. alu_dst' \in Regs => alu_iq' # {}
    <2>1. Clock(Dispatched(ops), stall, srcrdy, fail, fin)
      BY DEF DClock
    <2>2. CASE rf.vld /\ rf.inst.kind = "cal"
      BY <2>1, <2>2 DEF Clock, Arith, Base, Order, Units, Placed
    <2>3. CASE ~(rf.vld /\ rf.inst.kind = "cal")
      BY <2>1, <2>3 DEF DClock, Clock, Arith, RawInv
    <2>. QED BY <2>2, <2>3
  <1>5. \A e \in Entry \ C : raw'[e] = Done(raw[e], fin, wake)
    BY DEF DClock, Ghosts
  <1>6. raw' \in [Entry -> SUBSET (Entry \X {"start", "finish"})]
    <2>1. raw' = [e \in Entry |-> raw'[e]]
      BY DEF DClock, Ghosts
    <2>2. ASSUME NEW e \in Entry \ C PROVE raw'[e] \subseteq Entry \X {"start", "finish"}
      BY <1>5 DEF Done, RawInv
    <2>3. ASSUME NEW e \in C PROVE raw'[e] \subseteq Entry \X {"start", "finish"}
      <3>1. raw'[e] = Raw(ops, IF from1(ops, e) THEN 2 ELSE 1, fin, wake)
        BY <1>2 DEF DClock, Ghosts
      <3>2. PICK A, B : raw'[e] = {<<x, "start">> : x \in A} \cup {<<x, "finish">> : x \in B}
        BY <3>1 DEF Raw
      <3>3. ASSUME NEW p \in raw'[e] PROVE p \in Entry \X {"start", "finish"}
        <4>1. PICK w : p = <<w, "start">> \/ p = <<w, "finish">>
          BY <3>2, <3>3, TaggedIs
        <4>2. w \in Entry
          BY <2>3, <3>3, <4>1, RawCreated
        <4>. QED BY <4>1, <4>2
      <3>. QED BY <3>3
    <2>. QED BY <2>1, <2>2, <2>3
  <1>7. inRf \subseteq Entry \ C /\ waiting \subseteq Entry \ C
    BY <1>2 DEF Base, Order, Units, Placed, TypeOK, waiting
  <1>8. \A e \in inRf : raw'[e] = {}
    <2>1. \A e \in inRf : raw[e] = {}
      BY DEF RawInv
    <2>. QED BY <1>5, <1>7, <2>1 DEF Done
  <1>9. \A e \in inRf' : raw'[e] = {}
    <2>1. ASSUME NEW e \in inRf' PROVE e \in waiting /\ e \in Entry \ C /\ depd[e] = NoDeps
      BY <1>1, <1>7, <2>1 DEF EdgeIs, matrix_src_dest_rdy, waiting
    <2>2. ASSUME NEW e \in inRf', NEW p \in raw[e] PROVE FALSE
      <3>1. PICK w \in Entry, t \in {"start", "finish"} : p = <<w, t>>
        BY <2>1, <2>2 DEF RawInv
      <3>2. Covered(e, w, t)
        <4>1. \A x \in Entry, u \in {"start", "finish"} : <<x, u>> \in raw[e] => Covered(e, x, u)
          BY <2>1 DEF RawInv
        <4>. QED BY <2>2, <3>1, <4>1
      <3>3. w = NoEntry
        BY <2>1, <2>2, <3>2 DEF Covered, NoDeps
      <3>. QED BY <3>3 DEF NoEntry, Entry
    <2>. QED BY <1>5, <2>1, <2>2 DEF Done
  <1>10. ASSUME NEW e \in waiting', NEW w \in Entry, NEW t \in {"start", "finish"},
                <<w, t>> \in raw'[e]
         PROVE  FoundFor(e, w, t)
    <2>1. CASE e \in C
      BY <1>10, <2>1, RawCreated
    <2>2. CASE e \in inRf
      BY <1>8, <1>10, <2>2
    <2>3. CASE e \in waiting
      <3>1. e \in Entry \ C /\ e \in vld
        BY <1>7, <2>3 DEF waiting
      <3>2. <<w, t>> \in raw[e] /\ w \notin ended(fin) /\ (t = "start" => w \notin begun(wake))
        BY <1>5, <1>10, <3>1 DEF Done
      <3>3. PICK k \in Sources : depd[e][k] = w /\ (t = "finish" => k = "src1" /\ macc_type(op[e]))
        BY <2>3, <3>2 DEF RawInv, Covered
      <3>4. depd'[e][k] = IF depd[e][k] \in mat_finish(fin) \cup
                               (IF k = "src1" /\ macc_type(op[e]) THEN {} ELSE line_wakeup(wake))
                          THEN NoEntry ELSE depd[e][k]
        BY <3>1 DEF DClock, Depd
      <3>5. w \notin mat_finish(fin) /\ (t = "start" => w \notin line_wakeup(wake))
        BY <1>1, <3>2 DEF EdgeIs
      <3>6. depd'[e][k] = w
        BY <3>3, <3>4, <3>5
      <3>7. op'[e] = op[e]
        BY <1>1, <3>1 DEF EdgeIs
      <3>. QED BY <3>3, <3>6, <3>7 DEF FoundFor
    <2>. QED BY <1>1, <1>10, <2>1, <2>2, <2>3 DEF EdgeIs
  <1>11. ASSUME NEW e \in waiting', NEW w \in Entry, NEW t \in {"start", "finish"},
                <<w, t>> \in raw'[e]
         PROVE  Covered(e, w, t)'
    BY <1>10, <1>11 DEF Covered, FoundFor
  <1>. QED BY <1>3, <1>4, <1>6, <1>9, <1>11 DEF RawInv

\* A reader is launched only after the youngest older writer of each register it
\* reads has started, and has finished for the second source of an accumulation.
THEOREM RawOrderCorrect == OneByOne /\ Kept /\ DSpec => []RawOrder
  <1>1. OneByOne => Calm
    BY DepsAssumption DEF OneByOne, Calm
  <1>2. DInit => RawInv
    BY DepsAssumption DEF DInit, Init, RawInv, waiting, inRf, NoReg
  <1>3. OneByOne /\ Kept /\ Base /\ RawInv /\ [DNext]_dvars => RawInv'
    <2>1. OneByOne /\ Kept /\ Base /\ RawInv /\ DNext => RawInv'
      BY RawStep DEF DNext
    <2>2. RawInv /\ UNCHANGED dvars => RawInv'
      <3> SUFFICES ASSUME RawInv, UNCHANGED dvars PROVE RawInv'
        OBVIOUS
      <3>1. UNCHANGED <<vld, frz, rf, alu_iq, alu_ex1, table, op, depd, alu_dst, started, writer, raw>>
        BY DEF dvars, deps, vars
      <3>. QED BY <3>1 DEF RawInv, Mapped, Covered, waiting, inRf
    <2>. QED BY <2>1, <2>2
  <1>4. RawInv => RawOrder
    BY DEF RawInv, RawOrder, inRf
  <1>5. OneByOne /\ Kept => (OneByOne /\ Kept)'
    BY DEF OneByOne, Kept
  <1>. QED BY <1>1, <1>2, <1>3, <1>4, <1>5, AlwaysBase, PTL DEF DSpec, dvars

=============================================================================
