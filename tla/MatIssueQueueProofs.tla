------------------------- MODULE MatIssueQueueProofs -------------------------
(***************************************************************************)
(* Proofs about MatIssueQueue, for every number of entries up to the range  *)
(* of an index (16) and every number of rows and of mcfg instructions.     *)
(***************************************************************************)
EXTENDS MatIssueQueue, FiniteSetTheorems, WellFoundedInduction, TLAPS

-----------------------------------------------------------------------------
(* What is dispatched. *)

Bump(i) == IF i.kind = "cfg" THEN 1 ELSE 0

\* ins are the next instructions after b mcfg instructions, to says how many
\* there are with those of ins.
Follows(ins, b, to) ==
  \/ ins = <<>> /\ to = b
  \/ \E i \in Inst : /\ ins = <<i>>
                     /\ i.epoch = b + Bump(i) /\ to = i.epoch
  \/ \E i, j \in Inst : /\ ins = <<i, j>>
                        /\ i.epoch = b + Bump(i) /\ j.epoch = i.epoch + Bump(j)
                        /\ to = j.epoch

LEMMA CfgsOfOne ==
  ASSUME NEW k \in Kinds
  PROVE  cfgs(<<k>>, 1) = IF k = "cfg" THEN 1 ELSE 0
  <1>1. 1 .. 1 = {1}
    OBVIOUS
  <1>2. {j \in 1 .. 1 : <<k>>[j] = "cfg"} = IF k = "cfg" THEN {1} ELSE {}
    BY <1>1
  <1>. QED BY <1>2, FS_EmptySet, FS_Singleton DEF cfgs

LEMMA CfgsOfTwo ==
  ASSUME NEW k \in Kinds, NEW l \in Kinds
  PROVE  /\ cfgs(<<k, l>>, 1) = IF k = "cfg" THEN 1 ELSE 0
         /\ cfgs(<<k, l>>, 2) = (IF k = "cfg" THEN 1 ELSE 0) + (IF l = "cfg" THEN 1 ELSE 0)
  <1>1. 1 .. 1 = {1} /\ 1 .. 2 = {1, 2}
    OBVIOUS
  <1>2. {j \in 1 .. 1 : <<k, l>>[j] = "cfg"} = IF k = "cfg" THEN {1} ELSE {}
    BY <1>1
  <1>3. {j \in 1 .. 2 : <<k, l>>[j] = "cfg"} =
          (IF k = "cfg" THEN {1} ELSE {}) \cup (IF l = "cfg" THEN {2} ELSE {})
    BY <1>1
  <1>4. Cardinality({1, 2}) = 2
    <2>1. Cardinality({1} \cup {2}) = Cardinality({1}) + 1
      <3>1. IsFiniteSet({1})
        BY FS_Singleton
      <3>2. 2 \notin {1}
        OBVIOUS
      <3>. QED BY <3>1, <3>2, FS_AddElement
    <2>2. {1} \cup {2} = {1, 2}
      OBVIOUS
    <2>. QED BY <2>1, <2>2, FS_Singleton
  <1>5. {1} \cup {2} = {1, 2}
    OBVIOUS
  <1>6. Cardinality({}) = 0 /\ Cardinality({1}) = 1 /\ Cardinality({2}) = 1
    BY FS_EmptySet, FS_Singleton
  <1>7. cfgs(<<k, l>>, 1) = IF k = "cfg" THEN 1 ELSE 0
    BY <1>2, <1>6 DEF cfgs
  <1>8. CASE k = "cfg"
    BY <1>3, <1>4, <1>5, <1>6, <1>7, <1>8 DEF cfgs
  <1>9. CASE k # "cfg"
    BY <1>3, <1>6, <1>7, <1>9 DEF cfgs
  <1>. QED BY <1>8, <1>9

LEMMA CfgsOfNone == cfgs(<<>>, 0) = 0
  <1>1. {j \in 1 .. 0 : <<>>[j] = "cfg"} = {}
    OBVIOUS
  <1>. QED BY <1>1, FS_EmptySet DEF cfgs

\* A new packet goes on from the present epoch.
LEMMA NewPacket ==
  ASSUME epoch \in 0 .. MaxCfg, MaxCfg \in Nat, NEW ks \in KindSeqs,
         epoch + cfgs(ks, Len(ks)) <= MaxCfg
  PROVE  LET ins == Tagged(ks)
         IN  Follows(ins, epoch,
               epoch + cfgs([i \in DOMAIN ins |-> ins[i].kind], Len(ins)))
  <1>1. CASE ks = <<>>
    <2>1. Tagged(ks) = <<>>
      BY <1>1 DEF Tagged
    <2>2. [i \in DOMAIN <<>> |-> <<>>[i].kind] = <<>>
      OBVIOUS
    <2>. QED BY <2>1, <2>2, CfgsOfNone DEF Follows
  <1>2. ASSUME NEW k \in Kinds, ks = <<k>>
        PROVE  Follows(Tagged(ks), epoch,
                 epoch + cfgs([i \in DOMAIN Tagged(ks) |-> Tagged(ks)[i].kind], Len(Tagged(ks))))
    <2> DEFINE a == [kind |-> k, epoch |-> epoch + cfgs(ks, 1)]
    <2>1. Tagged(ks) = <<a>>
      BY <1>2 DEF Tagged
    <2>2. [i \in DOMAIN <<a>> |-> <<a>>[i].kind] = <<k>>
      OBVIOUS
    <2>3. cfgs(ks, 1) = Bump(a) /\ Len(ks) = 1
      BY <1>2, CfgsOfOne DEF Bump
    <2>4. a \in Inst
      BY <2>3 DEF Inst, Bump
    <2>5. Follows(<<a>>, epoch, a.epoch)
      BY <2>3, <2>4 DEF Follows
    <2>6. epoch + cfgs([i \in DOMAIN Tagged(ks) |-> Tagged(ks)[i].kind], Len(Tagged(ks))) = a.epoch
      BY <1>2, <2>1, <2>2
    <2>. QED BY <2>1, <2>5, <2>6
  <1>3. ASSUME NEW k \in Kinds, NEW l \in Kinds, ks = <<k, l>>
        PROVE  Follows(Tagged(ks), epoch,
                 epoch + cfgs([i \in DOMAIN Tagged(ks) |-> Tagged(ks)[i].kind], Len(Tagged(ks))))
    <2> DEFINE a == [kind |-> k, epoch |-> epoch + cfgs(ks, 1)]
               b == [kind |-> l, epoch |-> epoch + cfgs(ks, 2)]
    <2>1. Tagged(ks) = <<a, b>>
      BY <1>3 DEF Tagged
    <2>2. [i \in DOMAIN <<a, b>> |-> <<a, b>>[i].kind] = <<k, l>>
      OBVIOUS
    <2>3. cfgs(ks, 1) = Bump(a) /\ cfgs(ks, 2) = Bump(a) + Bump(b) /\ Len(ks) = 2
      BY <1>3, CfgsOfTwo DEF Bump
    <2>4. a \in Inst /\ b \in Inst /\ b.epoch = a.epoch + Bump(b)
      BY <2>3 DEF Inst, Bump
    <2>5. Follows(<<a, b>>, epoch, b.epoch)
      BY <2>3, <2>4 DEF Follows
    <2>6. epoch + cfgs([i \in DOMAIN Tagged(ks) |-> Tagged(ks)[i].kind], Len(Tagged(ks))) = b.epoch
      BY <1>3, <2>1, <2>2
    <2>. QED BY <2>1, <2>5, <2>6
  <1>. QED BY <1>1, <1>2, <1>3 DEF KindSeqs

\* Whatever is presented has at most two instructions.
Packet(ins) == ins = <<>> \/ (\E i \in Inst : ins = <<i>>)
                          \/ (\E i, j \in Inst : ins = <<i, j>>)

LEMMA PresentedPackets ==
  ASSUME TypeOK, NEW ins \in Presented
  PROVE  /\ Packet(ins)
         /\ dis # <<>> => ins = dis
         /\ dis = <<>> => Follows(ins, epoch,
                            epoch + cfgs([i \in DOMAIN ins |-> ins[i].kind], Len(ins)))
  <1>1. CASE dis # <<>>
    <2>1. ins = dis
      BY <1>1 DEF Presented
    <2>2. dis \in [1 .. 1 -> Inst] \/ dis \in [1 .. 2 -> Inst]
      BY <1>1 DEF TypeOK
    <2>3. dis \in [1 .. 1 -> Inst] => dis = <<dis[1]>> /\ dis[1] \in Inst
      OBVIOUS
    <2>4. dis \in [1 .. 2 -> Inst] => dis = <<dis[1], dis[2]>> /\ dis[1] \in Inst /\ dis[2] \in Inst
      OBVIOUS
    <2>. QED BY <1>1, <2>1, <2>2, <2>3, <2>4 DEF Packet
  <1>2. CASE dis = <<>>
    <2>1. PICK ks \in KindSeqs : ins = Tagged(ks) /\ epoch + cfgs(ks, Len(ks)) <= MaxCfg
      BY <1>2 DEF Presented
    <2>2. Follows(ins, epoch, epoch + cfgs([i \in DOMAIN ins |-> ins[i].kind], Len(ins)))
      BY <2>1, NewPacket, MiqAssumption DEF TypeOK
    <2>. QED BY <1>2, <2>2 DEF Follows, Packet
  <1>. QED BY <1>1, <1>2

-----------------------------------------------------------------------------
(* Type correctness, for every surroundings. *)

Fins == {{}} \cup {{e} : e \in lsu}

\* No data register takes an instruction that is not there.
LEMMA DataTyped ==
  ASSUME TypeOK, NEW ins, Packet(ins)
  PROVE  /\ create_dp_en(ins) \subseteq Entry \ vld
         /\ \A e \in create_dp_en(ins) : ins[IF from1(ins, e) THEN 2 ELSE 1] \in Inst
  <1>1. create_dp_en(ins) \subseteq Entry \ vld
    BY DEF create_dp_en, create0_in, create1_in
  <1>2. ASSUME NEW e \in create_dp_en(ins)
        PROVE  ins[IF from1(ins, e) THEN 2 ELSE 1] \in Inst
    <2>1. Len(ins) >= 1 /\ (from1(ins, e) => Len(ins) >= 2)
      BY <1>2 DEF create_dp_en, from1, dp_en, Packet
    <2>. QED BY <2>1 DEF Packet
  <1>. QED BY <1>1, <1>2

LEMMA TypeStep ==
  ASSUME TypeOK, NEW ins \in Presented, NEW stall \in BOOLEAN,
         NEW srcrdy \in SUBSET (vld \ frz), NEW fail \in BOOLEAN, NEW fin \in Fins,
         Clock(ins, stall, srcrdy, fail, fin)
  PROVE  TypeOK'
  <1>0. /\ Packet(ins)
        /\ dis = <<>> => Follows(ins, epoch,
                           epoch + cfgs([i \in DOMAIN ins |-> ins[i].kind], Len(ins)))
    BY PresentedPackets
  <1>1. create0_in \subseteq Entry /\ create1_in \subseteq Entry
    BY DEF create0_in, create1_in
  <1>2. vld' \subseteq Entry /\ frz' \subseteq vld'
    BY <1>1 DEF Clock, Vld, create_en, TypeOK
  <1>3. agevec' \in [Entry -> SUBSET Entry]
    <2>1. \A e \in Entry : Agevec(ins, stall, fail, fin)[e] \in SUBSET Entry
      BY <1>1 DEF Agevec, CreateAge, TypeOK
    <2>. QED BY <2>1 DEF Clock
  <1>4. data' \in [Entry -> Inst \cup {Reset}]
    BY <1>0, DataTyped DEF Clock, Data, TypeOK
  <1>5. cnt' \in 0 .. CntMod - 1
    <2>1. Cardinality(fin) \in Nat
      BY FS_EmptySet, FS_Singleton DEF Fins
    <2>2. creates(ins, stall) \in Nat
      BY <1>0 DEF creates, Packet
    <2>3. CntMod \in Nat /\ CntMod > 0
      BY MiqAssumption
    <2> DEFINE a == IF rf_pop_vld(fail) THEN 1 ELSE 0
               b == IF alu_finish THEN 1 ELSE 0
               d == cnt + creates(ins, stall) - a - Cardinality(fin) - b
    <2>4. d \in Int
      BY <2>1, <2>2, <2>3 DEF TypeOK
    <2>5. d % CntMod \in 0 .. CntMod - 1
      <3> HIDE DEF d
      <3>. QED BY <2>3, <2>4
    <2>. QED BY <2>3, <2>5 DEF Clock, Cnt
  <1>6. rf' \in [vld : BOOLEAN, entry : SUBSET Entry, inst : Inst \cup {Reset}]
    <2>1. issue_en(srcrdy) \in SUBSET Entry
      BY DEF issue_en, entry_ready, TypeOK
    <2>2. \A e \in issue_en(srcrdy) : data[e] \in Inst \cup {Reset}
      BY <2>1 DEF TypeOK
    <2>3. \/ rf' = [vld |-> FALSE, entry |-> {}, inst |-> Reset]
          \/ \E i \in Inst \cup {Reset} :
               rf' = [vld |-> TRUE, entry |-> issue_en(srcrdy), inst |-> i]
      BY <2>2 DEF Clock, Rf
    <2>4. CASE rf' = [vld |-> FALSE, entry |-> {}, inst |-> Reset]
      BY <2>4
    <2>5. ASSUME NEW i \in Inst \cup {Reset},
                 rf' = [vld |-> TRUE, entry |-> issue_en(srcrdy), inst |-> i]
          PROVE  rf' \in [vld : BOOLEAN, entry : SUBSET Entry, inst : Inst \cup {Reset}]
      BY <2>1, <2>5
    <2>. QED BY <2>3, <2>4, <2>5
  <1>7. cfg_ex1' \in SUBSET (0 .. MaxCfg) /\ x_epoch' \in 0 .. MaxCfg
    <2>1. rf.inst.epoch \in 0 .. MaxCfg
      BY MiqAssumption DEF TypeOK, Inst, Reset
    <2>. QED BY <2>1 DEF Clock, Configure, TypeOK
  <1>8. lsu' \subseteq Entry
    BY DEF Clock, TypeOK
  <1>9. alu_iq' \subseteq Entry /\ alu_cnt' \in Nat
    BY MiqAssumption DEF Clock, Arith, TypeOK
  <1>10. dis' \in {<<>>} \cup (UNION {[1 .. k -> Inst] : k \in {1, 2}})
    <2>1. ASSUME NEW i \in Inst PROVE <<i>> \in [1 .. 1 -> Inst]
      OBVIOUS
    <2>2. ASSUME NEW i \in Inst, NEW j \in Inst PROVE <<i, j>> \in [1 .. 2 -> Inst]
      OBVIOUS
    <2>. QED BY <1>0, <2>1, <2>2 DEF Clock, Packet
  <1>11. epoch' \in 0 .. MaxCfg
    <2>1. Len(ins) \in Nat
      BY <1>0 DEF Packet
    <2>2. dis = <<>> =>
            epoch + cfgs([i \in DOMAIN ins |-> ins[i].kind], Len(ins)) \in 0 .. MaxCfg
      BY <1>0 DEF Follows, Inst, TypeOK
    <2>3. dis # <<>> => epoch' \in 0 .. MaxCfg
      BY <1>7, MiqAssumption DEF Clock, TypeOK
    <2>. QED BY <1>7, <2>2, <2>3 DEF Clock
  <1>12. flush' \in {"idle", "fe", "wait", "be", "fe_be"}
    BY DEF Clock, FlushNext, TypeOK
  <1>. QED BY <1>2, <1>3, <1>4, <1>5, <1>6, <1>7, <1>8, <1>9, <1>10, <1>11, <1>12 DEF TypeOK

\* The registers of the queue keep their types: in particular no data register
\* takes an instruction that was not presented and the counter stays below its
\* modulus.
THEOREM TypeCorrect == Spec => []TypeOK
  <1>1. Init => TypeOK
    BY MiqAssumption DEF Init, TypeOK, Inst, Reset
  <1>2. TypeOK /\ [Next]_vars => TypeOK'
    <2> SUFFICES ASSUME TypeOK, [Next]_vars PROVE TypeOK'
      OBVIOUS
    <2>1. CASE Next
      BY <2>1, TypeStep DEF Next, Fins
    <2>2. CASE UNCHANGED vars
      BY <2>2 DEF vars, TypeOK
    <2>. QED BY <2>1, <2>2
  <1>. QED BY <1>1, <1>2, PTL DEF Spec

-----------------------------------------------------------------------------
(* The order of issue: no failed launch of an arithmetic instruction, no mcfg *)
(* that pops together with a finish, no dispatch into a full queue.  The RTU *)
(* may flush when an arithmetic instruction takes one cycle at most: a longer*)
(* one outlives the flush, as nothing stops the arithmetic unit.             *)

Calm == Allowed \subseteq {"dual"} /\ N <= 16
Mild == /\ Allowed \subseteq {"dual", "flush"} /\ N <= 16
        /\ "flush" \in Allowed => Rows \subseteq {0, 1}

inRf  == IF rf.vld THEN rf.entry ELSE {}
inAlu == IF alu_cnt > 0 THEN alu_iq ELSE {}
waiting == vld \ frz

\* No flush reaches the queue in this cycle.
Running == ~flush_fe /\ ~flush_be

\* What a flush leaves behind: the queue is empty, and the arithmetic unit is in
\* the last cycle of an instruction that was flushed.
Leftover == "flush" \in Allowed /\ vld = {} /\ alu_cnt = 1

\* An instruction that was issued is in one place: the RF stage, the LSU or the
\* arithmetic unit; what is in RF is what its entry holds.  A valid mcfg waits
\* or is in RF.
Placed ==
  /\ Mild
  /\ rf.vld => \E e \in Entry : rf.entry = {e} /\ rf.inst = data[e]
  /\ alu_iq = {} \/ \E e \in Entry : alu_iq = {e}
  /\ alu_cnt > 0 => alu_iq # {}
  /\ inRf \subseteq frz /\ lsu \subseteq frz /\ (inAlu \subseteq frz \/ Leftover)
  /\ inRf \cap lsu = {} /\ inRf \cap inAlu = {} /\ lsu \cap inAlu = {}
  /\ \A e \in vld : data[e].kind = "cfg" => e \notin frz \/ e \in inRf

Ordered == Placed /\ AgeOrder

\* From the flush of the front end until the flush of the back end is over, the
\* queue, the RF stage and dispatch are empty; the units may be at work.
Flushed ==
  /\ Mild /\ flush # "idle"
  /\ vld = {} /\ ~rf.vld /\ dis = <<>>
  /\ alu_iq = {} \/ \E e \in Entry : alu_iq = {e}
  /\ alu_cnt > 0 => alu_iq # {}

\* Under Mild one of the two holds, and the queue is empty whenever the RTU waits
\* for the back end or flushes it alone.
FlushInv ==
  /\ Mild
  /\ "flush" \in Allowed => alu_cnt <= 1
  /\ "flush" \notin Allowed => flush = "idle"
  /\ flush \in {"wait", "be"} => Flushed
  /\ Ordered \/ Flushed

LEMMA LiveIs == live = (waiting \cup inRf \cup lsu \cup inAlu) \cap vld
  BY DEF live, waiting, inRf, inAlu

-----------------------------------------------------------------------------
(* One-hot indices. *)

LEMMA IdxOf ==
  /\ Idx({}) = 0
  /\ N <= 16 => \A e \in Entry : Idx({e}) = e
  <1>1. Idx({}) = 0
    BY DEF Idx
  <1>2. ASSUME N <= 16, NEW e \in Entry PROVE Idx({e}) = e
    <2>1. e \in 0 .. 15
      BY <1>2, MiqAssumption DEF Entry
    <2>. QED BY <2>1, SMTT(60) DEF Idx
  <1>. QED BY <1>1, <1>2

\* What finishes in this cycle.
Ended(fin) == fin \cup (IF alu_finish THEN alu_iq ELSE {})

LEMMA PopsEnded ==
  ASSUME TypeOK, Placed, NEW fin \in Fins, NEW fail \in BOOLEAN
  PROVE  /\ ex_pop(fin) \subseteq Ended(fin)
         /\ ending(fail, fin) = (IF rf_pop_vld(fail) THEN rf.entry ELSE {}) \cup Ended(fin)
         /\ Ended(fin) \subseteq lsu \cup inAlu
  <1>1. fin = {} \/ \E e \in Entry : fin = {e}
    BY DEF Fins, TypeOK
  <1>2. fin # {} => fin = {Idx(fin)}
    BY <1>1, IdxOf DEF Placed, Mild
  <1>3. alu_finish => alu_iq = {Idx(alu_iq)}
    BY IdxOf DEF Placed, Mild, alu_finish
  <1>. QED BY <1>2, <1>3 DEF ex_pop, Ended, ending, Fins, inAlu, alu_finish

-----------------------------------------------------------------------------
(* Creation. *)

LEMMA TwoFree ==
  ASSUME Cardinality(Entry \ vld) >= 2
  PROVE  create0_in \cap create1_in = {}
  <1> SUFFICES ASSUME NEW c \in create0_in, c \in create1_in PROVE FALSE
    OBVIOUS
  <1>1. c \in Entry \ vld /\ \A f \in Entry \ vld : f = c
    BY MiqAssumption DEF create0_in, create1_in, Entry
  <1>2. Entry \ vld = {c}
    BY <1>1
  <1>3. Cardinality({c}) = 1
    BY FS_Singleton
  <1>. QED BY <1>2, <1>3

\* Creation 1 goes to another entry than creation 0, and each entry takes the
\* instruction meant for it.
LEMMA Creation ==
  ASSUME TypeOK, Placed, NEW ins, Packet(ins), NEW stall \in BOOLEAN,
         NEW fail \in BOOLEAN, NEW fin, Inputs(ins, stall, fail, fin)
  PROVE  /\ create_en(ins, stall) \subseteq Entry \ vld
         /\ create_en(ins, stall) \subseteq create_dp_en(ins)
         /\ create_en(ins, stall) # {} => ~stall /\ Len(ins) >= 1
         /\ \A c \in create_en(ins, stall) :
              IF from1(ins, c) THEN /\ c \in create1_in /\ c \notin create0_in
                                    /\ create0_in \subseteq create_en(ins, stall)
                                    /\ Len(ins) = 2
                               ELSE c \in create0_in
         /\ \A c, d \in create_en(ins, stall) : (from1(ins, c) <=> from1(ins, d)) => c = d
  <1> DEFINE C == create_en(ins, stall)
  <1>1. create0_in \subseteq Entry \ vld /\ create1_in \subseteq Entry \ vld
    BY DEF create0_in, create1_in
  <1>2. /\ \A c, d \in create0_in : c = d
        /\ \A c, d \in create1_in : c = d
    BY MiqAssumption DEF create0_in, create1_in, Entry
  <1>3. CASE stall \/ ins = <<>>
    BY <1>3 DEF create_en, creates
  <1>4. CASE ~stall /\ \E i \in Inst : ins = <<i>>
    <2>1. Len(ins) = 1 /\ creates(ins, stall) = 1 /\ C = create0_in
      BY <1>4 DEF create_en, creates
    <2>2. ~full /\ dp_en(ins, 1) /\ ~dp_en(ins, 2)
      BY <2>1, MiqAssumption DEF Inputs, Placed, Mild, full, dp_en, TypeOK
    <2>3. \A c \in C : ~from1(ins, c)
      BY <2>1, <2>2 DEF from1
    <2>. QED BY <1>1, <1>2, <1>4, <2>1, <2>2, <2>3 DEF create_dp_en
  <1>5. CASE ~stall /\ \E i, j \in Inst : ins = <<i, j>>
    <2>1. Len(ins) = 2 /\ creates(ins, stall) = 2 /\ C = create0_in \cup create1_in
      BY <1>5 DEF create_en, creates
    <2>2. ~full /\ dp_en(ins, 1) /\ dp_en(ins, 2) /\ Cardinality(Entry \ vld) >= 2
      <3>1. cnt + 2 <= N /\ 2 <= Cardinality(Entry \ vld)
        BY <2>1 DEF Inputs, Placed, Mild
      <3>2. IsFiniteSet(Entry \ vld)
        <4>1. IsFiniteSet(Entry)
          BY MiqAssumption, FS_Interval DEF Entry
        <4>. QED BY <4>1, FS_Difference
      <3>3. Cardinality(Entry \ vld) \in Nat
        BY <3>2, FS_CardinalityType
      <3>. QED BY <2>1, <3>1, <3>3, MiqAssumption DEF full, dp_en, TypeOK
    <2>3. create0_in \cap create1_in = {}
      BY <2>2, TwoFree
    <2>4. \A c \in C : from1(ins, c) <=> c \in create1_in
      BY <2>1, <2>2, <2>3 DEF from1
    <2>. QED BY <1>1, <1>2, <1>5, <2>1, <2>2, <2>3, <2>4 DEF create_dp_en
  <1>. QED BY <1>3, <1>4, <1>5 DEF Packet

-----------------------------------------------------------------------------
(* The oldest of a set of unfinished entries. *)

LEMMA OldestOf ==
  ASSUME TypeOK, AgeOrder, NEW W \in SUBSET live, W # {}
  PROVE  \E m \in W : agevec[m] \cap W = {}
  <1> DEFINE older(e) == agevec[e] \cap W
             T == {older(e) : e \in W}
             R == StrictSubsetOrdering(Entry)
  <1>1. W \subseteq vld /\ vld \subseteq Entry
    BY DEF TypeOK, live
  <1>2. IsFiniteSet(Entry)
    BY MiqAssumption, FS_Interval DEF Entry
  <1>3. T \subseteq FiniteSubsetsOf(Entry) /\ T # {}
    <2>1. ASSUME NEW e \in W PROVE older(e) \in FiniteSubsetsOf(Entry)
      <3>1. older(e) \in SUBSET Entry
        BY <1>1
      <3>2. IsFiniteSet(older(e))
        BY <3>1, <1>2, FS_Subset
      <3>. QED BY <3>1, <3>2 DEF FiniteSubsetsOf
    <2>. QED BY <2>1
  <1>4. IsWellFoundedOn(R, FiniteSubsetsOf(Entry))
    BY FS_StrictSubsetOrderingWellFounded
  <1>5. \E x \in T : \A y \in T : <<y, x>> \notin R
    <2> HIDE DEF T, R
    <2>. QED BY <1>3, <1>4, WFMin
  <1>6. PICK e \in W : \A f \in W : <<older(f), older(e)>> \notin R
    BY <1>5
  <1>7. ASSUME NEW f \in older(e) PROVE FALSE
    <2>1. f \in W /\ f \in agevec[e] /\ f \in live /\ e \in live
      BY <1>7
    <2>2. older(f) \subseteq older(e)
      BY <2>1 DEF AgeOrder
    <2>3. f \notin older(f)
      BY <2>1 DEF AgeOrder
    <2>4. older(f) \in SUBSET Entry /\ older(e) \in SUBSET Entry
      BY <1>1
    <2>5. <<older(f), older(e)>> \in R
      BY <2>2, <2>3, <2>4, <1>7 DEF StrictSubsetOrdering
    <2>. QED BY <2>1, <2>5, <1>6
  <1>. QED BY <1>6, <1>7

\* When the RF stage is told that something is issued, exactly one entry is.
LEMMA GrantsOne ==
  ASSUME TypeOK, Ordered, NEW r \in SUBSET waiting
  PROVE  /\ xx_issue_en(r) => \E m \in waiting : issue_en(r) = {m}
         /\ ~xx_issue_en(r) => issue_en(r) = {}
  <1> DEFINE W == entry_ready(r)
  <1>1. W = r /\ W \subseteq live /\ live \subseteq vld
    BY DEF entry_ready, waiting, live
  <1>2. \A e \in live : agevec[e] \cap mcfg \subseteq live
    <2>1. ASSUME NEW e \in live, NEW x \in agevec[e], x \in mcfg PROVE x \in live
      BY <2>1 DEF Ordered, AgeOrder, Placed, mcfg, live, inRf
    <2>. QED BY <2>1
  <1>3. ASSUME NEW e \in W, agevec[e] \cap mcfg = {}
        PROVE  \E m \in waiting : issue_en(r) = {m}
    <2>1. PICK m \in W : agevec[m] \cap W = {}
      <3> HIDE DEF W
      <3>. QED BY <1>1, <1>3, OldestOf DEF Ordered
    <2>2. \A f \in W : f # m => m \in agevec[f]
      BY <1>1, <2>1 DEF Ordered, AgeOrder
    <2>3. agevec[m] \cap mcfg = {}
      BY <1>1, <1>2, <1>3, <2>2 DEF Ordered, AgeOrder
    <2>4. issue_en(r) = {m}
      BY <2>1, <2>2, <2>3 DEF issue_en
    <2>. QED BY <1>1, <2>4
  <1>. QED BY <1>3 DEF xx_issue_en, issue_en

-----------------------------------------------------------------------------
(* One clock edge. *)

\* The entries that leave the queue.
Gone(fail, fin) == (IF rf_pop_vld(fail) THEN rf.entry ELSE {}) \cup ex_pop(fin)

\* What an edge does, in terms of what ends and what is created.
Edge(ins, stall, srcrdy, fail, fin) ==
  /\ vld' = (vld \ Gone(fail, fin)) \cup create_en(ins, stall)
  /\ Gone(fail, fin) \subseteq ending(fail, fin)
  /\ waiting' = ((waiting \ issue_en(srcrdy)) \cup (IF fail THEN inRf ELSE {})) \cup create_en(ins, stall)
  /\ inRf' = issue_en(srcrdy)
  /\ rf'.vld => \E m \in waiting : issue_en(srcrdy) = {m} /\ rf'.inst = data[m]
  /\ \A e \in create_en(ins, stall) : agevec'[e] = CreateAge(ins, fail, fin, e)
  /\ \A e \in vld \ Gone(fail, fin) : agevec'[e] = agevec[e] \ Gone(fail, fin)
  /\ \A e \in vld \ Gone(fail, fin) : e \notin create_en(ins, stall) /\ data'[e] = data[e]
  /\ lsu' = (lsu \ fin) \cup (IF launched("lsu", fail) THEN inRf ELSE {})
  /\ inAlu' \subseteq (inAlu \ ending(fail, fin)) \cup (IF launched("cal", fail) THEN inRf ELSE {})

LEMMA EdgeOf ==
  ASSUME TypeOK, Ordered, Running, NEW ins \in Presented, NEW stall \in BOOLEAN,
         NEW srcrdy \in SUBSET waiting, NEW fail \in BOOLEAN, NEW fin \in Fins,
         Clock(ins, stall, srcrdy, fail, fin)
  PROVE  Edge(ins, stall, srcrdy, fail, fin)
  <1> DEFINE C == create_en(ins, stall)
             ended == ending(fail, fin)
  <1>1. Packet(ins) /\ Inputs(ins, stall, fail, fin) /\ ~flush_fe /\ ~flush_be
    BY PresentedPackets DEF Clock, Running
  <1>2. C \subseteq Entry \ vld /\ C \subseteq create_dp_en(ins)
    BY <1>1, Creation DEF Ordered
  <1>3. /\ ex_pop(fin) \subseteq Ended(fin)
        /\ ended = (IF rf_pop_vld(fail) THEN rf.entry ELSE {}) \cup Ended(fin)
        /\ Ended(fin) \subseteq lsu \cup inAlu
    BY PopsEnded DEF Ordered
  <1>4. rf_pop_vld(fail) => ex_pop(fin) = {}
    BY <1>1 DEF Inputs, Ordered, Placed, Mild
  <1>5. vld' = (vld \ Gone(fail, fin)) \cup C /\ Gone(fail, fin) \subseteq ended
    BY <1>1, <1>3 DEF Clock, Vld, Gone
  <1>6. /\ xx_issue_en(srcrdy) => \E m \in waiting : issue_en(srcrdy) = {m}
        /\ ~xx_issue_en(srcrdy) => issue_en(srcrdy) = {}
        /\ issue_en(srcrdy) \subseteq waiting
    BY GrantsOne DEF issue_en, entry_ready, waiting
  <1>7. /\ rf'.vld <=> xx_issue_en(srcrdy)
        /\ rf'.vld => rf'.entry = issue_en(srcrdy)
        /\ rf'.vld => \E m \in waiting : issue_en(srcrdy) = {m} /\ rf'.inst = data[m]
    <2>1. CASE ~xx_issue_en(srcrdy)
      <3>1. rf' = [vld |-> FALSE, entry |-> {}, inst |-> Reset]
        BY <1>1, <2>1 DEF Clock, Rf
      <3>. QED BY <2>1, <3>1
    <2>2. CASE xx_issue_en(srcrdy)
      <3>1. PICK m \in waiting : issue_en(srcrdy) = {m}
        BY <1>6, <2>2
      <3>2. Cardinality(issue_en(srcrdy)) = 1
        BY <3>1, FS_Singleton
      <3>3. \E i \in {data[e] : e \in issue_en(srcrdy)} :
              rf' = [vld |-> TRUE, entry |-> issue_en(srcrdy), inst |-> i]
        BY <1>1, <2>2, <3>2 DEF Clock, Rf
      <3>4. rf' = [vld |-> TRUE, entry |-> issue_en(srcrdy), inst |-> data[m]]
        BY <3>1, <3>3
      <3>. QED BY <2>2, <3>1, <3>4
    <2>. QED BY <2>1, <2>2
  <1>8. inRf' = issue_en(srcrdy)
    BY <1>6, <1>7 DEF inRf
  <1>9. /\ fail => rf.vld
        /\ waiting \cap Gone(fail, fin) = {} /\ inRf \cap ex_pop(fin) = {}
    BY <1>1, <1>3 DEF Inputs, Ordered, Placed, Leftover, waiting, inRf, rf_pop_vld, launched, Gone
  <1>10. frz' = ((frz \cup issue_en(srcrdy)) \ (IF fail THEN rf.entry ELSE {})) \cap (vld' \ C)
    BY DEF Clock, Frz
  <1>11. waiting' = ((waiting \ issue_en(srcrdy)) \cup (IF fail THEN inRf ELSE {})) \cup C
    <2>1. waiting' = vld' \ frz'
      BY DEF waiting
    <2>2. frz \subseteq vld /\ inRf \subseteq frz
      BY DEF TypeOK, Ordered, Placed
    <2>3. fail => inRf = rf.entry /\ inRf \cap Gone(fail, fin) = {}
      BY <1>9 DEF inRf, rf_pop_vld, launched, Gone
    <2>. QED BY <1>2, <1>5, <1>6, <1>9, <1>10, <2>1, <2>2, <2>3 DEF waiting
  <1>12. /\ \A e \in C : agevec'[e] = CreateAge(ins, fail, fin, e)
         /\ \A e \in vld \ Gone(fail, fin) : agevec'[e] = agevec[e] \ Gone(fail, fin)
    <2>1. \A e \in vld' : agevec'[e] = Agevec(ins, stall, fail, fin)[e] /\ e \in Entry
      BY <1>2, <1>5 DEF Clock, TypeOK
    <2>. QED BY <1>2, <1>4, <1>5, <2>1 DEF Agevec, Gone
  <1>13. \A e \in vld \ Gone(fail, fin) : e \notin C /\ data'[e] = data[e]
    <2>1. create_dp_en(ins) \subseteq Entry \ vld
      BY <1>1, DataTyped
    <2>. QED BY <1>2, <2>1 DEF Clock, Data, TypeOK
  <1>14. lsu' = (lsu \ fin) \cup (IF launched("lsu", fail) THEN inRf ELSE {})
    BY <1>1 DEF Clock, launched, inRf
  <1>15. inAlu' \subseteq (inAlu \ ended) \cup (IF launched("cal", fail) THEN inRf ELSE {})
    <2>1. CASE rf.vld /\ rf.inst.kind = "cal"
      <3>1. ~fail
        BY <1>1, <2>1 DEF Inputs, Ordered, Placed, Mild
      <3>. QED BY <2>1, <3>1 DEF Clock, Arith, inAlu, inRf, launched
    <2>2. CASE ~(rf.vld /\ rf.inst.kind = "cal")
      <3>1. alu_iq' = alu_iq /\ alu_cnt' = IF alu_cnt = 0 THEN 0 ELSE alu_cnt - 1
        BY <2>2 DEF Clock, Arith
      <3>2. alu_cnt' > 0 => ~alu_finish /\ alu_cnt > 0
        BY <3>1 DEF alu_finish, TypeOK
      <3>3. alu_cnt' > 0 => alu_iq \cap ended = {}
        BY <1>3, <3>2 DEF Ordered, Placed, inAlu, inRf, Ended, Fins, rf_pop_vld, launched
      <3>. QED BY <3>1, <3>2, <3>3 DEF inAlu
    <2>. QED BY <2>1, <2>2
  <1>. QED BY <1>5, <1>7, <1>8, <1>11, <1>12, <1>13, <1>14, <1>15 DEF Edge

LEMMA PlacedStep ==
  ASSUME TypeOK, Ordered, Running, NEW ins \in Presented, NEW stall \in BOOLEAN,
         NEW srcrdy \in SUBSET waiting, NEW fail \in BOOLEAN, NEW fin \in Fins,
         Clock(ins, stall, srcrdy, fail, fin), TypeOK'
  PROVE  Placed'
  <1> DEFINE C == create_en(ins, stall)
             ended == ending(fail, fin)
             G == issue_en(srcrdy)
  <1>1. /\ vld' = (vld \ Gone(fail, fin)) \cup C
        /\ Gone(fail, fin) \subseteq ended
        /\ waiting' = ((waiting \ G) \cup (IF fail THEN inRf ELSE {})) \cup C
        /\ inRf' = G
        /\ rf'.vld => \E m \in waiting : G = {m} /\ rf'.inst = data[m]
        /\ \A e \in vld \ Gone(fail, fin) : e \notin C /\ data'[e] = data[e]
        /\ lsu' = (lsu \ fin) \cup (IF launched("lsu", fail) THEN inRf ELSE {})
        /\ inAlu' \subseteq (inAlu \ ended) \cup (IF launched("cal", fail) THEN inRf ELSE {})
    BY EdgeOf DEF Edge
  <1>2. Packet(ins) /\ Inputs(ins, stall, fail, fin) /\ Placed
    BY PresentedPackets DEF Clock, Ordered
  <1>3. C \subseteq Entry \ vld /\ C \subseteq create_dp_en(ins)
    BY <1>2, Creation
  <1>4. /\ ex_pop(fin) \subseteq Ended(fin)
        /\ ended = (IF rf_pop_vld(fail) THEN rf.entry ELSE {}) \cup Ended(fin)
        /\ Ended(fin) \subseteq lsu \cup inAlu
    BY <1>2, PopsEnded
  <1>5. G \subseteq waiting /\ waiting = vld \ frz /\ frz \subseteq vld
    BY DEF issue_en, entry_ready, waiting, TypeOK
  <1>6. Mild'
    BY <1>2 DEF Mild, Placed
  <1>7. G \cap Gone(fail, fin) = {} /\ \A e \in G : data'[e] = data[e]
    BY <1>1, <1>2, <1>4, <1>5 DEF Placed, Leftover, rf_pop_vld, launched, inRf
  <1>8. rf'.vld => \E e \in Entry : rf'.entry = {e} /\ rf'.inst = data'[e]
    <2>1. rf'.vld => rf'.entry = G
      BY <1>1 DEF inRf
    <2>. QED BY <1>1, <1>5, <1>7, <2>1 DEF TypeOK
  <1>9. /\ alu_iq' = {} \/ \E e \in Entry : alu_iq' = {e}
        /\ alu_cnt' > 0 => alu_iq' # {}
    <2>1. CASE rf.vld /\ rf.inst.kind = "cal"
      BY <1>2, <2>1 DEF Clock, Arith, Placed
    <2>2. CASE ~(rf.vld /\ rf.inst.kind = "cal")
      <3>1. alu_iq' = alu_iq /\ alu_cnt' = IF alu_cnt = 0 THEN 0 ELSE alu_cnt - 1
        BY <2>2 DEF Clock, Arith
      <3>2. alu_cnt' > 0 => alu_cnt > 0
        BY <3>1 DEF TypeOK
      <3>. QED BY <1>2, <3>1, <3>2 DEF Placed
    <2>. QED BY <2>1, <2>2
  <1>10. waiting' = vld' \ frz' /\ frz' \subseteq vld'
    BY DEF waiting, TypeOK
  <1>11. inRf' \subseteq frz' /\ inRf' \cap lsu' = {} /\ inRf' \cap inAlu' = {}
    <2>1. G \cap (lsu \cup inAlu \cup inRf) = {}
      BY <1>2, <1>5 DEF Placed, Leftover
    <2>2. G \cap waiting' = {} /\ G \subseteq vld'
      BY <1>1, <1>3, <1>5, <1>7, <2>1
    <2>. QED BY <1>1, <1>10, <2>1, <2>2
  <1>12. /\ launched("lsu", fail) => ~fail /\ ~launched("cal", fail) /\ ~rf_pop_vld(fail)
         /\ launched("cal", fail) => ~fail /\ ~launched("lsu", fail) /\ ~rf_pop_vld(fail)
         /\ rf_pop_vld(fail) => rf.vld /\ inRf = rf.entry
    BY DEF launched, rf_pop_vld, inRf
  <1>13. lsu' \subseteq frz' /\ inAlu' \subseteq frz' /\ lsu' \cap inAlu' = {}
    <2>1. CASE inAlu \subseteq frz
      <3>1. lsu' \subseteq lsu \cup inRf /\ inAlu' \subseteq inAlu \cup inRf
            /\ (lsu \cup inAlu \cup inRf) \cap waiting = {}
            /\ (lsu \cup inAlu \cup inRf) \subseteq vld
        BY <1>1, <1>2, <1>5, <2>1 DEF Placed
      <3>2. lsu' \cap ended = {}
        <4>1. lsu \cap inRf = {} /\ lsu \cap inAlu = {} /\ inRf \cap inAlu = {}
          BY <1>2 DEF Placed
        <4>2. Ended(fin) \subseteq fin \cup inAlu
          BY <1>2 DEF Ended, inAlu, alu_finish, Placed
        <4>. QED BY <1>1, <1>4, <1>12, <4>1, <4>2
      <3>3. inAlu' \cap ended = {}
        <4>1. inRf \cap (lsu \cup inAlu) = {}
          BY <1>2 DEF Placed
        <4>. QED BY <1>1, <1>4, <1>12, <4>1
      <3>4. (lsu' \cup inAlu') \subseteq vld \ Gone(fail, fin)
        BY <1>1, <3>1, <3>2, <3>3
      <3>5. (lsu' \cup inAlu') \cap waiting' = {}
        <4>1. fail => (lsu' \cup inAlu') \cap inRf = {}
          BY <1>1, <1>2, <1>12 DEF Placed
        <4>. QED BY <1>1, <1>3, <3>1, <4>1
      <3>6. lsu' \cap inAlu' = {}
        BY <1>1, <1>2, <1>12 DEF Placed
      <3>. QED BY <1>1, <1>10, <3>4, <3>5, <3>6
    <2>2. CASE Leftover
      <3>1. vld = {} /\ inRf = {} /\ lsu = {} /\ ~rf.vld
        BY <1>2, <1>5, <2>2 DEF Placed, Leftover, inRf
      <3>2. lsu' = {}
        BY <1>1, <3>1
      <3>3. alu_cnt' = 0
        BY <2>2, <3>1 DEF Leftover, Clock, Arith
      <3>4. inAlu' = {}
        BY <3>3 DEF inAlu
      <3>. QED BY <3>2, <3>4
    <2>. QED BY <1>2, <2>1, <2>2 DEF Placed
  <1>14. \A e \in vld' : data'[e].kind = "cfg" => e \notin frz' \/ e \in inRf'
    <2>1. ASSUME NEW e \in vld', data'[e].kind = "cfg", e \in frz' PROVE e \in inRf'
      <3>1. e \notin waiting' /\ e \in vld \ Gone(fail, fin) /\ data[e].kind = "cfg"
        BY <1>1, <1>10, <2>1
      <3>2. e \in waiting => e \in G
        BY <1>1, <3>1
      <3>3. e \in waiting \/ e \in inRf
        BY <1>2, <1>5, <3>1 DEF Placed
      <3>4. e \in inRf => rf.vld /\ rf.entry = {e} /\ rf.inst = data[e]
        BY <1>2 DEF Placed, inRf
      <3>5. e \notin inRf
        BY <1>1, <3>1, <3>4 DEF rf_pop_vld, launched, inRf, Gone
      <3>. QED BY <1>1, <3>2, <3>3, <3>5
    <2>. QED BY <2>1
  <1>. QED BY <1>6, <1>8, <1>9, <1>11, <1>13, <1>14 DEF Placed

\* The unfinished entries after an edge: those that do not end, and the new ones.
LEMMA LiveAfter ==
  ASSUME TypeOK, Ordered, Running, NEW ins \in Presented, NEW stall \in BOOLEAN,
         NEW srcrdy \in SUBSET waiting, NEW fail \in BOOLEAN, NEW fin \in Fins,
         Clock(ins, stall, srcrdy, fail, fin), TypeOK', Placed'
  PROVE  /\ live' \subseteq (live \ ending(fail, fin)) \cup create_en(ins, stall)
         /\ live \subseteq vld
  <1> DEFINE C == create_en(ins, stall)
             ended == ending(fail, fin)
  <1>1. live' = (waiting' \cup inRf' \cup lsu' \cup inAlu') \cap vld'
    BY DEF live, waiting, inRf, inAlu
  <1>2. live = (waiting \cup inRf \cup lsu \cup inAlu) \cap vld /\ live \subseteq vld
        /\ (waiting \cup inRf \cup lsu) \subseteq vld /\ (inAlu \subseteq vld \/ Leftover)
    BY LiveIs DEF Ordered, Placed, waiting, TypeOK
  <1>3. /\ waiting' = ((waiting \ issue_en(srcrdy)) \cup (IF fail THEN inRf ELSE {})) \cup C
        /\ inRf' = issue_en(srcrdy)
        /\ lsu' = (lsu \ fin) \cup (IF launched("lsu", fail) THEN inRf ELSE {})
        /\ inAlu' \subseteq (inAlu \ ended) \cup (IF launched("cal", fail) THEN inRf ELSE {})
    BY EdgeOf DEF Edge
  <1>4. /\ ended = (IF rf_pop_vld(fail) THEN rf.entry ELSE {}) \cup Ended(fin)
        /\ Ended(fin) \subseteq fin \cup inAlu /\ fin \subseteq lsu
    <2>1. ended = (IF rf_pop_vld(fail) THEN rf.entry ELSE {}) \cup Ended(fin)
      BY PopsEnded DEF Ordered
    <2>2. alu_finish => alu_cnt > 0
      BY DEF alu_finish
    <2>. QED BY <2>1, <2>2 DEF Ended, inAlu, Fins
  <1>5. issue_en(srcrdy) \subseteq waiting
    BY DEF issue_en, entry_ready, waiting
  <1>6. /\ waiting \cap (inRf \cup lsu \cup inAlu) = {}
        /\ inRf \cap lsu = {} /\ inRf \cap inAlu = {} /\ lsu \cap inAlu = {}
    BY DEF Ordered, Placed, Leftover, waiting
  <1>7. /\ launched("lsu", fail) \/ launched("cal", fail) \/ fail => ~rf_pop_vld(fail)
        /\ rf_pop_vld(fail) => inRf = rf.entry
    BY DEF launched, rf_pop_vld, inRf
  <1>8. Leftover => inAlu \ ended = {}
    BY <1>4 DEF Leftover, Ended, alu_finish, inAlu
  <1>. QED BY <1>1, <1>2, <1>3, <1>4, <1>5, <1>6, <1>7, <1>8

LEMMA AgeStep ==
  ASSUME TypeOK, Ordered, Running, NEW ins \in Presented, NEW stall \in BOOLEAN,
         NEW srcrdy \in SUBSET waiting, NEW fail \in BOOLEAN, NEW fin \in Fins,
         Clock(ins, stall, srcrdy, fail, fin), TypeOK', Placed'
  PROVE  AgeOrder'
  <1> DEFINE C == create_en(ins, stall)
             ended == ending(fail, fin)
             S == live \ ended
  <1>1. /\ vld' = (vld \ Gone(fail, fin)) \cup C
        /\ Gone(fail, fin) \subseteq ended
        /\ \A e \in C : agevec'[e] = CreateAge(ins, fail, fin, e)
        /\ \A e \in vld \ Gone(fail, fin) : agevec'[e] = agevec[e] \ Gone(fail, fin)
    <2>1. Edge(ins, stall, srcrdy, fail, fin)
      BY EdgeOf
    <2>. QED BY <2>1 DEF Edge
  <1>2. live' \subseteq S \cup C /\ live' \subseteq vld' /\ S \subseteq vld \ Gone(fail, fin)
    BY <1>1, LiveAfter DEF live
  <1>3. /\ C \subseteq Entry \ vld
        /\ \A c \in C : IF from1(ins, c) THEN /\ c \notin create0_in
                                              /\ create0_in \subseteq C
                                         ELSE c \in create0_in
        /\ \A c, d \in C : (from1(ins, c) <=> from1(ins, d)) => c = d
    BY PresentedPackets, Creation DEF Clock, Ordered
  <1>4. \A e, f \in live : e # f => (e \in agevec[f] <=> f \notin agevec[e])
    BY DEF Ordered, AgeOrder
  <1>5. \A e \in live : agevec[e] \subseteq vld \ {e}
    BY DEF Ordered, AgeOrder
  <1>6. \A c \in C : agevec'[c] = ((vld \ ended) \cup (IF from1(ins, c) THEN create0_in ELSE {})) \ {c}
    BY <1>1 DEF CreateAge
  <1>7. \A e \in S : e \notin C /\ e \in live /\ agevec'[e] = agevec[e] \ Gone(fail, fin)
    BY <1>1, <1>2, <1>3
  <1>8. \A e \in live' : agevec'[e] \subseteq vld' \ {e}
    <2>1. \A c \in C : agevec'[c] \subseteq vld' \ {c}
      BY <1>1, <1>3, <1>6
    <2>2. \A e \in S : agevec'[e] \subseteq vld' \ {e}
      BY <1>1, <1>5, <1>7
    <2>. QED BY <1>2, <2>1, <2>2
  <1>9. \A e, f \in live' : e # f => (e \in agevec'[f] <=> f \notin agevec'[e])
    <2>1. \A e, f \in S : e # f => (e \in agevec'[f] <=> f \notin agevec'[e])
      BY <1>2, <1>4, <1>7
    <2>2. \A e \in S, c \in C : e \in agevec'[c] /\ c \notin agevec'[e]
      BY <1>2, <1>3, <1>5, <1>6, <1>7 DEF live
    <2>3. \A c, d \in C : c # d => (c \in agevec'[d] <=> d \notin agevec'[c])
      BY <1>3, <1>6
    <2>. QED BY <1>2, <2>1, <2>2, <2>3
  <1>10. \A e, f, g \in live' : e \in agevec'[f] /\ f \in agevec'[g] => e \in agevec'[g]
    <2>1. \A e, f, g \in S : e \in agevec'[f] /\ f \in agevec'[g] => e \in agevec'[g]
      BY <1>2, <1>7 DEF Ordered, AgeOrder
    <2>2. \A f \in S, c \in C : c \notin agevec'[f]
      BY <1>3, <1>5, <1>7
    <2>3. \A e \in S, c \in C : e \in agevec'[c]
      BY <1>2, <1>3, <1>6 DEF live
    <2>4. \A c, d, b \in C : c \in agevec'[d] /\ d \in agevec'[b] => c \in agevec'[b]
      BY <1>3, <1>6
    <2>. QED BY <1>2, <2>1, <2>2, <2>3, <2>4
  <1>. QED BY <1>8, <1>9, <1>10 DEF AgeOrder

\* An edge without a flush keeps the order.
LEMMA RunningStep ==
  ASSUME TypeOK, TypeOK', Ordered, Running, NEW ins \in Presented, NEW stall \in BOOLEAN,
         NEW srcrdy \in SUBSET waiting, NEW fail \in BOOLEAN, NEW fin \in Fins,
         Clock(ins, stall, srcrdy, fail, fin)
  PROVE  Ordered'
  <1>1. Placed'
    BY PlacedStep
  <1>. QED BY <1>1, AgeStep DEF Ordered

\* A cycle of the flush empties the queue, the RF stage and dispatch, or finds
\* them empty; the last one empties the LSU as well.
LEMMA FlushStep ==
  ASSUME TypeOK, TypeOK', FlushInv, flush # "idle", NEW ins \in Presented, NEW stall \in BOOLEAN,
         NEW srcrdy \in SUBSET waiting, NEW fail \in BOOLEAN, NEW fin \in Fins,
         Clock(ins, stall, srcrdy, fail, fin)
  PROVE  /\ vld' = {} /\ ~rf'.vld /\ dis' = <<>>
         /\ alu_iq' = {} \/ \E e \in Entry : alu_iq' = {e}
         /\ alu_cnt' > 0 => alu_iq' # {}
         /\ flush' = "idle" => lsu' = {}
         /\ flush_be => cfg_ex1' = {} /\ epoch' = x_epoch'
  <1>1. Mild /\ (Placed \/ Flushed)
    BY DEF FlushInv, Ordered
  <1>2. vld' = {} /\ ~rf'.vld /\ dis' = <<>>
    <2>1. CASE flush_fe
      <3>1. vld' = {} /\ dis' = <<>>
        BY <2>1 DEF Clock, Vld
      <3>2. rf' = [vld |-> FALSE, entry |-> {}, inst |-> Reset]
        BY <2>1 DEF Clock, Rf
      <3>. QED BY <3>1, <3>2
    <2>2. CASE ~flush_fe
      <3>1. flush \in {"wait", "be"}
        BY <2>2 DEF flush_fe, TypeOK
      <3>2. vld = {} /\ dis = <<>>
        BY <3>1 DEF FlushInv, Flushed
      <3>3. ins = Tagged(<<>>)
        BY <3>1, <3>2 DEF Presented
      <3>4. ins = <<>>
        BY <3>3 DEF Tagged
      <3>5. ~stall /\ create_en(ins, stall) = {}
        BY <3>4 DEF Clock, Inputs, create_en, creates
      <3>6. vld' = {} /\ dis' = <<>>
        BY <2>2, <3>2, <3>5 DEF Clock, Vld
      <3>7. ~xx_issue_en(srcrdy)
        BY <3>2 DEF xx_issue_en, entry_ready
      <3>8. rf' = [vld |-> FALSE, entry |-> {}, inst |-> Reset]
        BY <3>7 DEF Clock, Rf
      <3>. QED BY <3>6, <3>8
    <2>. QED BY <2>1, <2>2
  <1>3. /\ alu_iq' = {} \/ \E e \in Entry : alu_iq' = {e}
        /\ alu_cnt' > 0 => alu_iq' # {}
    <2>1. CASE rf.vld /\ rf.inst.kind = "cal"
      <3>1. \E e \in Entry : rf.entry = {e}
        BY <1>1, <2>1 DEF Placed, Flushed
      <3>2. alu_iq' = rf.entry
        BY <2>1 DEF Clock, Arith
      <3>. QED BY <3>1, <3>2
    <2>2. CASE ~(rf.vld /\ rf.inst.kind = "cal")
      <3>1. alu_iq' = alu_iq /\ alu_cnt' = IF alu_cnt = 0 THEN 0 ELSE alu_cnt - 1
        BY <2>2 DEF Clock, Arith
      <3>2. alu_cnt' > 0 => alu_cnt > 0
        BY <3>1 DEF TypeOK
      <3>. QED BY <1>1, <3>1, <3>2 DEF Placed, Flushed
    <2>. QED BY <2>1, <2>2
  <1>4. flush' = "idle" => lsu' = {}
    <2> SUFFICES ASSUME flush' = "idle" PROVE lsu' = {}
      OBVIOUS
    <2>1. flush_be
      BY DEF FlushInv, Clock, FlushNext, TypeOK, flush_be
    <2>. QED BY <2>1 DEF Clock
  <1>5. flush_be => cfg_ex1' = {} /\ epoch' = x_epoch'
    BY DEF Clock, Configure
  <1>. QED BY <1>2, <1>3, <1>4, <1>5

LEMMA FlushInvStep == TypeOK /\ TypeOK' /\ FlushInv /\ [Next]_vars => FlushInv'
  <1> SUFFICES ASSUME TypeOK, TypeOK', FlushInv, [Next]_vars PROVE FlushInv'
    OBVIOUS
  <1>1. CASE Next
    <2>1. PICK ins \in Presented, stall \in BOOLEAN, srcrdy \in SUBSET waiting,
               fail \in BOOLEAN, fin \in Fins : Clock(ins, stall, srcrdy, fail, fin)
      BY <1>1 DEF Next, Fins, waiting
    <2>2. Mild /\ Mild'
      BY DEF FlushInv, Mild
    <2>3. "flush" \in Allowed => alu_cnt' <= 1
      <3> SUFFICES ASSUME "flush" \in Allowed PROVE alu_cnt' <= 1
        OBVIOUS
      <3>1. Rows \subseteq {0, 1} /\ alu_cnt <= 1
        BY <2>2 DEF Mild, FlushInv
      <3>2. alu_cnt' \in Rows \/ alu_cnt' = IF alu_cnt = 0 THEN 0 ELSE alu_cnt - 1
        BY <2>1 DEF Clock, Arith
      <3>. QED BY <3>1, <3>2 DEF TypeOK
    <2>4. /\ "flush" \notin Allowed => flush' = "idle"
          /\ flush = "idle" => flush' \in {"idle", "fe", "fe_be"}
      BY <2>1 DEF Clock, FlushNext
    <2>5. CASE flush = "idle"
      <3>1. Ordered /\ Running
        BY <2>5 DEF FlushInv, Flushed, Running, flush_fe, flush_be
      <3>2. Ordered'
        BY <2>1, <3>1, RunningStep
      <3>. QED BY <2>2, <2>3, <2>4, <2>5, <3>2 DEF FlushInv
    <2>6. CASE flush # "idle"
      <3>1. /\ vld' = {} /\ ~rf'.vld /\ dis' = <<>>
            /\ alu_iq' = {} \/ \E e \in Entry : alu_iq' = {e}
            /\ alu_cnt' > 0 => alu_iq' # {}
            /\ flush' = "idle" => lsu' = {}
        BY <2>1, <2>6, FlushStep
      <3>2. "flush" \in Allowed
        BY <2>6 DEF FlushInv
      <3>3. flush' # "idle" => Flushed'
        BY <2>2, <3>1 DEF Flushed
      <3>4. ASSUME flush' = "idle" PROVE Ordered'
        <4>1. inRf' = {} /\ lsu' = {} /\ live' = {}
          BY <3>1, <3>4 DEF inRf, live
        <4>2. alu_cnt' > 0 => Leftover'
          BY <2>3, <3>1, <3>2 DEF Leftover, TypeOK
        <4>3. inAlu' \subseteq frz' \/ Leftover'
          BY <4>2 DEF inAlu
        <4>4. Placed'
          BY <2>2, <3>1, <4>1, <4>3 DEF Placed
        <4>5. AgeOrder'
          BY <4>1 DEF AgeOrder
        <4>. QED BY <4>4, <4>5 DEF Ordered
      <3>. QED BY <2>2, <2>3, <2>4, <3>3, <3>4 DEF FlushInv
    <2>. QED BY <2>5, <2>6
  <1>2. CASE UNCHANGED vars
    <2>1. Ordered => Ordered'
      BY <1>2 DEF vars, Ordered, Placed, Mild, Leftover, AgeOrder, live, inRf, inAlu
    <2>2. Flushed => Flushed'
      BY <1>2 DEF vars, Flushed, Mild
    <2>. QED BY <1>2, <2>1, <2>2 DEF vars, FlushInv, Mild
  <1>. QED BY <1>1, <1>2

LEMMA AlwaysFlushInv == Mild /\ Spec => []FlushInv
  <1>1. Mild /\ Init => FlushInv
    BY DEF Init, FlushInv, Ordered, Placed, AgeOrder, live, inRf, inAlu
  <1>. QED BY <1>1, FlushInvStep, TypeCorrect, PTL DEF Spec

\* The age vectors of the unfinished instructions are a strict total order, for
\* every number of entries and across flushes.
THEOREM AgeOrderCorrect == Mild /\ Spec => []AgeOrder
  <1>1. FlushInv => AgeOrder
    BY DEF FlushInv, Ordered, Flushed, AgeOrder, live
  <1>. QED BY <1>1, AlwaysFlushInv, PTL

\* A cycle that makes the RF stage valid grants exactly one entry.
THEOREM OneIssueCorrect == Mild /\ Spec => []OneIssue
  <1>1. TypeOK /\ FlushInv => OneIssue
    <2> SUFFICES ASSUME TypeOK, FlushInv, NEW r \in SUBSET waiting, xx_issue_en(r)
                 PROVE  Cardinality(issue_en(r)) = 1
      BY DEF OneIssue, waiting
    <2>1. Ordered
      BY DEF FlushInv, Flushed, xx_issue_en, entry_ready
    <2>2. PICK m \in waiting : issue_en(r) = {m}
      BY <2>1, GrantsOne
    <2>3. Cardinality({m}) = 1
      BY FS_Singleton
    <2>. QED BY <2>2, <2>3
  <1>. QED BY <1>1, AlwaysFlushInv, TypeCorrect, PTL

\* No instruction is issued twice, and none has taken the entry of one under way.
THEOREM IssuedOnceCorrect == Mild /\ Spec => []IssuedOnce
  <1>1. TypeOK /\ FlushInv => IssuedOnce
    <2> SUFFICES ASSUME TypeOK, FlushInv, flush = "idle" PROVE IssuedOnce
      BY DEF IssuedOnce
    <2>1. Placed
      BY DEF FlushInv, Flushed, Ordered
    <2>. QED BY <2>1 DEF TypeOK, Placed, Leftover, IssuedOnce, inRf, inAlu
  <1>. QED BY <1>1, AlwaysFlushInv, TypeCorrect, PTL

-----------------------------------------------------------------------------
(* Without a flush, what the arithmetic unit works on is in the queue. *)

Units == Placed /\ Calm /\ flush = "idle" /\ inAlu \subseteq frz
Order == Units /\ AgeOrder

LEMMA OrderIs == Order => Ordered /\ Running
  BY DEF Order, Units, Ordered, Running, flush_fe, flush_be

LEMMA AlwaysOrder == Calm /\ Spec => []Order
  <1>1. Calm => Mild
    BY DEF Calm, Mild
  <1>2. Calm /\ FlushInv => Order
    BY DEF Calm, FlushInv, Ordered, Placed, Flushed, Leftover, Order, Units
  <1>3. Calm /\ [Next]_vars => Calm'
    BY DEF Calm
  <1>. QED BY <1>1, <1>2, <1>3, AlwaysFlushInv, PTL DEF Spec

-----------------------------------------------------------------------------
(* The counter. *)

Single(S) == S = {} \/ \E x : S = {x}

LEMMA SingleCard ==
  ASSUME NEW S, Single(S)
  PROVE  Cardinality(S) = IF S = {} THEN 0 ELSE 1
  <1>1. CASE S = {}
    BY <1>1, FS_EmptySet
  <1>2. ASSUME NEW x, S = {x} PROVE Cardinality(S) = 1 /\ S # {}
    <2>1. Cardinality({x}) = 1
      BY FS_Singleton
    <2>. QED BY <1>2, <2>1
  <1>. QED BY <1>1, <1>2 DEF Single

LEMMA MinusSingle ==
  ASSUME NEW S, IsFiniteSet(S), NEW T \in SUBSET S, Single(T)
  PROVE  IsFiniteSet(S \ T) /\ Cardinality(S \ T) = Cardinality(S) - Cardinality(T)
  <1>0. Cardinality(S) \in Nat
    BY FS_CardinalityType
  <1>1. CASE T = {}
    <2>1. S \ T = S /\ Cardinality(T) = 0
      BY <1>1, FS_EmptySet
    <2>2. Cardinality(S \ T) = Cardinality(S)
      BY <2>1
    <2>3. IsFiniteSet(S \ T)
      BY <2>1
    <2>. QED BY <1>0, <2>1, <2>2, <2>3
  <1>2. ASSUME NEW x, T = {x}
        PROVE  IsFiniteSet(S \ T) /\ Cardinality(S \ T) = Cardinality(S) - Cardinality(T)
    <2>1. x \in S
      BY <1>2
    <2>2. IsFiniteSet(S \ {x}) /\ Cardinality(S \ {x}) = Cardinality(S) - 1
      BY <2>1, FS_RemoveElement
    <2>3. Cardinality(T) = 1
      BY <1>2, SingleCard DEF Single
    <2>4. S \ T = S \ {x}
      BY <1>2
    <2>5. IsFiniteSet(S \ T) /\ Cardinality(S \ T) = Cardinality(S \ {x})
      BY <2>2, <2>4
    <2>. QED BY <2>2, <2>3, <2>5
  <1>. QED BY <1>1, <1>2 DEF Single

LEMMA FiniteParts == ASSUME NEW S \in SUBSET Entry
                     PROVE  IsFiniteSet(S) /\ Cardinality(S) \in Nat
  <1>1. IsFiniteSet(Entry)
    BY MiqAssumption, FS_Interval DEF Entry
  <1>2. IsFiniteSet(S)
    BY <1>1, FS_Subset
  <1>. QED BY <1>2, FS_CardinalityType

\* The instructions that end in an edge are unfinished ones, and the counter
\* takes away one for each of them.
LEMMA EndingCounted ==
  ASSUME TypeOK, Order, NEW fail \in BOOLEAN, NEW fin \in Fins
  PROVE  /\ ending(fail, fin) \subseteq live
         /\ Cardinality(live \ ending(fail, fin)) =
              Cardinality(live) - (IF rf_pop_vld(fail) THEN 1 ELSE 0)
              - Cardinality(fin) - (IF alu_finish THEN 1 ELSE 0)
         /\ Cardinality(fin) \in 0 .. 1
  <1> DEFINE A == IF rf_pop_vld(fail) THEN rf.entry ELSE {}
             D == IF alu_finish THEN alu_iq ELSE {}
             L1 == live \ A
             L2 == L1 \ fin
             L3 == L2 \ D
  <1>1. Placed /\ inAlu \subseteq frz /\ live \subseteq Entry
    BY DEF Order, Units, live, TypeOK
  <1>2. /\ ending(fail, fin) = A \cup (fin \cup D)
        /\ A \subseteq inRf /\ fin \subseteq lsu /\ D \subseteq inAlu
    <2>1. ending(fail, fin) = A \cup Ended(fin)
      BY <1>1, PopsEnded
    <2>. QED BY <2>1 DEF Ended, inRf, inAlu, rf_pop_vld, launched, alu_finish, Fins
  <1>3. inRf \cup lsu \cup inAlu \subseteq live
    BY <1>1, LiveIs DEF Placed, TypeOK
  <1>4. inRf \cap lsu = {} /\ inRf \cap inAlu = {} /\ lsu \cap inAlu = {}
    BY <1>1 DEF Placed
  <1>5. Single(A) /\ Single(fin) /\ Single(D)
    BY <1>1 DEF Single, Placed, Fins, rf_pop_vld, launched
  <1>6. A \subseteq live /\ fin \subseteq L1 /\ D \subseteq L2
    BY <1>2, <1>3, <1>4
  <1>7. live \ ending(fail, fin) = L3
    BY <1>2
  <1>8. /\ Cardinality(A) = IF rf_pop_vld(fail) THEN 1 ELSE 0
        /\ Cardinality(D) = IF alu_finish THEN 1 ELSE 0
        /\ Cardinality(fin) \in 0 .. 1
    <2>1. rf_pop_vld(fail) => rf.entry # {}
      BY <1>1 DEF Placed, rf_pop_vld, launched
    <2>2. alu_finish => alu_iq # {}
      BY <1>1 DEF Placed, alu_finish
    <2>3. /\ Cardinality(A) = IF A = {} THEN 0 ELSE 1
          /\ Cardinality(D) = IF D = {} THEN 0 ELSE 1
          /\ Cardinality(fin) = IF fin = {} THEN 0 ELSE 1
      <3> HIDE DEF A, D
      <3>. QED BY <1>5, SingleCard
    <2>. QED BY <2>1, <2>2, <2>3
  <1>9. /\ Cardinality(L1) = Cardinality(live) - Cardinality(A)
        /\ Cardinality(L2) = Cardinality(L1) - Cardinality(fin)
        /\ Cardinality(L3) = Cardinality(L2) - Cardinality(D)
    <2>0. IsFiniteSet(live) /\ A \in SUBSET live
      BY <1>1, <1>6, FiniteParts
    <2>1. IsFiniteSet(L1) /\ Cardinality(L1) = Cardinality(live) - Cardinality(A)
      <3> HIDE DEF A
      <3>. QED BY <2>0, <1>5, MinusSingle
    <2>2. IsFiniteSet(L2) /\ Cardinality(L2) = Cardinality(L1) - Cardinality(fin)
      <3>1. fin \in SUBSET L1
        BY <1>6
      <3> HIDE DEF L1
      <3>. QED BY <2>1, <3>1, <1>5, MinusSingle
    <2>3. IsFiniteSet(L3) /\ Cardinality(L3) = Cardinality(L2) - Cardinality(D)
      <3>1. D \in SUBSET L2
        BY <1>6
      <3> HIDE DEF L2, D
      <3>. QED BY <2>2, <3>1, <1>5, MinusSingle
    <2>. QED BY <2>1, <2>2, <2>3
  <1>10. Cardinality(live \ ending(fail, fin)) = Cardinality(L3)
    BY <1>7
  <1>11. Cardinality(live) \in Nat
    BY <1>1, FiniteParts
  <1>12. ending(fail, fin) \subseteq live
    BY <1>2, <1>3
  <1> HIDE DEF A, D, L1, L2, L3
  <1>. QED BY <1>8, <1>9, <1>10, <1>11, <1>12

\* At most as many entries are created as instructions.
LEMMA CreationsCounted ==
  ASSUME NEW ins, Packet(ins), NEW stall \in BOOLEAN
  PROVE  /\ creates(ins, stall) \in 0 .. 2
         /\ Cardinality(create_en(ins, stall)) <= creates(ins, stall)
  <1>1. creates(ins, stall) \in 0 .. 2
    BY DEF creates, Packet
  <1>2. Single(create0_in) /\ Single(create1_in)
    <2>1. \A c, d \in create0_in : c = d
      BY MiqAssumption DEF create0_in, Entry
    <2>2. \A c, d \in create1_in : c = d
      BY MiqAssumption DEF create1_in, Entry
    <2>. QED BY <2>1, <2>2 DEF Single
  <1>3. /\ Cardinality(create0_in) \in 0 .. 1 /\ Cardinality(create1_in) \in 0 .. 1
        /\ IsFiniteSet(create0_in) /\ IsFiniteSet(create1_in)
    <2>1. create0_in \in SUBSET Entry /\ create1_in \in SUBSET Entry
      BY DEF create0_in, create1_in
    <2>. QED BY <1>2, <2>1, SingleCard, FiniteParts
  <1>4. CASE creates(ins, stall) = 0
    <2>1. create_en(ins, stall) = {}
      BY <1>4 DEF create_en
    <2>. QED BY <1>4, <2>1, FS_EmptySet
  <1>5. CASE creates(ins, stall) = 1
    <2>1. create_en(ins, stall) = create0_in
      BY <1>5 DEF create_en
    <2>. QED BY <1>3, <1>5, <2>1
  <1>6. CASE creates(ins, stall) = 2
    <2>1. create_en(ins, stall) = create0_in \cup create1_in
      BY <1>6 DEF create_en
    <2>2. /\ Cardinality(create0_in \cup create1_in) =
               Cardinality(create0_in) + Cardinality(create1_in)
               - Cardinality(create0_in \cap create1_in)
          /\ Cardinality(create0_in \cap create1_in) \in Nat
      <3>1. create0_in \cap create1_in \in SUBSET Entry
        BY DEF create0_in
      <3>. QED BY <1>3, <3>1, FiniteParts, FS_Union
    <2>3. Cardinality(create_en(ins, stall)) = Cardinality(create0_in \cup create1_in)
      BY <2>1
    <2>. QED BY <1>3, <1>6, <2>2, <2>3
  <1>. QED BY <1>1, <1>4, <1>5, <1>6

LEMMA LiveCalm ==
  ASSUME TypeOK, TypeOK', Order, Order', NEW ins \in Presented, NEW stall \in BOOLEAN,
         NEW srcrdy \in SUBSET waiting, NEW fail \in BOOLEAN, NEW fin \in Fins,
         Clock(ins, stall, srcrdy, fail, fin)
  PROVE  live' \subseteq (live \ ending(fail, fin)) \cup create_en(ins, stall)
  <1>1. Ordered
    BY OrderIs
  <1>2. Running
    BY OrderIs
  <1>3. Placed'
    BY DEF Order, Units
  <1>. QED BY <1>1, <1>2, <1>3, LiveAfter

LEMMA CoversStep ==
  ASSUME TypeOK, TypeOK', Order, Order', CounterCovers, [Next]_vars
  PROVE  CounterCovers'
  <1>0. cnt \in Nat /\ CntMod \in Nat /\ N \in Nat /\ CntMod > N
        /\ Cardinality(live) \in Nat /\ cnt >= Cardinality(live) /\ cnt <= N
    <2>1. live \in SUBSET Entry
      BY DEF live, TypeOK
    <2>. QED BY <2>1, FiniteParts, MiqAssumption DEF TypeOK, CounterCovers
  <1>1. CASE Next
    <2>1. PICK ins \in Presented, stall \in BOOLEAN, srcrdy \in SUBSET waiting,
               fail \in BOOLEAN, fin \in Fins : Clock(ins, stall, srcrdy, fail, fin)
      BY <1>1 DEF Next, Fins, waiting
    <2> DEFINE S == live \ ending(fail, fin)
               C == create_en(ins, stall)
               X == cnt + creates(ins, stall) - (IF rf_pop_vld(fail) THEN 1 ELSE 0)
                    - Cardinality(fin) - (IF alu_finish THEN 1 ELSE 0)
    <2>2. Packet(ins) /\ Inputs(ins, stall, fail, fin)
      BY <2>1, PresentedPackets DEF Clock
    <2>3. /\ Cardinality(S) = Cardinality(live) - (IF rf_pop_vld(fail) THEN 1 ELSE 0)
                              - Cardinality(fin) - (IF alu_finish THEN 1 ELSE 0)
          /\ Cardinality(fin) \in 0 .. 1
      BY EndingCounted
    <2>4. creates(ins, stall) \in 0 .. 2 /\ Cardinality(C) <= creates(ins, stall)
      BY <2>2, CreationsCounted
    <2>5. live' \subseteq S \cup C
      BY <2>1, LiveCalm
    <2>6. S \in SUBSET Entry /\ C \in SUBSET Entry /\ S \cap C \in SUBSET Entry
      BY DEF live, TypeOK, create_en, create0_in, create1_in
    <2>7. /\ Cardinality(S \cup C) = Cardinality(S) + Cardinality(C) - Cardinality(S \cap C)
          /\ Cardinality(live') <= Cardinality(S \cup C)
          /\ Cardinality(S) \in Nat /\ Cardinality(C) \in Nat
          /\ Cardinality(S \cap C) \in Nat /\ Cardinality(live') \in Nat
      <3> HIDE DEF S, C
      <3>1. IsFiniteSet(S) /\ IsFiniteSet(C) /\ Cardinality(S) \in Nat
            /\ Cardinality(C) \in Nat /\ Cardinality(S \cap C) \in Nat
        BY <2>6, FiniteParts
      <3>2. IsFiniteSet(S \cup C)
            /\ Cardinality(S \cup C) = Cardinality(S) + Cardinality(C) - Cardinality(S \cap C)
        BY <3>1, FS_Union
      <3>3. IsFiniteSet(live') /\ Cardinality(live') <= Cardinality(S \cup C)
        BY <2>5, <3>2, FS_Subset
      <3>. QED BY <3>1, <3>2, <3>3, FS_CardinalityType
    <2>8. cnt + creates(ins, stall) <= N
      <3>1. creates(ins, stall) > 0 => cnt + creates(ins, stall) <= N
        BY <2>2 DEF Inputs, Order, Units, Calm
      <3>. QED BY <1>0, <2>4, <3>1
    <2>9. cnt' = X % CntMod
      BY <2>1 DEF Clock, Cnt, Order, Units, flush_fe, flush_be
    <2>10. X \in 0 .. N /\ X >= Cardinality(live')
      <3> HIDE DEF S, C
      <3>. QED BY <1>0, <2>3, <2>4, <2>7, <2>8
    <2>11. X % CntMod = X
      <3> HIDE DEF X
      <3>. QED BY <1>0, <2>10
    <2>. QED BY <2>9, <2>10, <2>11 DEF CounterCovers
  <1>2. CASE UNCHANGED vars
    <2>1. live' = live /\ cnt' = cnt
      BY <1>2 DEF vars, live
    <2>. QED BY <2>1 DEF CounterCovers
  <1>. QED BY <1>1, <1>2

\* The counter that is to stall dispatch never says less than the number of
\* unfinished instructions and never passes the number of entries.
THEOREM CounterCoversCorrect == Calm /\ Spec => []CounterCovers
  <1>1. Init => CounterCovers
    <2> SUFFICES ASSUME Init PROVE CounterCovers
      OBVIOUS
    <2>1. live = {}
      BY DEF Init, live
    <2>2. Cardinality({}) = 0
      BY FS_EmptySet
    <2>3. Cardinality(live) = 0
      BY <2>1, <2>2
    <2>. QED BY <2>3, MiqAssumption DEF CounterCovers, Init
  <1>2. TypeOK /\ TypeOK' /\ Order /\ Order' /\ CounterCovers /\ [Next]_vars => CounterCovers'
    BY CoversStep
  <1>. QED BY <1>1, <1>2, AlwaysOrder, TypeCorrect, PTL DEF Spec

-----------------------------------------------------------------------------
(* The mcfg barrier, under Mild: an instruction reaches the RF stage when the*)
(* sizes are those of the last mcfg before it in program order, or later     *)
(* ones, and mcfg instructions reach it in program order.                    *)

\* The number of mcfg instructions before those that dispatch holds.
base == IF dis = <<>> THEN epoch ELSE dis[1].epoch - Bump(dis[1])
\* The sizes that the configuration unit holds or is about to hold.
written == cfg_ex1 \cup {x_epoch}
cfgEntries == vld \cap mcfg

\* The k-th mcfg has left the queue, or is one of the entries S.
Reached(k, S) == \/ \E c \in written : c >= k
                 \/ \E g \in S \cap cfgEntries : data[g].epoch = k

\* What a stall keeps in dispatch follows on what was dispatched before.
DispatchNext == dis # <<>> => Follows(dis, base, epoch)
\* The sizes are written in program order, by mcfg instructions dispatched before,
WrittenOrder ==
  /\ \A c \in cfg_ex1 : x_epoch < c
  /\ \A c, d \in cfg_ex1 : c = d
  /\ \A c \in written : c <= base
\* and those in the queue come later, in the order of their age.
QueuedAfter ==
  \A g \in cfgEntries : data[g].epoch <= base /\ \A c \in written : c < data[g].epoch
QueuedOrder ==
  \A g, h \in cfgEntries : g \in agevec[h] => data[g].epoch < data[h].epoch
\* No mcfg is lost: an instruction that needs one finds it among the older
\* entries or its sizes written.
LiveReach == \A e \in live : data[e].kind # "cfg" => Reached(data[e].epoch, agevec[e])
LastReach == Reached(base, vld)
IssuedReady ==
  \A e \in inRf : /\ agevec[e] \cap mcfg = {}
                  /\ data[e].kind # "cfg" => x_epoch >= data[e].epoch

Epochs == /\ DispatchNext /\ WrittenOrder /\ QueuedAfter /\ QueuedOrder
          /\ LiveReach /\ LastReach /\ IssuedReady

-----------------------------------------------------------------------------
(* Creation, with the entries that take the instructions. *)

LEMMA LeastOf ==
  ASSUME NEW T \in SUBSET Entry, T # {}
  PROVE  \E n \in T : \A m \in T : n <= m
  <1> DEFINE below(e) == {f \in T : f < e}
             B == {below(e) : e \in T}
             R == StrictSubsetOrdering(Entry)
  <1>1. IsFiniteSet(Entry) /\ Entry \subseteq Int
    BY MiqAssumption, FS_Interval DEF Entry
  <1>2. B \subseteq FiniteSubsetsOf(Entry) /\ B # {}
    <2>1. ASSUME NEW e \in T PROVE below(e) \in FiniteSubsetsOf(Entry)
      <3>1. below(e) \in SUBSET Entry
        OBVIOUS
      <3>2. IsFiniteSet(below(e))
        BY <3>1, <1>1, FS_Subset
      <3>. QED BY <3>1, <3>2 DEF FiniteSubsetsOf
    <2>. QED BY <2>1
  <1>3. \E x \in B : \A y \in B : <<y, x>> \notin R
    <2>1. IsWellFoundedOn(R, FiniteSubsetsOf(Entry))
      BY FS_StrictSubsetOrderingWellFounded
    <2> HIDE DEF B, R
    <2>. QED BY <1>2, <2>1, WFMin
  <1>4. PICK e \in T : \A f \in T : <<below(f), below(e)>> \notin R
    BY <1>3
  <1>5. ASSUME NEW f \in T, f < e PROVE FALSE
    <2>1. below(f) \subseteq below(e) /\ f \in below(e) /\ f \notin below(f)
      <3>1. \A g \in T : g \in Int
        BY <1>1
      <3>2. \A g \in T : g < f => g < e
        BY <1>5, <3>1
      <3>3. ~(f < f)
        BY <1>5, <3>1
      <3>. QED BY <1>5, <3>2, <3>3
    <2>2. below(f) \in SUBSET Entry /\ below(e) \in SUBSET Entry
      OBVIOUS
    <2>3. <<below(f), below(e)>> \in R
      BY <2>1, <2>2 DEF StrictSubsetOrdering
    <2>. QED BY <1>4, <2>3
  <1>. QED BY <1>1, <1>5

LEMMA SomeFree == Entry \ vld # {} \/ Cardinality(Entry \ vld) = 0
  <1>1. ASSUME Entry \ vld = {} PROVE Cardinality(Entry \ vld) = 0
    <2>1. Cardinality(Entry \ vld) = Cardinality({})
      BY <1>1, Zenon
    <2>2. Cardinality({}) = 0
      BY FS_EmptySet
    <2>. QED BY <2>1, <2>2
  <1>. QED BY <1>1, Zenon

LEMMA FreeOnes ==
  ASSUME vld \subseteq Entry, Entry \ vld # {}
  PROVE  create0_in # {} /\ create1_in # {}
  <1>0. N \in Nat /\ N > 0
    BY MiqAssumption
  <1>1. create0_in # {}
    <2>1. Entry \ vld \in SUBSET Entry
      BY <1>0 DEF Entry
    <2>2. \E n \in Entry \ vld : \A m \in Entry \ vld : n <= m
      BY <2>1, LeastOf
    <2>. QED BY <2>2 DEF create0_in
  <1>2. create1_in # {}
    <2> DEFINE T == {N - 1 - e : e \in Entry \ vld}
    <2>1. T \in SUBSET Entry /\ T # {}
      BY <1>0 DEF Entry
    <2>2. \E n \in T : \A m \in T : n <= m
      BY <2>1, LeastOf
    <2>3. PICK e \in Entry \ vld : \A f \in Entry \ vld : N - 1 - e <= N - 1 - f
      BY <2>2
    <2>4. \A f \in Entry \ vld : e >= f
      BY <1>0, <2>3 DEF Entry
    <2>. QED BY <2>4 DEF create1_in
  <1>. QED BY <1>1, <1>2

\* The instructions of a packet that does not stall all find their entry.
LEMMA Taken ==
  ASSUME TypeOK, Placed, NEW ins, Packet(ins), NEW stall \in BOOLEAN, ~stall,
         NEW fail \in BOOLEAN, NEW fin, Inputs(ins, stall, fail, fin)
  PROVE  /\ Len(ins) >= 1 => \E c \in create_en(ins, stall) : ~from1(ins, c)
         /\ Len(ins) = 2 => \E c \in create_en(ins, stall) : from1(ins, c)
  <1>1. /\ \A c \in create_en(ins, stall) :
              IF from1(ins, c) THEN /\ c \in create1_in /\ c \notin create0_in
                                    /\ create0_in \subseteq create_en(ins, stall)
                                    /\ Len(ins) = 2
                               ELSE c \in create0_in
    BY Creation
  <1>2. Len(ins) >= 1 => create0_in # {} /\ create0_in \subseteq create_en(ins, stall)
    <2> SUFFICES ASSUME Len(ins) >= 1
                 PROVE  create0_in # {} /\ create0_in \subseteq create_en(ins, stall)
      OBVIOUS
    <2>1. Len(ins) \in {1, 2} /\ creates(ins, stall) = Len(ins)
      BY DEF Packet, creates
    <2>2. Len(ins) <= Cardinality(Entry \ vld)
      BY <2>1 DEF Inputs, Placed, Mild
    <2>3. Entry \ vld # {}
      BY <2>1, <2>2, SomeFree
    <2>. QED BY <2>1, <2>3, FreeOnes DEF create_en, TypeOK
  <1>3. Len(ins) = 2 => /\ create1_in # {} /\ create1_in \subseteq create_en(ins, stall)
                        /\ create0_in \cap create1_in = {}
    <2> SUFFICES ASSUME Len(ins) = 2
                 PROVE  /\ create1_in # {} /\ create1_in \subseteq create_en(ins, stall)
                        /\ create0_in \cap create1_in = {}
      OBVIOUS
    <2>1. creates(ins, stall) = 2
      BY DEF creates
    <2>2. 2 <= Cardinality(Entry \ vld)
      BY <2>1 DEF Inputs, Placed, Mild
    <2>3. Entry \ vld # {}
      BY <2>2, SomeFree
    <2>4. IsFiniteSet(Entry \ vld)
      <3>1. IsFiniteSet(Entry)
        BY MiqAssumption, FS_Interval DEF Entry
      <3>. QED BY <3>1, FS_Difference
    <2>5. Cardinality(Entry \ vld) >= 2
      BY <2>2, <2>4, FS_CardinalityType
    <2>. QED BY <2>1, <2>3, <2>5, FreeOnes, TwoFree DEF create_en, TypeOK
  <1>4. ASSUME Len(ins) >= 1 PROVE \E c \in create_en(ins, stall) : ~from1(ins, c)
    <2>1. PICK c \in create_en(ins, stall) : c \in create0_in
      BY <1>2, <1>4
    <2>. QED BY <1>1, <2>1
  <1>5. ASSUME Len(ins) = 2 PROVE \E c \in create_en(ins, stall) : from1(ins, c)
    <2>1. PICK c \in create_en(ins, stall) : c \in create1_in /\ c \notin create0_in
      BY <1>3, <1>5
    <2>. QED BY <1>1, <2>1
  <1>. QED BY <1>4, <1>5

\* What a packet adds to the program.
LEMMA PacketOf ==
  ASSUME TypeOK, TypeOK', Ordered, Running, Epochs, NEW ins \in Presented, NEW stall \in BOOLEAN,
         NEW srcrdy \in SUBSET waiting, NEW fail \in BOOLEAN, NEW fin \in Fins,
         Clock(ins, stall, srcrdy, fail, fin)
  PROVE  /\ Follows(ins, base, epoch')
         /\ base' = IF stall THEN base ELSE epoch'
         /\ dis' # <<>> => Follows(dis', base', epoch')
         /\ base \in Int
  <1>1. /\ Packet(ins)
        /\ dis # <<>> => ins = dis
        /\ dis = <<>> => Follows(ins, epoch,
                           epoch + cfgs([i \in DOMAIN ins |-> ins[i].kind], Len(ins)))
    BY PresentedPackets
  <1>2. /\ epoch' = epoch + (IF dis = <<>>
                             THEN cfgs([i \in DOMAIN ins |-> ins[i].kind], Len(ins)) ELSE 0)
        /\ dis' = IF stall THEN ins ELSE <<>>
        /\ stall => ins # <<>>
    BY DEF Clock, Inputs, Running
  <1>3. epoch \in Int /\ epoch' \in Int
    BY DEF TypeOK
  <1>4. base \in Int /\ Follows(ins, base, epoch')
    <2>1. CASE dis = <<>>
      BY <1>1, <1>2, <1>3, <2>1 DEF base
    <2>2. CASE dis # <<>>
      <3>1. epoch' = epoch /\ ins = dis /\ Follows(ins, base, epoch')
        BY <1>1, <1>2, <1>3, <2>2 DEF Epochs, DispatchNext
      <3>2. dis[1] \in Inst
        BY <1>1, <3>1, <2>2 DEF Packet
      <3>3. base \in Int
        BY <2>2, <3>2 DEF base, Inst, Bump
      <3>. QED BY <3>1, <3>3
    <2>. QED BY <2>1, <2>2
  <1>5. base' = IF stall THEN base ELSE epoch'
    <2>1. CASE ~stall
      BY <1>2, <2>1 DEF base
    <2>2. CASE stall
      <3>1. dis' = ins /\ ins # <<>>
        BY <1>2, <2>2
      <3>2. base' = ins[1].epoch - Bump(ins[1])
        BY <3>1 DEF base, Bump
      <3>3. ins[1].epoch = base + Bump(ins[1])
        BY <1>4, <3>1 DEF Follows
      <3>4. Bump(ins[1]) \in Int
        BY DEF Bump
      <3>. QED BY <1>4, <2>2, <3>2, <3>3, <3>4
    <2>. QED BY <2>1, <2>2
  <1>6. dis' # <<>> => Follows(dis', base', epoch')
    BY <1>2, <1>4, <1>5
  <1>. QED BY <1>4, <1>5, <1>6

-----------------------------------------------------------------------------
(* One clock edge, seen from the mcfg instructions. *)

LEMMA CfgEntriesLive ==
  ASSUME TypeOK, Ordered
  PROVE  /\ cfgEntries \subseteq waiting \cup inRf
         /\ cfgEntries \subseteq live /\ live \subseteq vld
         /\ cfgEntries \cap (lsu \cup inAlu) = {}
  BY DEF Ordered, Placed, Leftover, cfgEntries, mcfg, waiting, live, inRf

\* What an edge does to the mcfg instructions and to the sizes.
CfgMoves(ins, stall, fail, fin) ==
  /\ \A g \in cfgEntries \ Gone(fail, fin) :
       /\ g \in cfgEntries' /\ g \notin create_en(ins, stall)
       /\ g \notin ending(fail, fin) /\ data'[g] = data[g]
  /\ \A g \in cfgEntries' : \/ g \in create_en(ins, stall)
                            \/ g \in cfgEntries \ Gone(fail, fin)
  /\ \A g \in cfgEntries \cap Gone(fail, fin) : data[g].epoch \in written'
  /\ \A c \in cfg_ex1' : \E g \in cfgEntries \cap Gone(fail, fin) :
       inRf = {g} /\ c = data[g].epoch
  /\ \A c, d \in cfg_ex1' : c = d
  /\ x_epoch' \in written
  /\ \A c \in written : c <= x_epoch'

LEMMA CfgEdge ==
  ASSUME TypeOK, TypeOK', Ordered, Ordered', Running, Epochs, NEW ins \in Presented, NEW stall \in BOOLEAN,
         NEW srcrdy \in SUBSET waiting, NEW fail \in BOOLEAN, NEW fin \in Fins,
         Clock(ins, stall, srcrdy, fail, fin)
  PROVE  CfgMoves(ins, stall, fail, fin)
  <1> DEFINE C == create_en(ins, stall)
             gone == Gone(fail, fin)
  <1>0. Edge(ins, stall, srcrdy, fail, fin)
    BY EdgeOf
  <1>1. vld' = (vld \ gone) \cup C /\ gone \subseteq ending(fail, fin)
    BY <1>0 DEF Edge
  <1>2. \A e \in vld \ gone : e \notin C /\ data'[e] = data[e]
    BY <1>0 DEF Edge
  <1>3. /\ \A g \in cfgEntries \ gone : g \in cfgEntries'
        /\ \A g \in cfgEntries' : g \in C \/ g \in cfgEntries \ gone
    <2>1. \A e : e \in cfgEntries' <=> e \in vld' /\ data'[e].kind = "cfg"
      BY DEF cfgEntries, mcfg, TypeOK
    <2>2. \A e : e \in cfgEntries <=> e \in vld /\ data[e].kind = "cfg"
      BY DEF cfgEntries, mcfg, TypeOK
    <2>. QED BY <1>1, <1>2, <2>1, <2>2
  <1>4. /\ ex_pop(fin) \subseteq lsu \cup inAlu
        /\ ending(fail, fin) \subseteq (IF rf_pop_vld(fail) THEN rf.entry ELSE {}) \cup lsu \cup inAlu
    <2>1. Placed
      BY DEF Ordered
    <2>. QED BY <2>1, PopsEnded
  <1>5. \A g \in cfgEntries : g \notin ex_pop(fin) /\ g \notin lsu \cup inAlu
    BY <1>4, CfgEntriesLive
  <1>6. \A g \in cfgEntries \ gone : g \notin ending(fail, fin)
    BY <1>4, <1>5 DEF Gone
  <1>7. rf.vld => \E e \in Entry : rf.entry = {e} /\ rf.inst = data[e] /\ inRf = {e} /\ e \in vld
    BY DEF Ordered, Placed, inRf, TypeOK
  <1>8. cfg_ex1' = IF rf_pop_vld(fail) THEN {rf.inst.epoch} ELSE {}
    BY DEF Clock, Configure, rf_pop_vld, Running
  <1>9. rf_pop_vld(fail) => \E g \in cfgEntries \cap gone :
                              inRf = {g} /\ rf.entry = {g} /\ cfg_ex1' = {data[g].epoch}
    <2>1. SUFFICES ASSUME rf_pop_vld(fail)
                   PROVE  \E g \in cfgEntries \cap gone :
                              inRf = {g} /\ rf.entry = {g} /\ cfg_ex1' = {data[g].epoch}
      OBVIOUS
    <2>2. rf.vld /\ rf.inst.kind = "cfg"
      BY <2>1 DEF rf_pop_vld, launched
    <2>3. PICK e \in Entry : rf.entry = {e} /\ rf.inst = data[e] /\ inRf = {e} /\ e \in vld
      BY <1>7, <2>2
    <2>4. e \in cfgEntries \cap gone
      BY <2>1, <2>2, <2>3 DEF Gone, cfgEntries, mcfg
    <2>. QED BY <1>8, <2>1, <2>3, <2>4
  <1>10. \A g \in cfgEntries \cap gone : rf_pop_vld(fail) /\ g \in rf.entry
    BY <1>5 DEF Gone
  <1>11. \A g \in cfgEntries \cap gone : data[g].epoch \in written'
    BY <1>9, <1>10 DEF written
  <1>12. /\ \A c \in cfg_ex1' : \E g \in cfgEntries \cap gone : inRf = {g} /\ c = data[g].epoch
         /\ \A c, d \in cfg_ex1' : c = d
    BY <1>8, <1>9
  <1>13. x_epoch' \in IF cfg_ex1 = {} THEN {x_epoch} ELSE cfg_ex1
    BY DEF Clock, Configure
  <1>14. x_epoch' \in written /\ \A c \in written : c <= x_epoch'
    <2>1. cfg_ex1 \subseteq Nat /\ x_epoch \in Nat
      BY MiqAssumption DEF TypeOK
    <2>. QED BY <1>13, <2>1 DEF written, Epochs, WrittenOrder
  <1>15. \A g \in cfgEntries \ gone : g \notin C /\ data'[g] = data[g]
    BY <1>2 DEF cfgEntries
  <1>. QED BY <1>3, <1>6, <1>11, <1>12, <1>14, <1>15 DEF CfgMoves

\* A number that was reached stays reached.
Still(k, S) == \/ \E c \in written' : c >= k
               \/ \E g \in S \cap cfgEntries' : data'[g].epoch = k

LEMMA StaysReached ==
  ASSUME TypeOK, TypeOK', Ordered, Ordered', Running, Epochs, NEW ins \in Presented, NEW stall \in BOOLEAN,
         NEW srcrdy \in SUBSET waiting, NEW fail \in BOOLEAN, NEW fin \in Fins,
         Clock(ins, stall, srcrdy, fail, fin), NEW k \in Int, NEW S, NEW S2,
         Reached(k, S), S \cap (cfgEntries \ Gone(fail, fin)) \subseteq S2
  PROVE  Still(k, S2)
  <1>0. /\ \A g \in cfgEntries \ Gone(fail, fin) : g \in cfgEntries' /\ data'[g] = data[g]
        /\ \A g \in cfgEntries \cap Gone(fail, fin) : data[g].epoch \in written'
    <2>1. CfgMoves(ins, stall, fail, fin)
      BY CfgEdge
    <2>. QED BY <2>1 DEF CfgMoves
  <1>1. x_epoch' \in written' /\ x_epoch' \in Int /\ written \subseteq Int
    BY MiqAssumption DEF written, TypeOK
  <1>2. ASSUME NEW c \in written, c >= k PROVE \E d \in written' : d >= k
    <2>1. CfgMoves(ins, stall, fail, fin)
      BY CfgEdge
    <2>2. c <= x_epoch'
      BY <2>1 DEF CfgMoves
    <2>. QED BY <1>1, <1>2, <2>2
  <1>3. ASSUME NEW g \in S \cap cfgEntries, data[g].epoch = k
        PROVE  \/ \E c \in written' : c >= k
               \/ \E h \in S2 \cap cfgEntries' : data'[h].epoch = k
    <2>1. CASE g \in Gone(fail, fin)
      <3>1. k \in written'
        BY <1>0, <1>3, <2>1
      <3>. QED BY <3>1
    <2>2. CASE g \notin Gone(fail, fin)
      <3>1. g \in cfgEntries' /\ data'[g] = data[g]
        BY <1>0, <1>3, <2>2
      <3>2. g \in S2
        BY <1>3, <2>2
      <3>. QED BY <1>3, <3>1, <3>2
    <2>. QED BY <2>1, <2>2
  <1>. QED BY <1>2, <1>3 DEF Reached, Still

\* What a created entry holds: the first instruction of the packet, or the
\* second one, which is younger than the first.
First(ins, c, b) ==
  /\ data'[c] = ins[1] /\ ins[1] \in Inst
  /\ data'[c].epoch = b + Bump(data'[c])
Second(ins, c, d) ==
  /\ data'[c] = ins[2] /\ ins[2] \in Inst /\ data'[c].epoch = epoch'
  /\ data'[c].epoch = data'[d].epoch + Bump(data'[c])

CreatedAs(ins, stall, fail, fin, c) ==
  /\ ~stall /\ c \in vld' /\ c \notin vld /\ data'[c] \in Inst
  /\ vld \ ending(fail, fin) \subseteq agevec'[c]
  /\ ~from1(ins, c) => agevec'[c] \subseteq vld /\ First(ins, c, base)
  /\ from1(ins, c) => \E d \in create_en(ins, stall) :
       /\ ~from1(ins, d) /\ First(ins, d, base) /\ Second(ins, c, d)
       /\ agevec'[c] \subseteq vld \cup {d} /\ d \in agevec'[c]

LEMMA CreatedOf ==
  ASSUME TypeOK, TypeOK', Ordered, Running, Epochs, NEW ins \in Presented, NEW stall \in BOOLEAN,
         NEW srcrdy \in SUBSET waiting, NEW fail \in BOOLEAN, NEW fin \in Fins,
         Clock(ins, stall, srcrdy, fail, fin), NEW c \in create_en(ins, stall)
  PROVE  CreatedAs(ins, stall, fail, fin, c)
  <1> DEFINE C == create_en(ins, stall)
  <1>1. Packet(ins) /\ Inputs(ins, stall, fail, fin) /\ Placed
    BY PresentedPackets DEF Clock, Ordered
  <1>2. /\ C \subseteq Entry \ vld /\ C \subseteq create_dp_en(ins)
        /\ ~stall /\ Len(ins) >= 1
        /\ \A e \in C : IF from1(ins, e) THEN /\ e \in create1_in /\ e \notin create0_in
                                              /\ create0_in \subseteq C /\ Len(ins) = 2
                                         ELSE e \in create0_in
        /\ \A e, d \in C : (from1(ins, e) <=> from1(ins, d)) => e = d
    BY <1>1, Creation
  <1>3. Follows(ins, base, epoch') /\ base \in Int
    BY PacketOf
  <1>4. \A e \in C : data'[e] = ins[IF from1(ins, e) THEN 2 ELSE 1]
    BY <1>2 DEF Clock, Data
  <1>5. vld' = (vld \ Gone(fail, fin)) \cup C
    BY EdgeOf DEF Edge
  <1>6. agevec'[c] = ((vld \ ending(fail, fin))
                       \cup (IF from1(ins, c) THEN create0_in ELSE {})) \ {c}
    <2>1. \A e \in C : agevec'[e] = CreateAge(ins, fail, fin, e)
      BY EdgeOf DEF Edge
    <2>. QED BY <2>1 DEF CreateAge
  <1>7. \A d \in C : ~from1(ins, d) => First(ins, d, base)
    BY <1>2, <1>3, <1>4 DEF Follows, First
  <1>8. CASE ~from1(ins, c)
    BY <1>2, <1>4, <1>5, <1>6, <1>7, <1>8 DEF First, CreatedAs
  <1>9. CASE from1(ins, c)
    <2>1. create0_in \subseteq C /\ Len(ins) = 2 /\ c \notin create0_in /\ create0_in \subseteq Entry
      BY <1>2, <1>9 DEF create0_in
    <2>2. PICK d \in C : ~from1(ins, d)
      <3>1. \E d \in create_en(ins, stall) : ~from1(ins, d)
        BY <1>1, <1>2, Taken
      <3>. QED BY <3>1
    <2>3. create0_in = {d}
      <3>1. d \in create0_in
        BY <1>2, <2>2
      <3>2. \A e \in create0_in : e = d
        BY <3>1, MiqAssumption DEF create0_in, Entry
      <3>. QED BY <3>1, <3>2
    <2>4. First(ins, d, base)
      BY <1>7, <2>2
    <2>5. data'[c] = ins[2]
      BY <1>4, <1>9
    <2>6. Second(ins, c, d)
      <3>1. PICK i \in Inst, j \in Inst : ins = <<i, j>>
        BY <1>1, <2>1 DEF Packet
      <3>2. data'[c] = j /\ data'[d] = i /\ ins[2] = j
        BY <2>4, <2>5, <3>1 DEF First
      <3>3. j.epoch = i.epoch + Bump(j) /\ j.epoch = epoch'
        BY <1>3, <2>1, <3>1 DEF Follows
      <3>. QED BY <3>2, <3>3 DEF Second
    <2>7. agevec'[c] \subseteq vld \cup {d} /\ d \in agevec'[c]
      BY <1>6, <1>9, <2>1, <2>3
    <2>. QED BY <1>2, <1>5, <1>6, <1>9, <2>2, <2>4, <2>6, <2>7 DEF Second, CreatedAs
  <1>. QED BY <1>8, <1>9

-----------------------------------------------------------------------------
(* The conjuncts of Epochs after an edge. *)

LEMMA Numbers ==
  ASSUME TypeOK
  PROVE  /\ written \subseteq Int /\ x_epoch \in written
         /\ \A e \in vld : data[e].epoch \in Int
         /\ epoch \in Int
  BY MiqAssumption DEF TypeOK, written, Inst, Reset

\* A created mcfg comes after everything that was there before.
LEMMA CreatedAfter ==
  ASSUME TypeOK, TypeOK', Ordered, Ordered', Running, Epochs, NEW ins \in Presented, NEW stall \in BOOLEAN,
         NEW srcrdy \in SUBSET waiting, NEW fail \in BOOLEAN, NEW fin \in Fins,
         Clock(ins, stall, srcrdy, fail, fin)
  PROVE  /\ base <= base' /\ base \in Int /\ base' \in Int
         /\ \A c \in create_en(ins, stall) :
              data'[c].kind = "cfg" => base < data'[c].epoch /\ data'[c].epoch <= base'
  <1>1. /\ Follows(ins, base, epoch')
        /\ base' = IF stall THEN base ELSE epoch'
        /\ base \in Int /\ epoch' \in Int
    BY PacketOf DEF TypeOK
  <1>2. \A i \in Inst : i.epoch \in Int /\ Bump(i) \in {0, 1} /\ (i.kind = "cfg" => Bump(i) = 1)
    BY MiqAssumption DEF Inst, Bump
  <1>3. base <= epoch' /\ (ins # <<>> => ins[1].epoch <= epoch' /\ base <= ins[1].epoch)
    BY <1>1, <1>2 DEF Follows
  <1>4. base <= base' /\ base' \in Int
    BY <1>1, <1>3
  <1>5. ASSUME NEW c \in create_en(ins, stall), data'[c].kind = "cfg"
        PROVE  base < data'[c].epoch /\ data'[c].epoch <= base'
    <2>0. CreatedAs(ins, stall, fail, fin, c)
      BY CreatedOf
    <2>1. ~stall /\ base' = epoch' /\ ins # <<>>
      <3>1. ~stall
        BY <2>0 DEF CreatedAs
      <3>2. ins # <<>>
        BY DEF create_en, creates
      <3>. QED BY <1>1, <3>1, <3>2
    <2>2. CASE ~from1(ins, c)
      <3>1. First(ins, c, base)
        BY <2>0, <2>2 DEF CreatedAs
      <3>. QED BY <1>1, <1>2, <1>3, <1>5, <2>1, <3>1 DEF First
    <2>3. CASE from1(ins, c)
      <3>1. PICK d \in create_en(ins, stall) : First(ins, d, base) /\ Second(ins, c, d)
        BY <2>0, <2>3 DEF CreatedAs
      <3>. QED BY <1>1, <1>2, <1>3, <1>5, <2>1, <3>1 DEF First, Second
    <2>. QED BY <2>2, <2>3
  <1>. QED BY <1>1, <1>4, <1>5

\* The configuration unit takes the mcfg instructions in program order.
LEMMA WrittenStep ==
  ASSUME TypeOK, TypeOK', Ordered, Ordered', Running, Epochs, NEW ins \in Presented, NEW stall \in BOOLEAN,
         NEW srcrdy \in SUBSET waiting, NEW fail \in BOOLEAN, NEW fin \in Fins,
         Clock(ins, stall, srcrdy, fail, fin)
  PROVE  /\ \A c \in cfg_ex1' : x_epoch' < c
         /\ \A c, d \in cfg_ex1' : c = d
         /\ \A c \in written' : c <= base
         /\ \A g \in cfgEntries \ Gone(fail, fin) : \A c \in written' : c < data[g].epoch
  <1>1. CfgMoves(ins, stall, fail, fin)
    BY CfgEdge
  <1>2. /\ \A c \in cfg_ex1' : \E g \in cfgEntries \cap Gone(fail, fin) :
             inRf = {g} /\ c = data[g].epoch
        /\ \A c, d \in cfg_ex1' : c = d
        /\ x_epoch' \in written
    BY <1>1 DEF CfgMoves
  <1>3. \A c \in cfg_ex1' : x_epoch' < c
    BY <1>2 DEF Epochs, WrittenOrder, QueuedAfter
  <1>4. \A c \in written' : c <= base
    BY <1>2 DEF Epochs, WrittenOrder, QueuedAfter, written
  <1>5. ASSUME NEW g \in cfgEntries \ Gone(fail, fin), NEW c \in cfg_ex1'
        PROVE  c < data[g].epoch
    <2>1. PICK h \in cfgEntries \cap Gone(fail, fin) : inRf = {h} /\ c = data[h].epoch
      BY <1>2
    <2>2. h # g /\ h \in live /\ g \in live /\ g \in mcfg
      BY CfgEntriesLive DEF cfgEntries
    <2>3. g \notin agevec[h]
      BY <2>1, <2>2 DEF Epochs, IssuedReady
    <2>4. h \in agevec[g]
      BY <2>2, <2>3 DEF Ordered, AgeOrder
    <2>. QED BY <2>1, <2>4 DEF Epochs, QueuedOrder
  <1>6. ASSUME NEW g \in cfgEntries \ Gone(fail, fin) PROVE x_epoch' < data[g].epoch
    BY <1>2 DEF Epochs, QueuedAfter
  <1>. QED BY <1>2, <1>3, <1>4, <1>5, <1>6 DEF written

\* The mcfg instructions in the queue are those after the written ones.
LEMMA QueuedStep ==
  ASSUME TypeOK, TypeOK', Ordered, Ordered', Running, Epochs, NEW ins \in Presented, NEW stall \in BOOLEAN,
         NEW srcrdy \in SUBSET waiting, NEW fail \in BOOLEAN, NEW fin \in Fins,
         Clock(ins, stall, srcrdy, fail, fin)
  PROVE  \A g \in cfgEntries' : /\ data'[g].epoch <= base'
                                  /\ \A c \in written' : c < data'[g].epoch
  <1> SUFFICES ASSUME NEW g \in cfgEntries'
               PROVE  data'[g].epoch <= base' /\ \A c \in written' : c < data'[g].epoch
    OBVIOUS
  <1>1. CfgMoves(ins, stall, fail, fin)
    BY CfgEdge
  <1>2. base <= base' /\ base \in Int /\ base' \in Int
    BY CreatedAfter
  <1>3. written' \subseteq Int /\ data'[g].epoch \in Int
    BY Numbers, MiqAssumption DEF cfgEntries, mcfg, TypeOK, written, Inst, Reset
  <1>4. CASE g \in create_en(ins, stall)
    <2>1. base < data'[g].epoch /\ data'[g].epoch <= base'
      <3>1. data'[g].kind = "cfg"
        BY DEF cfgEntries, mcfg
      <3>. QED BY <1>4, <3>1, CreatedAfter
    <2>2. \A c \in written' : c <= base
      BY WrittenStep
    <2>. QED BY <1>2, <1>3, <2>1, <2>2
  <1>5. CASE g \in cfgEntries \ Gone(fail, fin)
    <2>1. data'[g] = data[g]
      BY <1>1, <1>5 DEF CfgMoves
    <2>2. \A c \in written' : c < data[g].epoch
      BY <1>5, WrittenStep
    <2>3. data[g].epoch <= base
      BY <1>5 DEF Epochs, QueuedAfter
    <2>. QED BY <1>2, <1>3, <2>1, <2>2, <2>3
  <1>. QED BY <1>1, <1>4, <1>5 DEF CfgMoves

\* The age vectors order them as the program does.
LEMMA QueuedOrderStep ==
  ASSUME TypeOK, TypeOK', Ordered, Ordered', Running, Epochs, NEW ins \in Presented, NEW stall \in BOOLEAN,
         NEW srcrdy \in SUBSET waiting, NEW fail \in BOOLEAN, NEW fin \in Fins,
         Clock(ins, stall, srcrdy, fail, fin)
  PROVE  \A g, h \in cfgEntries' : g \in agevec'[h] => data'[g].epoch < data'[h].epoch
  <1> SUFFICES ASSUME NEW g \in cfgEntries', NEW h \in cfgEntries', g \in agevec'[h]
               PROVE  data'[g].epoch < data'[h].epoch
    OBVIOUS
  <1> DEFINE C == create_en(ins, stall)
             gone == Gone(fail, fin)
  <1>0. \A d \in create_en(ins, stall) : CreatedAs(ins, stall, fail, fin, d)
    BY CreatedOf
  <1>1. /\ g \in C \/ g \in cfgEntries \ gone
        /\ h \in C \/ h \in cfgEntries \ gone
        /\ \A e \in cfgEntries \ gone : data'[e] = data[e]
    <2>1. CfgMoves(ins, stall, fail, fin)
      BY CfgEdge
    <2>. QED BY <2>1 DEF CfgMoves
  <1>2. data'[g].epoch \in Int /\ data'[h].epoch \in Int /\ base \in Int
    <2>1. base \in Int
      BY CreatedAfter
    <2>. QED BY <2>1, MiqAssumption DEF cfgEntries, mcfg, TypeOK, Inst, Reset
  <1>3. \A e \in C : e \notin vld
    <2>1. ASSUME NEW e \in create_en(ins, stall) PROVE e \notin vld
      BY <1>0 DEF CreatedAs
    <2>. QED BY <2>1
  <1>4. CASE h \in cfgEntries \ gone
    <2>1. agevec'[h] = agevec[h] \ gone
      <3>1. h \in vld \ gone
        BY <1>4 DEF cfgEntries
      <3>2. Edge(ins, stall, srcrdy, fail, fin)
        BY EdgeOf
      <3>. QED BY <3>1, <3>2 DEF Edge
    <2>2. g \in agevec[h] /\ g \in vld
      BY <1>4, <2>1, CfgEntriesLive DEF Ordered, AgeOrder
    <2>3. g \in cfgEntries \ gone
      BY <1>1, <1>3, <2>2
    <2>. QED BY <1>1, <1>4, <2>2, <2>3 DEF Epochs, QueuedOrder
  <1>5. CASE h \in C /\ g \in cfgEntries \ gone
    <2>1. base < data'[h].epoch
      <3>1. data'[h].kind = "cfg"
        BY DEF cfgEntries, mcfg
      <3>. QED BY <1>5, <3>1, CreatedAfter
    <2>2. data'[g].epoch <= base
      BY <1>1, <1>5 DEF Epochs, QueuedAfter
    <2>. QED BY <1>2, <2>1, <2>2
  <1>6. CASE h \in C /\ g \in C
    <2>1. g \notin vld
      BY <1>3, <1>6
    <2>2. from1(ins, h)
      BY <1>6, <2>1, <1>0 DEF CreatedAs
    <2>3. PICK d \in create_en(ins, stall) :
             /\ ~from1(ins, d) /\ First(ins, d, base) /\ Second(ins, h, d)
             /\ agevec'[h] \subseteq vld \cup {d} /\ d \in agevec'[h]
      <3>1. h \in create_en(ins, stall)
        BY <1>6
      <3>. QED BY <2>2, <3>1, <1>0 DEF CreatedAs
    <2>4. g = d
      BY <2>1, <2>3
    <2>5. Bump(data'[h]) = 1
      BY DEF Bump, cfgEntries, mcfg
    <2>. QED BY <1>2, <2>3, <2>4, <2>5 DEF Second
  <1>. QED BY <1>1, <1>4, <1>5, <1>6

\* What had been reached when the packet came, still is: by S2 if S2 has the
\* entries that stay.
LEMMA BaseReached ==
  ASSUME TypeOK, TypeOK', Ordered, Ordered', Running, Epochs, NEW ins \in Presented, NEW stall \in BOOLEAN,
         NEW srcrdy \in SUBSET waiting, NEW fail \in BOOLEAN, NEW fin \in Fins,
         Clock(ins, stall, srcrdy, fail, fin),
         NEW S2, vld \ ending(fail, fin) \subseteq S2
  PROVE  Still(base, S2)
  <1>1. vld \cap (cfgEntries \ Gone(fail, fin)) \subseteq S2
    <2>1. CfgMoves(ins, stall, fail, fin)
      BY CfgEdge
    <2>. QED BY <2>1 DEF CfgMoves, cfgEntries
  <1>2. base \in Int
    BY CreatedAfter
  <1>3. Reached(base, vld)
    BY DEF Epochs, LastReach
  <1>. QED BY <1>1, <1>2, <1>3, StaysReached

\* A created entry has the mcfg it waits for among the older ones.
LEMMA CreatedReached ==
  ASSUME TypeOK, TypeOK', Ordered, Ordered', Running, Epochs, NEW ins \in Presented, NEW stall \in BOOLEAN,
         NEW srcrdy \in SUBSET waiting, NEW fail \in BOOLEAN, NEW fin \in Fins,
         Clock(ins, stall, srcrdy, fail, fin),
         NEW c \in create_en(ins, stall), data'[c].kind # "cfg"
  PROVE  Still(data'[c].epoch, agevec'[c])
  <1>0. \A d \in create_en(ins, stall) : CreatedAs(ins, stall, fail, fin, d)
    BY CreatedOf
  <1>1. vld \ ending(fail, fin) \subseteq agevec'[c]
    BY <1>0 DEF CreatedAs
  <1>2. Still(base, agevec'[c])
    BY <1>1, BaseReached
  <1>3. base \in Int
    BY CreatedAfter
  <1>4. CASE ~from1(ins, c)
    <2>1. data'[c].epoch = base
      <3>1. First(ins, c, base)
        BY <1>4, <1>0 DEF CreatedAs
      <3>. QED BY <1>3, <3>1 DEF First, Bump
    <2>. QED BY <1>2, <2>1
  <1>5. CASE from1(ins, c)
    <2>1. PICK d \in create_en(ins, stall) :
             /\ ~from1(ins, d) /\ First(ins, d, base) /\ Second(ins, c, d)
             /\ agevec'[c] \subseteq vld \cup {d} /\ d \in agevec'[c]
      BY <1>5, <1>0 DEF CreatedAs
    <2>2. d \in vld' /\ data'[d] \in Inst
      BY <1>0 DEF CreatedAs
    <2>3. data'[d].epoch \in Int
      BY <2>2, MiqAssumption DEF Inst
    <2>4. data'[c].epoch = data'[d].epoch
      BY <2>1, <2>3 DEF Second, Bump
    <2>5. CASE data'[d].kind = "cfg"
      <3>1. d \in cfgEntries'
        BY <2>2, <2>5 DEF cfgEntries, mcfg, TypeOK
      <3>. QED BY <2>1, <2>4, <3>1 DEF Still
    <2>6. CASE data'[d].kind # "cfg"
      <3>1. data'[d].epoch = base
        BY <1>3, <2>1, <2>6 DEF First, Bump
      <3>. QED BY <1>2, <2>4, <3>1
    <2>. QED BY <2>5, <2>6
  <1>. QED BY <1>4, <1>5

\* So has every unfinished entry.
LEMMA LiveReached ==
  ASSUME TypeOK, TypeOK', Ordered, Ordered', Running, Epochs, NEW ins \in Presented, NEW stall \in BOOLEAN,
         NEW srcrdy \in SUBSET waiting, NEW fail \in BOOLEAN, NEW fin \in Fins,
         Clock(ins, stall, srcrdy, fail, fin)
  PROVE  \A e \in live' : data'[e].kind # "cfg" => Still(data'[e].epoch, agevec'[e])
  <1> SUFFICES ASSUME NEW e \in live', data'[e].kind # "cfg"
               PROVE  Still(data'[e].epoch, agevec'[e])
    OBVIOUS
  <1>1. /\ live' \subseteq (live \ ending(fail, fin)) \cup create_en(ins, stall)
        /\ live \subseteq vld
    <2>1. Placed'
      BY DEF Ordered
    <2>. QED BY <2>1, LiveAfter
  <1>2. CASE e \in create_en(ins, stall)
    BY <1>2, CreatedReached
  <1>3. CASE e \in live \ ending(fail, fin)
    <2>0. Edge(ins, stall, srcrdy, fail, fin)
      BY EdgeOf
    <2>1. e \in vld \ Gone(fail, fin)
      BY <1>1, <1>3, <2>0 DEF Edge
    <2>2. data'[e] = data[e]
      BY <2>0, <2>1 DEF Edge
    <2>3. agevec'[e] = agevec[e] \ Gone(fail, fin)
      BY <2>0, <2>1 DEF Edge
    <2>4. Reached(data[e].epoch, agevec[e])
      BY <1>3, <2>2 DEF Epochs, LiveReach
    <2>5. agevec[e] \cap (cfgEntries \ Gone(fail, fin)) \subseteq agevec'[e]
      BY <2>3
    <2>6. data[e].epoch \in Int
      BY <2>1, Numbers
    <2>7. Still(data[e].epoch, agevec'[e])
      BY <2>4, <2>5, <2>6, StaysReached
    <2>. QED BY <2>2, <2>7
  <1>. QED BY <1>1, <1>2, <1>3

\* The last mcfg dispatched was written or is in the queue.
LEMMA LastReached ==
  ASSUME TypeOK, TypeOK', Ordered, Ordered', Running, Epochs, NEW ins \in Presented, NEW stall \in BOOLEAN,
         NEW srcrdy \in SUBSET waiting, NEW fail \in BOOLEAN, NEW fin \in Fins,
         Clock(ins, stall, srcrdy, fail, fin)
  PROVE  Still(base', vld')
  <1>0. \A d \in create_en(ins, stall) : CreatedAs(ins, stall, fail, fin, d)
    BY CreatedOf
  <1>1. /\ Follows(ins, base, epoch')
        /\ base' = IF stall THEN base ELSE epoch'
        /\ base \in Int
    BY PacketOf
  <1>2. Still(base, vld')
    <2>1. Still(base, vld)
      BY BaseReached
    <2>2. cfgEntries' \subseteq vld'
      BY DEF cfgEntries
    <2>. QED BY <2>1, <2>2, BaseReached, Zenon DEF Still
  <1>3. \A c \in create_en(ins, stall) : data'[c].kind = "cfg" => c \in cfgEntries'
    BY <1>0 DEF CreatedAs, cfgEntries, mcfg, TypeOK
  <1>4. CASE stall
    BY <1>1, <1>2, <1>4
  <1>5. CASE ~stall
    <2>1. Packet(ins) /\ Inputs(ins, stall, fail, fin) /\ Placed
      BY PresentedPackets DEF Clock, Ordered
    <2>2. \A c \in create_en(ins, stall) : data'[c] = ins[IF from1(ins, c) THEN 2 ELSE 1]
      BY <1>0 DEF CreatedAs, First, Second
    <2>3. /\ Len(ins) >= 1 => \E c \in create_en(ins, stall) : ~from1(ins, c)
          /\ Len(ins) = 2 => \E c \in create_en(ins, stall) : from1(ins, c)
      BY <1>5, <2>1, Taken
    <2>4. CASE ins = <<>>
      BY <1>1, <1>2, <1>5, <2>4 DEF Follows
    <2>5. CASE \E i \in Inst : ins = <<i>>
      <3>1. PICK i \in Inst : ins = <<i>>
        BY <2>5
      <3>2. i.epoch = base + Bump(i) /\ epoch' = i.epoch
        BY <1>1, <3>1 DEF Follows
      <3>3. PICK c \in create_en(ins, stall) : ~from1(ins, c)
        <4>1. \E c \in create_en(ins, stall) : ~from1(ins, c)
          BY <2>3, <3>1
        <4>. QED BY <4>1
      <3>4. data'[c] = i
        BY <2>2, <3>1, <3>3
      <3>5. CASE i.kind = "cfg"
        BY <1>1, <1>3, <1>5, <3>2, <3>3, <3>4, <3>5, <1>0 DEF Still, CreatedAs
      <3>6. CASE i.kind # "cfg"
        <4>1. epoch' = base
          BY <1>1, <3>2, <3>6 DEF Bump
        <4>. QED BY <1>1, <1>2, <1>5, <4>1
      <3>. QED BY <3>5, <3>6
    <2>6. CASE \E i, j \in Inst : ins = <<i, j>>
      <3>1. PICK i \in Inst, j \in Inst : ins = <<i, j>>
        BY <2>6
      <3>2. i.epoch = base + Bump(i) /\ j.epoch = i.epoch + Bump(j) /\ epoch' = j.epoch
        BY <1>1, <3>1 DEF Follows
      <3>3. PICK c \in create_en(ins, stall) : ~from1(ins, c)
        <4>1. \E c \in create_en(ins, stall) : ~from1(ins, c)
          BY <2>3, <3>1
        <4>. QED BY <4>1
      <3>4. PICK d \in create_en(ins, stall) : from1(ins, d)
        <4>1. \E d \in create_en(ins, stall) : from1(ins, d)
          BY <2>3, <3>1
        <4>. QED BY <4>1
      <3>5. data'[c] = i /\ data'[d] = j
        BY <2>2, <3>1, <3>3, <3>4
      <3>6. CASE j.kind = "cfg"
        BY <1>1, <1>3, <1>5, <3>2, <3>4, <3>5, <3>6, <1>0 DEF Still, CreatedAs
      <3>7. CASE j.kind # "cfg" /\ i.kind = "cfg"
        <4>1. epoch' = i.epoch
          BY <3>2, <3>7, MiqAssumption DEF Bump, Inst
        <4>. QED BY <1>1, <1>3, <1>5, <3>3, <3>5, <3>7, <4>1, <1>0 DEF Still, CreatedAs
      <3>8. CASE j.kind # "cfg" /\ i.kind # "cfg"
        <4>1. epoch' = base
          BY <1>1, <3>2, <3>8 DEF Bump
        <4>. QED BY <1>1, <1>2, <1>5, <4>1
      <3>. QED BY <3>6, <3>7, <3>8
    <2>. QED BY <2>1, <2>4, <2>5, <2>6 DEF Packet
  <1>. QED BY <1>4, <1>5

\* What is issued has no mcfg to wait for, and the sizes it needs.
LEMMA IssuedStep ==
  ASSUME TypeOK, TypeOK', Ordered, Ordered', Running, Epochs, NEW ins \in Presented, NEW stall \in BOOLEAN,
         NEW srcrdy \in SUBSET waiting, NEW fail \in BOOLEAN, NEW fin \in Fins,
         Clock(ins, stall, srcrdy, fail, fin)
  PROVE  IssuedReady'
  <1> SUFFICES ASSUME NEW e \in inRf'
               PROVE  /\ agevec'[e] \cap mcfg' = {}
                      /\ data'[e].kind # "cfg" => x_epoch' >= data'[e].epoch
    BY DEF IssuedReady
  <1>0. Edge(ins, stall, srcrdy, fail, fin)
    BY EdgeOf
  <1>1. e \in issue_en(srcrdy)
    BY <1>0 DEF Edge
  <1>2. e \in waiting /\ agevec[e] \cap mcfg = {}
    BY <1>1 DEF issue_en, entry_ready, waiting
  <1>3. e \in live /\ e \in vld
    BY <1>2 DEF waiting, live
  <1>4. e \in vld \ Gone(fail, fin)
    <2>1. ex_pop(fin) \subseteq lsu \cup inAlu
      <3>1. Placed
        BY DEF Ordered
      <3>. QED BY <3>1, PopsEnded
    <2>2. waiting \cap Gone(fail, fin) = {}
      BY <2>1 DEF Gone, Ordered, Placed, Leftover, waiting, inRf, rf_pop_vld, launched
    <2>. QED BY <1>2, <1>3, <2>2
  <1>5. data'[e] = data[e]
    BY <1>0, <1>4 DEF Edge
  <1>6. agevec'[e] = agevec[e] \ Gone(fail, fin)
    BY <1>0, <1>4 DEF Edge
  <1>7. agevec'[e] \cap mcfg' = {}
    <2>1. SUFFICES ASSUME NEW x \in agevec'[e], x \in mcfg' PROVE FALSE
      OBVIOUS
    <2>2. x \in agevec[e] /\ x \in vld \ Gone(fail, fin)
      BY <1>3, <1>6, <2>1 DEF Ordered, AgeOrder
    <2>3. data'[x] = data[x]
      BY <1>0, <2>2 DEF Edge
    <2>4. x \in mcfg
      BY <2>1, <2>3 DEF mcfg
    <2>. QED BY <1>2, <2>2, <2>4
  <1>8. ASSUME data'[e].kind # "cfg" PROVE x_epoch' >= data'[e].epoch
    <2>1. Reached(data[e].epoch, agevec[e])
      BY <1>3, <1>5, <1>8 DEF Epochs, LiveReach
    <2>2. PICK c \in written : c >= data[e].epoch
      BY <1>2, <2>1 DEF Reached, cfgEntries
    <2>3. CfgMoves(ins, stall, fail, fin)
      BY CfgEdge
    <2>4. c <= x_epoch' /\ x_epoch' \in Int
      BY <2>3, MiqAssumption DEF CfgMoves, TypeOK
    <2>5. c \in Int /\ data[e].epoch \in Int
      BY <1>3, Numbers
    <2>. QED BY <1>5, <2>2, <2>4, <2>5
  <1>. QED BY <1>7, <1>8

LEMMA EpochStep ==
  ASSUME TypeOK, TypeOK', Ordered, Ordered', Running, Epochs, NEW ins \in Presented, NEW stall \in BOOLEAN,
         NEW srcrdy \in SUBSET waiting, NEW fail \in BOOLEAN, NEW fin \in Fins,
         Clock(ins, stall, srcrdy, fail, fin)
  PROVE  Epochs'
  <1>1. dis' # <<>> => Follows(dis', base', epoch')
    BY PacketOf
  <1>2. base <= base' /\ base \in Int /\ base' \in Int
    BY CreatedAfter
  <1>3. \A c \in cfg_ex1' : x_epoch' < c
    BY WrittenStep
  <1>4. \A c, d \in cfg_ex1' : c = d
    BY WrittenStep
  <1>5. \A c \in written' : c <= base'
    <2>1. \A c \in written' : c <= base
      BY WrittenStep
    <2>2. written' \subseteq Int
      BY MiqAssumption DEF written, TypeOK
    <2>. QED BY <1>2, <2>1, <2>2
  <1>6. \A g \in cfgEntries' : data'[g].epoch <= base' /\ \A c \in written' : c < data'[g].epoch
    BY QueuedStep
  <1>7. \A g, h \in cfgEntries' : g \in agevec'[h] => data'[g].epoch < data'[h].epoch
    BY QueuedOrderStep
  <1>8. \A e \in live' : data'[e].kind # "cfg" => Still(data'[e].epoch, agevec'[e])
    BY LiveReached
  <1>9. Still(base', vld')
    BY LastReached
  <1>10. IssuedReady'
    BY IssuedStep
  <1>11. LiveReach'
    BY <1>8 DEF LiveReach, Reached, Still
  <1>12. LastReach'
    BY <1>9 DEF LastReach, Reached, Still
  <1>13. DispatchNext' /\ WrittenOrder'
    BY <1>1, <1>3, <1>4, <1>5 DEF DispatchNext, WrittenOrder
  <1>14. QueuedAfter'
    BY <1>6 DEF QueuedAfter
  <1>15. QueuedOrder'
    BY <1>7 DEF QueuedOrder
  <1>. QED BY <1>10, <1>11, <1>12, <1>13, <1>14, <1>15 DEF Epochs

\* The flush of the back end gives the registers what a reset gives them, with
\* the sizes that were written last.
LEMMA EpochFlush ==
  ASSUME TypeOK', vld' = {}, ~rf'.vld, dis' = <<>>, cfg_ex1' = {}, epoch' = x_epoch'
  PROVE  Epochs'
  <1>1. live' = {} /\ inRf' = {} /\ cfgEntries' = {}
    BY DEF live, inRf, cfgEntries
  <1>2. written' = {x_epoch'} /\ base' = x_epoch' /\ x_epoch' \in Int
    BY MiqAssumption DEF written, base, TypeOK
  <1>3. DispatchNext' /\ WrittenOrder'
    BY <1>2 DEF DispatchNext, WrittenOrder
  <1>4. QueuedAfter' /\ QueuedOrder' /\ LiveReach' /\ IssuedReady'
    BY <1>1 DEF QueuedAfter, QueuedOrder, LiveReach, IssuedReady
  <1>5. LastReach'
    BY <1>2 DEF LastReach, Reached
  <1>. QED BY <1>3, <1>4, <1>5 DEF Epochs

LEMMA EpochInvStep ==
  TypeOK /\ TypeOK' /\ FlushInv /\ FlushInv' /\ (Epochs \/ Flushed) /\ [Next]_vars
    => Epochs' \/ Flushed'
  <1> SUFFICES ASSUME TypeOK, TypeOK', FlushInv, FlushInv', Epochs \/ Flushed, [Next]_vars
               PROVE  Epochs' \/ Flushed'
    OBVIOUS
  <1>1. CASE Next
    <2>1. PICK ins \in Presented, stall \in BOOLEAN, srcrdy \in SUBSET waiting,
               fail \in BOOLEAN, fin \in Fins : Clock(ins, stall, srcrdy, fail, fin)
      BY <1>1 DEF Next, Fins, waiting
    <2>2. CASE flush = "idle"
      <3>1. Ordered /\ Epochs /\ Running
        BY <2>2 DEF FlushInv, Flushed, Running, flush_fe, flush_be
      <3>2. Ordered'
        BY <2>1, <3>1, RunningStep
      <3>. QED BY <2>1, <3>1, <3>2, EpochStep
    <2>3. CASE flush # "idle" /\ flush' # "idle"
      <3>1. /\ vld' = {} /\ ~rf'.vld /\ dis' = <<>>
            /\ alu_iq' = {} \/ \E e \in Entry : alu_iq' = {e}
            /\ alu_cnt' > 0 => alu_iq' # {}
        BY <2>1, <2>3, FlushStep
      <3>. QED BY <2>3, <3>1 DEF Flushed, FlushInv
    <2>4. CASE flush # "idle" /\ flush' = "idle"
      <3>1. flush_be
        BY <2>1, <2>4 DEF FlushInv, Clock, FlushNext, TypeOK, flush_be
      <3>2. /\ vld' = {} /\ ~rf'.vld /\ dis' = <<>>
            /\ cfg_ex1' = {} /\ epoch' = x_epoch'
        BY <2>1, <2>4, <3>1, FlushStep
      <3>. QED BY <3>2, EpochFlush
    <2>. QED BY <2>2, <2>3, <2>4
  <1>2. CASE UNCHANGED vars
    <2>1. Epochs => Epochs'
      BY <1>2 DEF vars, Epochs, DispatchNext, WrittenOrder, QueuedAfter, QueuedOrder, IssuedReady,
                  LiveReach, LastReach, base, written, cfgEntries, Reached, live, inRf, mcfg, Bump
    <2>2. Flushed => Flushed'
      BY <1>2 DEF vars, Flushed, Mild
    <2>. QED BY <2>1, <2>2
  <1>. QED BY <1>1, <1>2

LEMMA AlwaysEpochs == Mild /\ Spec => [](Epochs \/ Flushed)
  <1>1. Mild /\ Init => Epochs
    BY DEF Init, Epochs, DispatchNext, WrittenOrder, QueuedAfter, QueuedOrder, IssuedReady,
           LiveReach, LastReach, base, written, cfgEntries, Reached, live, inRf, mcfg
  <1>. QED BY <1>1, EpochInvStep, AlwaysFlushInv, TypeCorrect, PTL DEF Spec

\* An instruction reaches RF only when every mcfg before it in program order has
\* written the sizes, and mcfg instructions reach it in program order.
THEOREM CfgBarrierCorrect == Mild /\ Spec => []CfgBarrier
  <1>1. TypeOK /\ FlushInv /\ (Epochs \/ Flushed) => CfgBarrier
    <2> SUFFICES ASSUME TypeOK, FlushInv, Epochs \/ Flushed, rf.vld
                 PROVE  IF rf.inst.kind = "cfg" THEN \A c \in written : c < rf.inst.epoch
                                                ELSE x_epoch >= rf.inst.epoch
      BY DEF CfgBarrier, written
    <2>1. Placed /\ Epochs
      BY DEF FlushInv, Flushed, Ordered
    <2>2. PICK e \in Entry : rf.entry = {e} /\ rf.inst = data[e] /\ inRf = {e} /\ e \in vld
      BY <2>1 DEF Placed, inRf, TypeOK
    <2>3. rf.inst.kind = "cfg" => e \in cfgEntries
      BY <2>2 DEF cfgEntries, mcfg
    <2>. QED BY <2>1, <2>2, <2>3 DEF Epochs, QueuedAfter, IssuedReady
  <1>. QED BY <1>1, AlwaysEpochs, AlwaysFlushInv, TypeCorrect, PTL
=============================================================================
