---------------------------- MODULE MatLsqProofs ----------------------------
(***************************************************************************)
(* Proofs about MatLsq, for every number of entries, every set of sizes    *)
(* and every environment.  The age order is inductive together with the    *)
(* type invariant; the arbiter and the order-preservation properties       *)
(* follow from it.                                                         *)
(***************************************************************************)
EXTENDS MatLsq, FiniteSets, FiniteSetTheorems, WellFoundedInduction, TLAPS

\* At most one entry is free-and-lowest, so at most one is created.
LEMMA CreateAtMostOne ==
  ASSUME NEW inst, NEW e \in create(inst), NEW f \in create(inst)
  PROVE  e = f
  <1>. e \in create_in /\ f \in create_in
    BY DEF create
  <1>. QED BY LsqAssumption DEF create_in, Entry

LEMMA CreatedIsFree ==
  ASSUME NEW inst
  PROVE  create(inst) \subseteq Entry \ vld
  BY DEF create, create_in

\* The conditions an answer of the LSU satisfies, entry by entry.
LEMMA AnswerOf ==
  ASSUME TypeOK, NEW inst, NEW a \in Answers(inst)
  PROVE  /\ a.fin \subseteq pipeline /\ a.wait \subseteq pipeline
         /\ a.lose \subseteq pipeline /\ pipeline \subseteq Entry
         /\ a.wake = {} \/ a.wake = depd
         /\ \A e, f \in a.fin : e = f
         /\ a.fin = {} \/ a.wait = {}
         /\ \A e \in Entry : gone(a, e) \in Nat /\ gone(a, e) <= inflight[e]
         /\ \A e \in a.rep : \/ held(inst, e) > gone(a, e)
                             \/ e \in lsu_entry(inst) \ ld_req(inst)
         /\ \A e \in ld_req(inst) : inflight[e] = MaxReq => e \in a.rep
         /\ bypass(inst) /\ ~ReplayOnBypass => replayed(a) \subseteq create_in
  <1>1. /\ a.fin \in OneOf(pipeline) /\ a.wait \in OneOf(pipeline)
        /\ a.lose \in SUBSET pipeline /\ a.wake \in {{}, depd}
        /\ a.fin = {} \/ a.wait = {}
        /\ \A e \in pipeline : gone(a, e) <= inflight[e]
        /\ \A e \in a.rep : \/ held(inst, e) > gone(a, e)
                            \/ e \in lsu_entry(inst) \ ld_req(inst)
        /\ \A e \in ld_req(inst) : inflight[e] = MaxReq => e \in a.rep
        /\ bypass(inst) /\ ~ReplayOnBypass => replayed(a) \subseteq create_in
    BY DEF Answers
  <1>2. /\ a.fin \subseteq pipeline /\ a.wait \subseteq pipeline
        /\ a.lose \subseteq pipeline /\ \A e, f \in a.fin : e = f
    BY <1>1 DEF OneOf
  <1>3. ASSUME NEW e \in Entry PROVE gone(a, e) \in Nat /\ gone(a, e) <= inflight[e]
    <2>1. gone(a, e) \in Nat
      BY DEF gone, One
    <2>2. CASE e \in pipeline
      BY <1>1, <2>1, <2>2
    <2>3. CASE e \notin pipeline
      <3>1. gone(a, e) = 0
        BY <1>2, <2>3 DEF gone, One
      <3>. QED BY <2>1, <3>1 DEF TypeOK
    <2>. QED BY <2>2, <2>3
  <1>4. pipeline \subseteq Entry
    BY DEF pipeline
  <1>. QED BY <1>1, <1>2, <1>3, <1>4

\* The two clock edges write frz, agevec and the latched data alike; what they
\* do to vld differs only in that a flush leaves nothing valid.
LEMMA TypeStep == TypeOK /\ [Next]_vars => TypeOK'
  <1> SUFFICES ASSUME TypeOK, [Next]_vars PROVE TypeOK'
    OBVIOUS
  <1> USE LsqAssumption
  <1>1. ASSUME NEW inst \in Insts, NEW a \in Answers(inst),
               frz' = Frz(inst, a),
               agevec' = Agevec(inst), Latch(inst), Configure(inst)
        PROVE  /\ frz' \subseteq Entry /\ agevec' \in [Entry -> SUBSET Entry]
               /\ isld' \subseteq Entry /\ x_size' \in Sizes
               /\ sizeM' \in [Entry -> Nat] /\ sizeK' \in [Entry -> Nat]
    <2>1. x_size[1] \in Nat /\ x_size[2] \in Nat
      BY DEF TypeOK
    <2>2. frz' \subseteq Entry /\ agevec' \in [Entry -> SUBSET Entry]
      BY <1>1 DEF TypeOK, Frz, Agevec
    <2>3. /\ isld' \subseteq Entry
          /\ sizeM' \in [Entry -> Nat] /\ sizeK' \in [Entry -> Nat]
      BY <1>1, <2>1, CreatedIsFree DEF TypeOK, Latch
    <2>4. x_size' \in Sizes
      BY <1>1 DEF TypeOK, Configure
    <2>. QED BY <2>2, <2>3, <2>4
  <1>2. ASSUME NEW inst \in Insts, NEW a \in Answers(inst),
               Clock(inst, a)
        PROVE  TypeOK'
    <2>1. x_size[1] \in Nat /\ x_size[2] \in Nat
      BY DEF TypeOK
    <2>2. vld' \subseteq Entry
      BY <1>2, CreatedIsFree DEF Clock, Vld, TypeOK, entry_finish
    <2>3. row_cnt' \in [Entry -> Nat]
      BY <1>2, <2>1 DEF Clock, TypeOK, RowCnt
    <2>4. col_cnt' \in [Entry -> Nat]
      BY <1>2, <2>1 DEF Clock, TypeOK, ColCnt, RowEnds, Beat
    <2>5. move' \subseteq Entry /\ addr' \in [Entry -> Nat]
      BY <1>2, AnswerOf DEF Clock, TypeOK, Move, Addr
    <2>6. inflight' \in [Entry -> 0 .. MaxReq]
      <3>1. inflight' = [e \in Entry |-> Inflight(inst, a)[e]]
        BY <1>2 DEF Clock, Inflight
      <3>2. ASSUME NEW e \in Entry PROVE Inflight(inst, a)[e] \in 0 .. MaxReq
        <4>1. inflight[e] \in 0 .. MaxReq
          BY DEF TypeOK
        <4>2. /\ gone(a, e) \in Nat /\ gone(a, e) <= inflight[e]
              /\ e \in ld_req(inst) /\ inflight[e] = MaxReq => e \in a.rep
          BY AnswerOf
        <4>. QED BY <4>1, <4>2 DEF Inflight, held, One
      <3>. QED BY <3>1, <3>2
    <2>7. depd' \subseteq Entry /\ lost' \subseteq Entry
      BY <1>2, AnswerOf DEF Clock, Depd, TypeOK
    <2>. QED BY <1>1, <1>2, <2>2, <2>3, <2>4, <2>5, <2>6, <2>7 DEF Clock, TypeOK
  <1>3. ASSUME NEW inst \in Insts, NEW a \in Answers(inst),
               Flush(inst, a)
        PROVE  TypeOK'
    BY <1>1, <1>3 DEF Flush, Depd, TypeOK
  <1>4. CASE UNCHANGED vars
    BY <1>4 DEF TypeOK, vars
  <1>. QED BY <1>2, <1>3, <1>4 DEF Next

\* Type correctness of the queue.
THEOREM TypeCorrect == Spec => []TypeOK
  <1>1. Init => TypeOK
    BY LsqAssumption DEF Init, TypeOK
  <1>. QED BY <1>1, TypeStep, PTL DEF Spec

\* One edge keeps the order: survivors lose exactly the bits of the entries
\* that finish, and the one new entry is younger than every survivor.
LEMMA OrderStep == TypeOK /\ AgeOrder /\ [Next]_vars => AgeOrder'
  <1> SUFFICES ASSUME TypeOK, AgeOrder, [Next]_vars PROVE AgeOrder'
    OBVIOUS
  <1>1. ASSUME NEW inst \in Insts, NEW a \in Answers(inst),
               Clock(inst, a)
        PROVE  AgeOrder'
    <2> DEFINE Old == vld \ entry_finish
               New == create(inst)
    <2>1. vld' = Old \cup New
      BY <1>1 DEF Clock, Vld
    <2>2. New \subseteq Entry \ vld /\ Old \subseteq Entry
      BY CreatedIsFree DEF TypeOK
    <2>3. \A e \in New : agevec'[e] = Old
      BY <1>1, <2>2 DEF Clock, Agevec
    <2>4. \A e \in Old : agevec'[e] = agevec[e] \ entry_finish
      BY <1>1, <2>2 DEF Clock, Agevec
    <2>5. \A e, f \in New : e = f
      BY CreateAtMostOne
    <2> HIDE DEF Old, New
    <2>6. Old \cap New = {} /\ Old \subseteq vld /\ Old \cap entry_finish = {}
          /\ vld \subseteq Old \cup entry_finish
      BY <2>2 DEF Old
    <2>7. (\A e \in vld : agevec[e] \subseteq vld \ {e})'
      BY <2>1, <2>3, <2>4, <2>6 DEF AgeOrder
    <2>8. (\A e, f \in vld : e # f => (e \in agevec[f] <=> f \notin agevec[e]))'
      BY <2>1, <2>3, <2>4, <2>5, <2>6 DEF AgeOrder
    <2>9. (\A e, f, g \in vld : e \in agevec[f] /\ f \in agevec[g] => e \in agevec[g])'
      BY <2>1, <2>3, <2>4, <2>6 DEF AgeOrder
    <2>. QED BY <2>7, <2>8, <2>9 DEF AgeOrder
  <1>2. ASSUME NEW inst \in Insts, NEW a \in Answers(inst),
               Flush(inst, a)
        PROVE  AgeOrder'
    BY <1>2 DEF Flush, AgeOrder
  <1>3. CASE UNCHANGED vars
    BY <1>3 DEF AgeOrder, vars
  <1>. QED BY <1>1, <1>2, <1>3 DEF Next

\* The age vectors are a strict total order over the valid entries, always.
THEOREM AgeOrderCorrect == Spec => []AgeOrder
  <1>1. Init => AgeOrder
    BY DEF Init, AgeOrder
  <1>. QED BY <1>1, OrderStep, TypeCorrect, PTL DEF Spec

\* The arbiter grants one entry at most: of two ready entries one is older, and
\* it masks the other.
THEOREM OneGrantCorrect == Spec => []OneGrant
  <1>1. AgeOrder => OneGrant
    BY DEF AgeOrder, OneGrant, issue_en, raw_rdy
  <1>. QED BY <1>1, AgeOrderCorrect, PTL

\* The older ready entries of a ready entry get fewer with each older one, and
\* there are finitely many entries: some ready entry has none that is older.
LEMMA OldestExists == TypeOK /\ AgeOrder => GrantIfReady
  <1> SUFFICES ASSUME TypeOK, AgeOrder, raw_rdy # {} PROVE issue_en # {}
    BY DEF GrantIfReady
  <1> DEFINE older(e) == agevec[e] \cap raw_rdy
             T == {older(e) : e \in raw_rdy}
             R == StrictSubsetOrdering(Entry)
  <1>1. raw_rdy \subseteq vld /\ vld \subseteq Entry
    BY DEF TypeOK, raw_rdy
  <1>2. IsFiniteSet(Entry)
    BY LsqAssumption, FS_Interval DEF Entry
  <1>3. T \subseteq FiniteSubsetsOf(Entry) /\ T # {}
    <2>1. ASSUME NEW e \in raw_rdy PROVE older(e) \in FiniteSubsetsOf(Entry)
      <3>1. older(e) \in SUBSET Entry
        BY <1>1
      <3>2. IsFiniteSet(older(e))
        BY <3>1, <1>2, FS_Subset
      <3>. QED BY <3>1, <3>2 DEF FiniteSubsetsOf
    <2>. QED BY <2>1
  <1>4. IsWellFoundedOn(R, FiniteSubsetsOf(Entry))
    BY FS_StrictSubsetOrderingWellFounded
  <1>5. \E x \in T : \A y \in T : <<y, x>> \notin R
    <2> HIDE DEF T, R
    <2>. QED BY <1>3, <1>4, WFMin
  <1>6. PICK e \in raw_rdy : \A f \in raw_rdy : <<older(f), older(e)>> \notin R
    BY <1>5
  <1>7. ASSUME NEW f \in older(e) PROVE FALSE
    <2>1. f \in raw_rdy /\ f \in agevec[e] /\ f \in vld /\ e \in vld
      BY <1>1, <1>7
    <2>2. older(f) \subseteq older(e)
      BY <2>1, <1>1 DEF AgeOrder
    <2>3. f \notin older(f)
      BY <2>1 DEF AgeOrder
    <2>4. older(f) \in SUBSET Entry /\ older(e) \in SUBSET Entry
      BY <1>1
    <2>5. <<older(f), older(e)>> \in R
      BY <2>2, <2>3, <2>4, <1>7 DEF StrictSubsetOrdering
    <2>. QED BY <2>1, <2>5, <1>6
  <1>. QED BY <1>6, <1>7 DEF issue_en

\* The arbiter grants whenever an entry waits, for every size of the queue.
THEOREM GrantIfReadyCorrect == Spec => []GrantIfReady
  BY OldestExists, TypeCorrect, AgeOrderCorrect, PTL

\* No edge reorders two survivors, and a created entry is the youngest.
THEOREM AgePreservedCorrect == Spec => AgePreserved
  <1> DEFINE Kept == \A e, f \in vld' :
               /\ e \in vld \ entry_finish /\ f \in vld \ entry_finish
                    => (e \in agevec'[f] <=> e \in agevec[f])
               /\ e \in vld \ entry_finish /\ f \notin vld => e \in agevec'[f]
  <1>1. TypeOK /\ [Next]_vars => [Kept]_vars
    <2> SUFFICES ASSUME TypeOK, Next PROVE Kept
      OBVIOUS
    <2>1. ASSUME NEW inst \in Insts, NEW a \in Answers(inst),
                 Clock(inst, a)
          PROVE  Kept
      <3>1. vld' = (vld \ entry_finish) \cup create(inst)
            /\ agevec' = Agevec(inst)
        BY <2>1 DEF Clock, Vld
      <3>2. create(inst) \subseteq Entry \ vld
        BY CreatedIsFree
      <3>. QED BY <3>1, <3>2 DEF Agevec, TypeOK
    <2>2. ASSUME NEW inst \in Insts, NEW a \in Answers(inst),
                 Flush(inst, a)
          PROVE  Kept
      BY <2>2 DEF Flush
    <2>. QED BY <2>1, <2>2 DEF Next
  <1>. QED BY <1>1, TypeCorrect, PTL DEF Spec, AgePreserved

-----------------------------------------------------------------------------
(* The requests of an entry and, after them, its counters, under two        *)
(* assumptions of the run lsq_beats: the sizes are positive and nothing but *)
(* the bypassed entry is replayed in a bypass cycle.                        *)

Surroundings == /\ ~ReplayOnBypass
                /\ \A s \in Sizes : s[1] > 0 /\ s[2] > 0

\* Where the one request of an entry is: nowhere while the entry waits for
\* issue; while it is frozen in the pipeline or in the wakeup queue; popped when
\* the next one must be sent or nothing is left to fetch; or refused.
Asked(e) == inflight[e] = 1 \/ e \in depd

Request(e) ==
  /\ inflight[e] \in {0, 1}
  /\ inflight[e] = 1 => e \notin depd
  /\ Asked(e) => e \in vld /\ e \in frz /\ e \in isld
  /\ e \in vld /\ e \in frz /\ e \in isld =>
       Asked(e) \/ e \in move \/ e \in entry_finish \/ e \in lost
  /\ e \in lost => /\ e \in vld /\ e \in frz /\ e \in isld /\ ~Asked(e)
                   /\ e \notin move /\ e \notin entry_finish
  /\ e \in move => /\ e \in vld /\ e \in frz
                   /\ ~Asked(e) /\ e \notin entry_finish
  /\ e \in entry_finish => e \in frz /\ ~Asked(e)
  /\ e \in vld /\ e \notin entry_finish => row_cnt[e] > 0 /\ col_cnt[e] > 0

Requests == Surroundings /\ \A e \in Entry : Request(e)

-----------------------------------------------------------------------------
(* What the signals of a cycle say about one entry.                         *)

\* A valid entry is offered to the LSU only when it is granted, a new one only
\* when it is bypassed.
LEMMA Offered ==
  ASSUME TypeOK, NEW inst \in Insts, NEW e \in Entry
  PROVE  /\ e \in vld => /\ e \in lsu_entry(inst) => e \in issue_en /\ e \notin frz
                         /\ e \in ld_req(inst) <=> e \in issue_en /\ e \in isld
                         /\ e \in issue_en => e \notin frz /\ e \in lsu_entry(inst)
         /\ e \notin vld => /\ e \in ld_req(inst) <=>
                                 e \in create(inst) /\ bypass(inst) /\ inst = "ld"
                            /\ e \notin issue_en
  <1>1. issue_en \subseteq vld \ frz
    BY DEF issue_en, raw_rdy
  <1>2. create_in \subseteq Entry \ vld
    BY DEF create_in
  <1>3. bypass(inst) => inst # "none" /\ issue_en = {}
    BY DEF bypass, issue_en
  <1>. QED BY <1>1, <1>2, <1>3 DEF lsu_entry, ld_req, create, Insts

\* A request that is popped, discarded or refused is that of a frozen load, and
\* meets one of these ends only; a valid entry that is replayed has a request or
\* offers one.
LEMMA Answered ==
  ASSUME TypeOK, Requests, NEW inst \in Insts, NEW a \in Answers(inst), NEW e \in Entry
  PROVE  /\ e \in a.fin \cup a.wait \cup a.lose =>
              /\ inflight[e] = 1 /\ e \in vld /\ e \in frz /\ e \in isld
              /\ e \notin move /\ e \notin entry_finish /\ e \notin depd
              /\ e \notin lost /\ e \notin replayed(a)
         /\ e \in a.fin => e \notin a.wait /\ e \notin a.lose
         /\ e \in a.wait => e \notin a.lose
         /\ e \in a.wake => e \in depd /\ e \notin a.rep /\ ~bypass(inst)
         /\ e \in a.rep => e \notin depd
         /\ e \in replayed(a) /\ e \in vld => Asked(e) \/ e \in issue_en
         /\ bypass(inst) /\ replayed(a) # {} => create_in \subseteq replayed(a)
  <1>1. Request(e)
    BY DEF Requests
  <1>2. /\ a.fin \subseteq pipeline /\ a.wait \subseteq pipeline /\ a.lose \subseteq pipeline
        /\ a.wake = {} \/ a.wake = depd
        /\ a.fin = {} \/ a.wait = {}
        /\ gone(a, e) \in Nat /\ gone(a, e) <= inflight[e]
        /\ e \in a.rep => \/ held(inst, e) > gone(a, e)
                         \/ e \in lsu_entry(inst) \ ld_req(inst)
        /\ bypass(inst) => replayed(a) \subseteq create_in
    BY AnswerOf DEF Requests, Surroundings
  <1>3. inflight[e] = 0 \/ inflight[e] = 1
    BY <1>1 DEF Request
  <1>4. e \in a.rep => e \in ld_req(inst) \/ e \in lsu_entry(inst) \/ inflight[e] = 1
    BY <1>2, <1>3 DEF held, One
  <1>5. ASSUME e \in a.fin \cup a.wait \cup a.lose
        PROVE  /\ inflight[e] = 1 /\ e \in vld /\ e \in frz /\ e \in isld
               /\ e \notin move /\ e \notin entry_finish /\ e \notin depd
               /\ e \notin lost /\ e \notin replayed(a)
    <2>1. inflight[e] = 1
      BY <1>2, <1>3, <1>5 DEF pipeline
    <2>2. /\ e \in vld /\ e \in frz /\ e \in isld /\ e \notin lost
          /\ e \notin move /\ e \notin entry_finish /\ e \notin depd
      BY <1>1, <2>1 DEF Request, Asked
    <2>3. e \notin lsu_entry(inst) /\ e \notin ld_req(inst)
      BY <2>2, Offered
    <2>4. gone(a, e) >= 1
      BY <1>5 DEF gone, One
    <2>5. ~(held(inst, e) > gone(a, e))
      BY <1>2, <2>1, <2>3, <2>4 DEF held, One
    <2>. QED BY <1>2, <2>1, <2>2, <2>3, <2>5 DEF replayed
  <1>6. ~(e \in a.fin \cup a.wait /\ e \in a.lose)
    BY <1>2, <1>3 DEF gone, One
  <1>7. ASSUME e \in a.wake
        PROVE  e \in depd /\ e \notin a.rep /\ ~bypass(inst)
    <2>1. e \in depd
      BY <1>2, <1>7
    <2>2. e \in vld /\ e \in frz /\ inflight[e] = 0
      BY <1>1, <1>3, <2>1 DEF Request, Asked
    <2>3. e \notin lsu_entry(inst) /\ e \notin ld_req(inst)
      BY <2>2, Offered
    <2>4. e \notin create_in
      BY <2>2 DEF create_in
    <2>. QED BY <1>2, <1>4, <1>7, <2>1, <2>2, <2>3, <2>4 DEF replayed
  <1>8. ASSUME e \in replayed(a), e \in vld, e \notin issue_en
        PROVE  Asked(e)
    <2>1. e \notin lsu_entry(inst) /\ e \notin ld_req(inst)
      BY <1>8, Offered
    <2>. QED BY <1>4, <1>7, <1>8, <2>1 DEF replayed, Asked
  <1>9. ASSUME e \in a.rep PROVE e \notin depd
    <2>1. SUFFICES ASSUME e \in depd PROVE FALSE
      OBVIOUS
    <2>2. e \in vld /\ e \in frz /\ inflight[e] # 1
      BY <1>1, <2>1 DEF Request, Asked
    <2>3. e \notin lsu_entry(inst) /\ e \notin ld_req(inst)
      BY <2>2, Offered
    <2>. QED BY <1>4, <1>9, <2>2, <2>3
  <1>10. ASSUME bypass(inst), replayed(a) # {}
        PROVE  create_in \subseteq replayed(a)
    <2>1. \A f, g \in create_in : f = g
      BY LsqAssumption DEF create_in, Entry
    <2>. QED BY <1>2, <1>10, <2>1
  <1>. QED BY <1>2, <1>5, <1>6, <1>7, <1>8, <1>9, <1>10

\* What a step does to the requests of one entry.
LEMMA InflightStep ==
  ASSUME TypeOK, Requests, NEW inst \in Insts, NEW a \in Answers(inst),
         Clock(inst, a), NEW e \in Entry
  PROVE  /\ inflight'[e] = IF e \in a.fin \cup a.wait \cup a.lose \cup a.rep THEN 0
                           ELSE IF e \in ld_req(inst) THEN 1 ELSE inflight[e]
         /\ e \in depd' <=> (e \in depd /\ e \notin a.wake) \/ e \in a.wait
         /\ e \in lost' <=> /\ e \in lost \/ e \in a.lose
                            /\ e \notin replayed(a) /\ e \notin move /\ e \notin entry_finish
  <1>1. Request(e) /\ inflight[e] \in {0, 1}
    BY DEF Requests, Request
  <1>2. e \in ld_req(inst) => inflight[e] = 0
    <2>1. CASE e \in vld
      BY <1>1, <2>1, Offered DEF Request, Asked
    <2>2. CASE e \notin vld
      BY <1>1, <2>2 DEF Request, Asked
    <2>. QED BY <2>1, <2>2
  <1>3. /\ e \in a.fin \cup a.wait \cup a.lose => inflight[e] = 1 /\ e \notin replayed(a)
        /\ ~(e \in a.fin \cup a.wait /\ e \in a.lose)
    BY Answered
  <1>4. gone(a, e) = IF e \in a.fin \cup a.wait \cup a.lose THEN 1 ELSE 0
    BY <1>3 DEF gone, One
  <1>5. inflight'[e] = Inflight(inst, a)[e]
    BY DEF Clock
  <1>6. inflight'[e] = IF e \in a.fin \cup a.wait \cup a.lose \cup a.rep THEN 0
                       ELSE IF e \in ld_req(inst) THEN 1 ELSE inflight[e]
    BY <1>1, <1>2, <1>3, <1>4, <1>5 DEF Inflight, held, One, replayed
  <1>7. /\ e \in depd' <=> (e \in depd /\ e \notin a.wake) \/ e \in a.wait
        /\ e \in lost' <=> /\ e \in lost \/ e \in a.lose
                           /\ e \notin replayed(a) /\ e \notin move /\ e \notin entry_finish
    BY DEF Clock, Depd
  <1>. QED BY <1>6, <1>7

\* What a step does to the other registers of one entry that is not created.
LEMMA KeptStep ==
  ASSUME TypeOK, Requests, NEW inst \in Insts, NEW a \in Answers(inst), Clock(inst, a),
         NEW e \in Entry, e \notin create(inst)
  PROVE  /\ e \in vld' <=> e \in vld /\ e \notin entry_finish
         /\ e \in isld' <=> e \in isld
         /\ e \in frz' <=> e \notin replayed(a) /\ e \notin move /\ (e \in frz \/ e \in issue_en)
         /\ e \in move' <=> e \in a.fin /\ (~RowEnds(e) \/ row_cnt[e] # 1)
         /\ row_cnt'[e] = IF e \in a.fin /\ RowEnds(e) /\ row_cnt[e] # 0
                          THEN row_cnt[e] - 1 ELSE row_cnt[e]
         /\ col_cnt'[e] = IF e \in a.fin
                          THEN IF ~RowEnds(e) THEN col_cnt[e] - Beat
                               ELSE IF row_cnt[e] # 1 THEN x_size[2] ELSE 0
                          ELSE col_cnt[e]
  BY CreatedIsFree DEF Clock, Vld, Frz, Latch, RowCnt, ColCnt, Move, TypeOK

LEMMA CreatedStep ==
  ASSUME TypeOK, NEW inst \in Insts, NEW a \in Answers(inst), Clock(inst, a),
         NEW e \in create(inst), e \notin a.fin
  PROVE  /\ e \in Entry /\ e \notin vld /\ e \in vld' /\ e \notin move'
         /\ e \in isld' <=> inst = "ld"
         /\ e \in frz' <=> bypass(inst) /\ replayed(a) = {}
         /\ row_cnt'[e] = x_size[1] /\ col_cnt'[e] = x_size[2]
  <1>1. e \in Entry /\ e \notin vld
    BY CreatedIsFree
  <1>. QED BY <1>1 DEF Clock, Vld, Frz, Latch, RowCnt, ColCnt, Move

LEMMA FinishPrime == entry_finish' = {e \in vld' : row_cnt'[e] = 0 /\ col_cnt'[e] = 0}
  BY DEF entry_finish

LEMMA SizesPositive ==
  ASSUME TypeOK, Surroundings
  PROVE  x_size[1] \in Nat \ {0} /\ x_size[2] \in Nat \ {0}
  BY LsqAssumption DEF TypeOK, Surroundings

-----------------------------------------------------------------------------
LEMMA RequestClock ==
  ASSUME TypeOK, Requests, NEW inst \in Insts, NEW a \in Answers(inst),
         Clock(inst, a), NEW e \in Entry
  PROVE  Request(e)'
  <1>0. Request(e)
    BY DEF Requests
  <1>1. /\ inflight'[e] = IF e \in a.fin \cup a.wait \cup a.lose \cup a.rep THEN 0
                          ELSE IF e \in ld_req(inst) THEN 1 ELSE inflight[e]
        /\ e \in depd' <=> (e \in depd /\ e \notin a.wake) \/ e \in a.wait
        /\ e \in lost' <=> /\ e \in lost \/ e \in a.lose
                           /\ e \notin replayed(a) /\ e \notin move /\ e \notin entry_finish
    BY InflightStep
  <1>2. /\ e \in a.fin \cup a.wait \cup a.lose =>
             /\ inflight[e] = 1 /\ e \in vld /\ e \in frz /\ e \in isld
             /\ e \notin move /\ e \notin entry_finish /\ e \notin depd
             /\ e \notin lost /\ e \notin replayed(a)
        /\ e \in a.fin => e \notin a.wait /\ e \notin a.lose
        /\ e \in a.wait => e \notin a.lose
        /\ e \in a.wake => e \in depd /\ e \notin a.rep /\ ~bypass(inst)
        /\ e \in a.rep => e \notin depd
        /\ bypass(inst) /\ replayed(a) # {} => create_in \subseteq replayed(a)
    BY Answered
  <1>3. row_cnt[e] \in Nat /\ col_cnt[e] \in Nat
    BY DEF TypeOK
  <1>4. x_size[1] \in Nat \ {0} /\ x_size[2] \in Nat \ {0}
    BY SizesPositive DEF Requests
  <1>5. inflight'[e] \in {0, 1} /\ (Asked(e)' <=> inflight'[e] = 1 \/ e \in depd')
    BY <1>0, <1>1 DEF Request, Asked
  <1>6. CASE e \in create(inst)
    <2>1. e \notin vld
      BY <1>6, CreatedIsFree
    <2>2. /\ inflight[e] = 0 /\ e \notin depd /\ e \notin lost
          /\ e \notin a.fin /\ e \notin a.wait /\ e \notin a.lose
      BY <1>0, <1>2, <2>1 DEF Request, Asked
    <2>3. /\ e \in vld' /\ e \notin move' /\ (e \in isld' <=> inst = "ld")
          /\ e \in frz' <=> bypass(inst) /\ replayed(a) = {}
          /\ row_cnt'[e] = x_size[1] /\ col_cnt'[e] = x_size[2]
      BY <1>6, <2>2, CreatedStep
    <2>4. e \notin entry_finish'
      BY <1>4, <2>3, FinishPrime
    <2>5. e \in ld_req(inst) <=> bypass(inst) /\ inst = "ld"
      BY <1>6, <2>1, Offered
    <2>6. bypass(inst) /\ replayed(a) # {} => e \in a.rep
      BY <1>2, <1>6 DEF create, replayed
    <2>7. e \notin depd' /\ e \notin lost'
      BY <1>1, <2>2
    <2>8. inflight'[e] = 1 => e \in ld_req(inst) /\ e \notin a.rep
      BY <1>1, <2>2
    <2>9. inflight'[e] = 1 => e \in frz' /\ e \in isld'
      BY <2>3, <2>5, <2>6, <2>8
    <2>10. e \in frz' /\ e \in isld' => inflight'[e] = 1
      BY <1>1, <2>2, <2>3, <2>5 DEF replayed
    <2>. QED BY <1>4, <1>5, <2>3, <2>4, <2>7, <2>9, <2>10 DEF Request
  <1>7. CASE e \notin create(inst) /\ e \notin vld
    <2>1. /\ inflight[e] = 0 /\ e \notin depd /\ e \notin lost /\ e \notin ld_req(inst)
          /\ e \notin a.fin /\ e \notin a.wait /\ e \notin a.lose
      BY <1>0, <1>2, <1>7, Offered DEF Request, Asked
    <2>2. e \notin vld' /\ e \notin move' /\ e \notin entry_finish'
      BY <1>7, <2>1, KeptStep, FinishPrime
    <2>3. inflight'[e] = 0 /\ e \notin depd' /\ e \notin lost'
      BY <1>1, <2>1
    <2>. QED BY <1>5, <2>2, <2>3 DEF Request
  <1>8. CASE e \in vld
    <2>1. e \notin create(inst)
      BY <1>8, CreatedIsFree
    <2>2. /\ e \in vld' <=> e \notin entry_finish
          /\ e \in isld' <=> e \in isld
          /\ e \in frz' <=> e \notin replayed(a) /\ e \notin move /\ (e \in frz \/ e \in issue_en)
          /\ e \in move' <=> e \in a.fin /\ (~RowEnds(e) \/ row_cnt[e] # 1)
          /\ row_cnt'[e] = IF e \in a.fin /\ RowEnds(e) /\ row_cnt[e] # 0
                           THEN row_cnt[e] - 1 ELSE row_cnt[e]
          /\ col_cnt'[e] = IF e \in a.fin
                           THEN IF ~RowEnds(e) THEN col_cnt[e] - Beat
                                ELSE IF row_cnt[e] # 1 THEN x_size[2] ELSE 0
                           ELSE col_cnt[e]
      BY <1>8, <2>1, KeptStep
    <2>3. /\ e \in ld_req(inst) <=> e \in issue_en /\ e \in isld
          /\ e \in issue_en => e \notin frz
      BY <1>8, Offered
    <2>4. CASE e \in entry_finish
      <3>1. /\ e \in frz /\ inflight[e] = 0 /\ e \notin depd /\ e \notin vld'
            /\ e \notin a.fin /\ e \notin a.wait
        BY <1>0, <1>2, <2>2, <2>4 DEF Request, Asked
      <3>2. e \notin move' /\ e \notin entry_finish'
        BY <2>2, <3>1, FinishPrime
      <3>3. inflight'[e] = 0 /\ e \notin depd' /\ e \notin lost'
        BY <1>1, <2>3, <2>4, <3>1
      <3>. QED BY <1>5, <3>1, <3>2, <3>3 DEF Request
    <2>5. CASE e \in a.fin
      <3>1. /\ inflight[e] = 1 /\ e \in frz /\ e \in isld /\ e \notin move
            /\ e \notin entry_finish /\ e \notin replayed(a) /\ e \notin depd
            /\ e \notin lost /\ e \notin a.wait /\ e \notin a.lose
        BY <1>2, <2>5
      <3>2. row_cnt[e] > 0 /\ col_cnt[e] > 0
        BY <1>0, <1>8, <3>1 DEF Request
      <3>3. /\ e \in vld' /\ e \in frz' /\ e \in isld' /\ inflight'[e] = 0
            /\ e \notin depd' /\ e \notin lost'
        BY <1>1, <2>2, <2>5, <3>1
      <3>4. CASE RowEnds(e) /\ row_cnt[e] = 1
        <4>1. row_cnt'[e] = 0 /\ col_cnt'[e] = 0 /\ e \notin move'
          BY <2>2, <2>5, <3>4
        <4>. QED BY <1>5, <3>3, <4>1, FinishPrime DEF Request
      <3>5. CASE ~(RowEnds(e) /\ row_cnt[e] = 1)
        <4>1. row_cnt'[e] > 0 /\ col_cnt'[e] > 0 /\ e \in move'
          BY <1>3, <1>4, <2>2, <2>5, <3>2, <3>5 DEF RowEnds, Beat
        <4>2. e \notin entry_finish'
          BY <4>1, FinishPrime
        <4>. QED BY <1>5, <3>3, <4>1, <4>2 DEF Request
      <3>. QED BY <3>4, <3>5
    <2>6. CASE e \notin entry_finish /\ e \notin a.fin
      <3>1. row_cnt[e] > 0 /\ col_cnt[e] > 0
        BY <1>0, <1>8, <2>6 DEF Request
      <3>2. e \in vld' /\ e \notin move' /\ row_cnt'[e] > 0 /\ col_cnt'[e] > 0
        BY <2>2, <2>6, <3>1
      <3>3. e \notin entry_finish'
        BY <3>2, FinishPrime
      <3>4. CASE e \in a.wait \/ e \in a.lose
        <4>1. /\ inflight[e] = 1 /\ e \in frz /\ e \in isld /\ e \notin move
              /\ e \notin replayed(a) /\ e \notin depd /\ e \notin lost
          BY <1>2, <3>4
        <4>2. e \in frz' /\ e \in isld' /\ inflight'[e] = 0
          BY <1>1, <2>2, <3>4, <4>1
        <4>3. (e \in depd' <=> e \in a.wait) /\ (e \in lost' <=> e \in a.lose)
          BY <1>1, <2>6, <4>1
        <4>. QED BY <1>2, <1>5, <3>2, <3>3, <3>4, <4>2, <4>3 DEF Request
      <3>5. CASE e \in replayed(a)
        <4>1. e \notin frz' /\ e \notin lost'
          BY <1>1, <2>2, <3>5
        <4>2. e \notin a.fin /\ e \notin a.wait /\ e \notin a.lose
          BY <1>2, <3>5
        <4>3. inflight'[e] = 0 /\ e \notin depd'
          <5>1. CASE e \in a.rep
            BY <1>1, <1>2, <4>2, <5>1
          <5>2. CASE e \in a.wake
            <6>1. e \in depd /\ inflight[e] = 0 /\ e \in frz
              BY <1>0, <1>2, <5>2 DEF Request, Asked
            <6>. QED BY <1>1, <2>3, <4>2, <5>2, <6>1
          <5>. QED BY <3>5, <5>1, <5>2 DEF replayed
        <4>. QED BY <1>5, <3>2, <3>3, <4>1, <4>3 DEF Request
      <3>6. CASE e \notin a.wait /\ e \notin a.lose /\ e \notin replayed(a)
        <4>1. /\ inflight'[e] = IF e \in issue_en /\ e \in isld THEN 1 ELSE inflight[e]
              /\ e \in depd' <=> e \in depd
              /\ e \in lost' <=> e \in lost /\ e \notin move
              /\ e \in frz' <=> e \notin move /\ (e \in frz \/ e \in issue_en)
          BY <1>1, <2>2, <2>3, <2>6, <3>6 DEF replayed
        <4>. QED BY <1>0, <1>5, <1>8, <2>2, <2>3, <3>2, <3>3, <4>1 DEF Request, Asked
      <3>. QED BY <3>4, <3>5, <3>6
    <2>. QED BY <2>4, <2>5, <2>6
  <1>. QED BY <1>6, <1>7, <1>8

LEMMA RequestStep == TypeOK /\ Requests /\ [Next]_vars => Requests'
  <1> SUFFICES ASSUME TypeOK, Requests, [Next]_vars PROVE Requests'
    OBVIOUS
  <1>1. Surroundings'
    BY DEF Requests, Surroundings
  <1>2. ASSUME NEW inst \in Insts, NEW a \in Answers(inst),
               Clock(inst, a)
        PROVE  Requests'
    <2>1. ASSUME NEW e \in Entry PROVE Request(e)'
      BY <1>2, RequestClock
    <2>. QED BY <1>1, <2>1 DEF Requests
  <1>3. ASSUME NEW inst \in Insts, NEW a \in Answers(inst),
               Flush(inst, a)
        PROVE  Requests'
    BY <1>1, <1>3 DEF Flush, Depd, Requests, Request, Asked, entry_finish
  <1>4. CASE UNCHANGED vars
    BY <1>1, <1>4 DEF vars, Requests, Request, Asked, entry_finish
  <1>. QED BY <1>2, <1>3, <1>4 DEF Next

LEMMA AlwaysRequests == Surroundings /\ Spec => []Requests
  <1>1. Init /\ Surroundings => Requests
    BY DEF Init, Requests, Request, Asked, entry_finish
  <1>. QED BY <1>1, RequestStep, TypeCorrect, PTL DEF Spec

\* A frozen load has a request in the pipeline or in the wakeup queue, has just
\* been popped, or is one whose request was refused.
THEOREM FrozenHasRequestCorrect == Surroundings /\ Spec => []FrozenHasRequest
  <1>1. TypeOK /\ Requests => FrozenHasRequest
    BY DEF TypeOK, Requests, Request, Asked, FrozenHasRequest, pipeline
  <1>. QED BY <1>1, AlwaysRequests, TypeCorrect, PTL

\* No request is sent twice.
THEOREM ThawedHasNoRequestCorrect == Surroundings /\ Spec => []ThawedHasNoRequest
  <1>1. TypeOK /\ Requests => ThawedHasNoRequest
    BY DEF TypeOK, Requests, Request, Asked, ThawedHasNoRequest, raw_rdy, pipeline
  <1>. QED BY <1>1, AlwaysRequests, TypeCorrect, PTL

\* What the LSU can still pop or replay belongs to the instruction that holds
\* the entry, across flushes: the load pipeline and the wakeup queue forget a
\* request at the edge that forgets its entry.
THEOREM NoOrphanRequestCorrect == Surroundings /\ Spec => []NoOrphanRequest
  <1>1. TypeOK /\ Requests => NoOrphanRequest
    BY DEF TypeOK, Requests, Request, Asked, NoOrphanRequest, pipeline
  <1>. QED BY <1>1, AlwaysRequests, TypeCorrect, PTL

\* An entry is finished for the one cycle after its last beat was popped, and
\* one beat is popped in a cycle.
LEMMA FinishStep ==
  ASSUME TypeOK, Requests, NEW inst \in Insts, NEW a \in Answers(inst), Clock(inst, a)
  PROVE  entry_finish' \subseteq a.fin
  <1> SUFFICES ASSUME NEW e \in entry_finish', e \notin a.fin PROVE FALSE
    OBVIOUS
  <1>1. e \in vld' /\ row_cnt'[e] = 0
    BY FinishPrime
  <1>2. e \in Entry
    BY <1>1, CreatedIsFree DEF Clock, Vld, TypeOK
  <1>3. e \notin create(inst)
    <2>1. x_size[1] # 0
      BY SizesPositive DEF Requests
    <2>. QED BY <1>1, <2>1, CreatedStep
  <1>4. e \in vld /\ e \notin entry_finish /\ row_cnt'[e] = row_cnt[e]
    BY <1>1, <1>2, <1>3, KeptStep
  <1>. QED BY <1>1, <1>2, <1>4 DEF Requests, Request

\* Two entries never finish in one cycle, for every number of entries: what
\* the one-hot multiplexers of the completion rely on.
THEOREM OneFinishCorrect == Surroundings /\ Spec => []OneFinish
  <1>1. Init => OneFinish
    BY DEF Init, OneFinish, entry_finish
  <1>2. TypeOK /\ Requests /\ OneFinish /\ [Next]_vars => OneFinish'
    <2> SUFFICES ASSUME TypeOK, Requests, OneFinish, [Next]_vars PROVE OneFinish'
      OBVIOUS
    <2>1. ASSUME NEW inst \in Insts, NEW a \in Answers(inst), Clock(inst, a)
          PROVE  OneFinish'
      <3>1. entry_finish' \subseteq a.fin
        BY <2>1, FinishStep
      <3>2. \A e, f \in a.fin : e = f
        BY AnswerOf
      <3>. QED BY <3>1, <3>2 DEF OneFinish
    <2>2. ASSUME NEW inst \in Insts, NEW a \in Answers(inst), Flush(inst, a)
          PROVE  OneFinish'
      BY <2>2 DEF Flush, OneFinish, entry_finish
    <2>3. CASE UNCHANGED vars
      BY <2>3 DEF vars, OneFinish, entry_finish
    <2>. QED BY <2>1, <2>2, <2>3 DEF Next
  <1>. QED BY <1>1, <1>2, AlwaysRequests, TypeCorrect, PTL DEF Spec

\* A load whose request was refused for a full read buffer, a fence, a store
\* ahead of it, a full load queue or a busy TLB stays frozen in its entry until
\* a flush.
THEOREM LostWaitsForFlushCorrect == Surroundings /\ Spec => LostWaitsForFlush
  <1> DEFINE Stays == vld' = {} \/ lost \subseteq lost' \cap vld' \cap frz'
  <1>1. TypeOK /\ Requests /\ [Next]_vars => [Stays]_vars
    <2> SUFFICES ASSUME TypeOK, Requests, Next PROVE Stays
      OBVIOUS
    <2>1. ASSUME NEW inst \in Insts, NEW a \in Answers(inst), Clock(inst, a)
          PROVE  Stays
      <3>1. ASSUME NEW e \in lost PROVE e \in lost' /\ e \in vld' /\ e \in frz'
        <4>1. e \in Entry
          BY DEF TypeOK
        <4>2. /\ e \in vld /\ e \in frz /\ ~Asked(e)
              /\ e \notin move /\ e \notin entry_finish
          BY <4>1 DEF Requests, Request
        <4>3. e \notin create(inst) /\ e \notin issue_en
          BY <4>1, <4>2, CreatedIsFree, Offered
        <4>4. e \notin replayed(a)
          BY <4>1, <4>2, <4>3, Answered
        <4>5. e \in lost'
          BY <2>1, <4>1, <4>2, <4>4, InflightStep
        <4>6. e \in vld' /\ e \in frz'
          BY <2>1, <4>1, <4>2, <4>3, <4>4, KeptStep
        <4>. QED BY <4>5, <4>6
      <3>. QED BY <3>1
    <2>2. ASSUME NEW inst \in Insts, NEW a \in Answers(inst), Flush(inst, a)
          PROVE  Stays
      BY <2>2 DEF Flush
    <2>. QED BY <2>1, <2>2 DEF Next
  <1>. QED BY <1>1, AlwaysRequests, TypeCorrect, PTL DEF Spec, LostWaitsForFlush

-----------------------------------------------------------------------------
(* The counters: address, row and byte counter agree, and the queue        *)
(* implements MatLoads.  To the assumptions about the requests comes the   *)
(* third of the run lsq_beats: no mcfg rewrites the sizes while the queue  *)
(* holds entries.                                                          *)

\* What was latched at creation is what the configuration registers hold, and
\* the address lags behind the counters by a pending move at most.
Counter(e) ==
  e \in vld => /\ sizeM[e] = x_size[1] /\ sizeK[e] = x_size[2]
               /\ e \notin entry_finish =>
                    addr[e] + (IF e \in move THEN 1 ELSE 0) = Total(e) - Remaining(e)

Counters == ~CfgInFlight /\ \A e \in Entry : Counter(e)

-----------------------------------------------------------------------------
(* Beats and products of naturals. *)

LEMMA BeatsOf ==
  ASSUME NEW b \in Nat
  PROVE  /\ Beats(b) \in Nat
         /\ b > 0 => Beats(b) > 0
         /\ b > 0 /\ b <= Beat => Beats(b) = 1
         /\ b > Beat => Beats(b - Beat) = Beats(b) - 1
  BY SMT DEF Beats, Beat

LEMMA Rows ==
  ASSUME NEW r \in Nat \ {0}, NEW b \in Nat
  PROVE  /\ (r - 1) * b \in Nat
         /\ (r - 1) * b + b = r * b
         /\ (r - 1 - 1) * b + b = (r - 1) * b
  BY SMT

LEMMA RemainingOf ==
  ASSUME TypeOK, NEW e \in Entry
  PROVE  /\ Remaining(e) \in Nat
         /\ row_cnt[e] > 0 /\ col_cnt[e] > 0 => Remaining(e) > 0
  <1>1. row_cnt[e] \in Nat /\ col_cnt[e] \in Nat /\ sizeK[e] \in Nat
    BY DEF TypeOK
  <1>2. /\ Beats(sizeK[e]) \in Nat /\ Beats(col_cnt[e]) \in Nat
        /\ col_cnt[e] > 0 => Beats(col_cnt[e]) > 0
    BY <1>1, BeatsOf
  <1>3. CASE row_cnt[e] = 0
    BY <1>3 DEF Remaining
  <1>4. CASE row_cnt[e] # 0
    <2>1. (row_cnt[e] - 1) * Beats(sizeK[e]) \in Nat
      BY <1>1, <1>2, <1>4, Rows
    <2>. QED BY <1>2, <1>4, <2>1 DEF Remaining
  <1>. QED BY <1>3, <1>4

-----------------------------------------------------------------------------
\* A popped beat takes one from what remains, and nothing else does.
LEMMA RemainingStep ==
  ASSUME TypeOK, TypeOK', Requests, Counters, NEW inst \in Insts, NEW a \in Answers(inst), Clock(inst, a),
         NEW e \in Entry, e \notin create(inst)
  PROVE  Remaining(e)' = IF e \in a.fin THEN Remaining(e) - 1 ELSE Remaining(e)
  <1>0. Request(e) /\ Counter(e)
    BY DEF Requests, Counters
  <1>1. /\ row_cnt'[e] = IF e \in a.fin /\ RowEnds(e) /\ row_cnt[e] # 0
                         THEN row_cnt[e] - 1 ELSE row_cnt[e]
        /\ col_cnt'[e] = IF e \in a.fin
                         THEN IF ~RowEnds(e) THEN col_cnt[e] - Beat
                              ELSE IF row_cnt[e] # 1 THEN x_size[2] ELSE 0
                         ELSE col_cnt[e]
    BY KeptStep
  <1>2. sizeK'[e] = sizeK[e]
    BY DEF Clock, Latch
  <1>3. row_cnt[e] \in Nat /\ col_cnt[e] \in Nat /\ sizeK[e] \in Nat
    BY DEF TypeOK
  <1>4. CASE e \notin a.fin
    BY <1>1, <1>2, <1>4 DEF Remaining
  <1>5. CASE e \in a.fin
    <2>1. e \in vld /\ e \notin entry_finish
      BY <1>0, <1>5, Answered
    <2>2. row_cnt[e] > 0 /\ col_cnt[e] > 0 /\ sizeK[e] = x_size[2]
      BY <1>0, <2>1 DEF Request, Counter
    <2>3. /\ Beats(sizeK[e]) \in Nat /\ Beats(col_cnt[e]) \in Nat
          /\ col_cnt[e] <= Beat => Beats(col_cnt[e]) = 1
          /\ col_cnt[e] > Beat => Beats(col_cnt[e] - Beat) = Beats(col_cnt[e]) - 1
      BY <1>3, <2>2, BeatsOf
    <2>4. /\ (row_cnt[e] - 1) * Beats(sizeK[e]) \in Nat
          /\ (row_cnt[e] - 1 - 1) * Beats(sizeK[e]) + Beats(sizeK[e])
               = (row_cnt[e] - 1) * Beats(sizeK[e])
      BY <1>3, <2>2, <2>3, Rows
    <2>5. Remaining(e) = (row_cnt[e] - 1) * Beats(sizeK[e]) + Beats(col_cnt[e])
      BY <2>2 DEF Remaining
    <2>6. Remaining(e)' = IF row_cnt'[e] = 0 THEN 0
                          ELSE (row_cnt'[e] - 1) * Beats(sizeK[e]) + Beats(col_cnt'[e])
      BY <1>2 DEF Remaining, Beats, Beat
    <2>7. CASE ~RowEnds(e)
      <3>1. row_cnt'[e] = row_cnt[e] /\ col_cnt'[e] = col_cnt[e] - Beat
        BY <1>1, <1>5, <2>7
      <3>2. col_cnt[e] > Beat
        BY <1>3, <2>7 DEF RowEnds, Beat
      <3>3. Remaining(e)' = (row_cnt[e] - 1) * Beats(sizeK[e]) + Beats(col_cnt[e] - Beat)
        BY <2>2, <2>6, <3>1
      <3>. QED BY <1>5, <2>3, <2>4, <2>5, <3>2, <3>3
    <2>8. CASE RowEnds(e) /\ row_cnt[e] = 1
      <3>1. row_cnt'[e] = 0 /\ col_cnt[e] <= Beat
        BY <1>1, <1>5, <2>8 DEF RowEnds
      <3>2. (row_cnt[e] - 1) * Beats(sizeK[e]) = 0
        BY <2>3, <2>8
      <3>. QED BY <1>5, <2>3, <2>5, <2>6, <3>1, <3>2
    <2>9. CASE RowEnds(e) /\ row_cnt[e] # 1
      <3>1. row_cnt'[e] = row_cnt[e] - 1 /\ col_cnt'[e] = sizeK[e] /\ col_cnt[e] <= Beat
        BY <1>1, <1>5, <2>2, <2>9 DEF RowEnds
      <3>2. row_cnt'[e] # 0
        BY <1>3, <2>9, <3>1
      <3>3. Remaining(e)' = (row_cnt[e] - 1 - 1) * Beats(sizeK[e]) + Beats(sizeK[e])
        BY <2>6, <3>1, <3>2
      <3>. QED BY <1>5, <2>3, <2>4, <2>5, <3>1, <3>3
    <2>. QED BY <2>7, <2>8, <2>9
  <1>. QED BY <1>4, <1>5

\* A created entry has everything still to come.
LEMMA RemainingCreated ==
  ASSUME TypeOK, Requests, NEW inst \in Insts, NEW a \in Answers(inst), Clock(inst, a), NEW e \in create(inst)
  PROVE  /\ sizeM'[e] = x_size[1] /\ sizeK'[e] = x_size[2] /\ addr'[e] = 0
         /\ e \notin move'
         /\ Remaining(e)' \in Nat
         /\ Remaining(e)' = x_size[1] * Beats(x_size[2])
         /\ Total(e)' = x_size[1] * Beats(x_size[2])
  <1>1. e \in Entry /\ e \notin vld /\ e \notin a.fin
    <2>1. e \in Entry /\ e \notin vld
      BY CreatedIsFree
    <2>. QED BY <2>1, Answered DEF Clock
  <1>2. e \notin move' /\ row_cnt'[e] = x_size[1] /\ col_cnt'[e] = x_size[2]
    BY <1>1, CreatedStep
  <1>3. sizeM'[e] = x_size[1] /\ sizeK'[e] = x_size[2] /\ addr'[e] = 0
    BY <1>1 DEF Clock, Latch, Addr
  <1>4. x_size[1] \in Nat \ {0} /\ x_size[2] \in Nat \ {0}
    BY SizesPositive DEF Requests
  <1>5. /\ Beats(x_size[2]) \in Nat
        /\ (x_size[1] - 1) * Beats(x_size[2]) \in Nat
        /\ (x_size[1] - 1) * Beats(x_size[2]) + Beats(x_size[2]) = x_size[1] * Beats(x_size[2])
    BY <1>4, BeatsOf, Rows
  <1>6. Remaining(e)' = (x_size[1] - 1) * Beats(x_size[2]) + Beats(x_size[2])
    BY <1>2, <1>3, <1>4 DEF Remaining, Beats, Beat
  <1>7. Total(e)' = x_size[1] * Beats(x_size[2])
    BY <1>3 DEF Total, Beats, Beat
  <1>. QED BY <1>2, <1>3, <1>5, <1>6, <1>7

-----------------------------------------------------------------------------
LEMMA CounterClock ==
  ASSUME TypeOK, TypeOK', Requests, Requests', Counters, NEW inst \in Insts,
         NEW a \in Answers(inst), Clock(inst, a),
         NEW e \in Entry
  PROVE  Counter(e)'
  <1>1. SUFFICES ASSUME e \in vld' PROVE Counter(e)'
    BY DEF Counter
  <1>2. CASE e \in create(inst)
    <2>1. x_size' = x_size
      BY <1>2 DEF create, Clock, Configure, Counters
    <2>2. /\ sizeM'[e] = x_size[1] /\ sizeK'[e] = x_size[2] /\ addr'[e] = 0
          /\ e \notin move' /\ Remaining(e)' = Total(e)' /\ Remaining(e)' \in Nat
      BY <1>2, RemainingCreated
    <2>. QED BY <2>1, <2>2 DEF Counter
  <1>3. CASE e \notin create(inst)
    <2>1. Request(e) /\ Counter(e)
      BY DEF Requests, Counters
    <2>2. e \in vld /\ e \notin entry_finish
      BY <1>1, <1>3, KeptStep
    <2>3. x_size' = x_size
      BY <2>2 DEF Clock, Configure, Counters
    <2>4. sizeM'[e] = sizeM[e] /\ sizeK'[e] = sizeK[e]
      BY <1>3 DEF Clock, Latch
    <2>5. addr'[e] = addr[e] + (IF e \in move THEN 1 ELSE 0)
      BY <1>3 DEF Clock, Addr, TypeOK
    <2>6. /\ e \in a.fin => e \notin move
          /\ e \in move' <=> e \in a.fin /\ (~RowEnds(e) \/ row_cnt[e] # 1)
      BY <1>3, <2>1, Answered, KeptStep
    <2>7. Remaining(e)' = IF e \in a.fin THEN Remaining(e) - 1 ELSE Remaining(e)
      BY <1>3, RemainingStep
    <2>8. Total(e)' = Total(e)
      BY <2>4 DEF Total, Beats, Beat
    <2>9. e \in a.fin /\ e \notin move' => e \in entry_finish'
      <3>1. SUFFICES ASSUME e \in a.fin, e \notin move' PROVE e \in entry_finish'
        OBVIOUS
      <3>2. RowEnds(e) /\ row_cnt[e] = 1
        BY <2>6, <3>1
      <3>3. row_cnt'[e] = 0 /\ col_cnt'[e] = 0
        BY <1>3, <3>1, <3>2, KeptStep
      <3>. QED BY <1>1, <3>3, FinishPrime
    <2>10. addr[e] + (IF e \in move THEN 1 ELSE 0) = Total(e) - Remaining(e)
      BY <2>1, <2>2 DEF Counter
    <2>11. addr[e] \in Nat /\ Total(e) \in Int /\ Remaining(e) \in Nat
      <3>1. sizeM[e] \in Nat /\ Beats(sizeK[e]) \in Nat
        BY BeatsOf DEF TypeOK
      <3>2. Total(e) \in Int
        BY <3>1, SMT DEF Total
      <3>. QED BY <3>2, RemainingOf DEF TypeOK
    <2>12. e \notin entry_finish' =>
             addr'[e] + (IF e \in move' THEN 1 ELSE 0) = Total(e)' - Remaining(e)'
      BY <2>5, <2>6, <2>7, <2>8, <2>9, <2>10, <2>11
    <2>. QED BY <2>1, <2>2, <2>3, <2>4, <2>12 DEF Counter
  <1>. QED BY <1>2, <1>3

LEMMA CounterStep ==
  TypeOK /\ TypeOK' /\ Requests /\ Requests' /\ Counters /\ [Next]_vars => Counters'
  <1> SUFFICES ASSUME TypeOK, TypeOK', Requests, Requests', Counters, [Next]_vars
               PROVE  Counters'
    OBVIOUS
  <1>1. ASSUME NEW inst \in Insts, NEW a \in Answers(inst),
               Clock(inst, a)
        PROVE  Counters'
    BY <1>1, CounterClock DEF Counters
  <1>2. ASSUME NEW inst \in Insts, NEW a \in Answers(inst),
               Flush(inst, a)
        PROVE  Counters'
    BY <1>2 DEF Flush, Counters, Counter
  <1>3. CASE UNCHANGED vars
    BY <1>3 DEF vars, Counters, Counter, entry_finish, Total, Remaining, Beats, Beat
  <1>. QED BY <1>1, <1>2, <1>3 DEF Next

LEMMA AlwaysCounters == Surroundings /\ ~CfgInFlight /\ Spec => []Counters
  <1>1. Init /\ ~CfgInFlight => Counters
    BY DEF Init, Counters, Counter
  <1>. QED BY <1>1, CounterStep, TypeCorrect, AlwaysRequests, PTL DEF Spec

\* Address, row counter and byte counter of an entry never drift apart.
THEOREM CountersAgreeCorrect == Surroundings /\ ~CfgInFlight /\ Spec => []CountersAgree
  <1>1. TypeOK /\ Counters => CountersAgree
    BY DEF TypeOK, Counters, Counter, CountersAgree
  <1>. QED BY <1>1, AlwaysCounters, TypeCorrect, PTL

-----------------------------------------------------------------------------
(* The queue implements MatLoads: an edge is a step of MatLoads that takes a *)
(* place for the created entry and one beat for the entry that is popped.     *)

LEMMA LoadsInit == TypeOK /\ Init => Loads!Init
  BY DEF Init, Loads!Init, Remaining

LEMMA LoadsClock ==
  ASSUME TypeOK, TypeOK', Requests, Counters, NEW inst \in Insts, NEW a \in Answers(inst), Clock(inst, a)
  PROVE  Loads!Next
  <1> DEFINE n == x_size[1] * Beats(x_size[2])
  <1>0. \A e \in Entry : Request(e)
    BY DEF Requests
  <1>1. create(inst) \in Loads!OneOrNone /\ a.fin \in Loads!OneOrNone
    <2>1. create(inst) \subseteq Entry /\ \A e, f \in create(inst) : e = f
      BY LsqAssumption DEF create, create_in, Entry
    <2>. QED BY <2>1 , AnswerOf DEF Loads!OneOrNone
  <1>2. n \in {s[1] * Beats(s[2]) : s \in Sizes}
    BY DEF TypeOK
  <1>3. create(inst) \cap vld = {}
    BY CreatedIsFree
  <1>4. \A e \in vld : Remaining(e) > 0 <=> e \notin entry_finish
    <2>1. ASSUME NEW e \in vld, e \notin entry_finish PROVE Remaining(e) > 0
      BY <1>0, <2>1, RemainingOf DEF Request, TypeOK
    <2>2. ASSUME NEW e \in entry_finish PROVE ~(Remaining(e) > 0)
      BY <2>2 DEF entry_finish, Remaining
    <2>. QED BY <2>1, <2>2
  <1>5. \A e \in a.fin : Remaining(e) > 0
    <2>1. ASSUME NEW e \in a.fin PROVE e \in vld /\ e \notin entry_finish
      BY <1>0, AnswerOf, Answered
    <2>. QED BY <1>4, <2>1
  <1>6. vld' = {e \in vld : Remaining(e) > 0} \cup create(inst)
    BY <1>4 DEF Clock, Vld
  <1>7. [e \in Entry |-> Remaining(e)]' =
          [e \in Entry |-> IF e \in create(inst) THEN n
                           ELSE IF e \in a.fin THEN Remaining(e) - 1 ELSE Remaining(e)]
    <2>1. ASSUME NEW e \in Entry
          PROVE  Remaining(e)' = IF e \in create(inst) THEN n
                                 ELSE IF e \in a.fin THEN Remaining(e) - 1 ELSE Remaining(e)
      BY <2>1, RemainingCreated, RemainingStep
    <2>. QED BY <2>1
  <1>8. Loads!Step(create(inst), a.fin, n)
    <2>1. a.fin \subseteq Entry /\ create(inst) \subseteq Entry /\ vld \subseteq Entry
      BY AnswerOf, CreatedIsFree DEF TypeOK
    <2>. QED BY <1>3, <1>5, <1>6, <1>7, <2>1 DEF Loads!Step
  <1>. QED BY <1>1, <1>2, <1>8 DEF Loads!Next

LEMMA LoadsStep ==
  TypeOK /\ TypeOK' /\ Requests /\ Counters /\ [Next]_vars => [Loads!Next]_(Loads!lvars)
  <1> SUFFICES ASSUME TypeOK, TypeOK', Requests, Counters, [Next]_vars
               PROVE  [Loads!Next]_(Loads!lvars)
    OBVIOUS
  <1>1. ASSUME NEW inst \in Insts, NEW a \in Answers(inst),
               Clock(inst, a)
        PROVE  Loads!Next
    BY <1>1, LoadsClock
  <1>2. ASSUME NEW inst \in Insts, NEW a \in Answers(inst),
               Flush(inst, a)
        PROVE  Loads!Next
    <2>1. vld' = {} /\ row_cnt' = [e \in Entry |-> 0]
      BY <1>2 DEF Flush
    <2>2. [e \in Entry |-> Remaining(e)]' = [e \in Entry |-> 0]
      BY <2>1 DEF Remaining
    <2>. QED BY <2>1, <2>2 DEF Loads!Next, Loads!Flush
  <1>3. ASSUME UNCHANGED vars PROVE UNCHANGED Loads!lvars
    BY <1>3 DEF vars, Loads!lvars, Remaining, Beats, Beat
  <1>. QED BY <1>1, <1>2, <1>3 DEF Next

\* Whatever the sizes, a load costs exactly sizeM * ceil(sizeK / Beat) popped
\* beats and gives up its entry in the step after the last one.
THEOREM ImplementsLoadsCorrect ==
  Surroundings /\ ~CfgInFlight /\ Spec => ImplementsLoads
  <1>1. TypeOK /\ Init => Loads!Init
    BY LoadsInit
  <1>. QED BY <1>1, LoadsStep, TypeCorrect, AlwaysRequests, AlwaysCounters, PTL
           DEF Spec, ImplementsLoads, Loads!Spec
=============================================================================
