----------------------------- MODULE MCMatDeps ------------------------------
EXTENDS MatDeps

\* Two registers: loads of both, a store, a sum of a register with itself, a
\* product of the other register, and an accumulation into that one.
MCOps ==
  LET R(k, d, a, b, c) == [kind |-> k, dst |-> d, src0 |-> a, src1 |-> b, src2 |-> c]
  IN  {R("lsu", 0, NoReg, NoReg, NoReg), R("lsu", 1, NoReg, NoReg, NoReg),
       R("lsu", NoReg, 0, NoReg, NoReg),
       R("cal", 0, 0, 0, NoReg), R("cal", 0, 1, 1, NoReg), R("cal", 1, 1, 0, 1)}
=============================================================================
