------------------------------ MODULE MCMatLsq ------------------------------
(* Instances of MatLsq for TLC. *)
EXTENDS MatLsq

\* One row of two beats (the second one partial), two rows of one beat, two rows
\* of two beats.
SizesReal == {<<1, 12>>, <<2, 8>>, <<2, 12>>}
=============================================================================
