------------------------------ MODULE MCSpTask ------------------------------
(* Banks and an RDRAM that a transfer runs round the end of, one line or two
   with a gap.                                                               *)
EXTENDS SpTask

Transfer(length, count, skip) == [length |-> length, count |-> count, skip |-> skip]
MCTransfers == {Transfer(1, 1, 0), Transfer(3, 1, 0), Transfer(1, 2, 1)}
=============================================================================
