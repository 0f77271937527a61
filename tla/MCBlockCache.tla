---------------------------- MODULE MCBlockCache ----------------------------
(* Two pages of memory and a table shorter than them, so that addresses of one
   segment and of different segments compete for a slot, blocks run to the
   limit, to a page boundary and over it with a delay slot.                  *)
EXTENDS BlockCache

MCDmaSizes == {3, 4}
=============================================================================
