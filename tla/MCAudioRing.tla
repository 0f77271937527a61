---------------------------- MODULE MCAudioRing ----------------------------
(* A ring of four slots that nine frames run through more than twice, with a
   callback that may ask for nothing, for less than is buffered, for all of it
   and for more than the ring can hold.                                      *)
EXTENDS AudioRing

MCPullSizes == {0, 1, 3, 5}
=============================================================================
