--------------------------- MODULE MCEmulatorLoop ---------------------------
(* Two addresses, frames of two or three lines, a batch that does not divide a
   line, and a limit that two short frames would fit in.                     *)
EXTENDS EmulatorLoop

MCLastLines == {1, 2}
MCCycleCounts == {3}
MCStepCounts == {1, 2}
=============================================================================
